----------------------------- MODULE ThemeScores -----------------------------
(***************************************************************************)
(* What the seeded scoring task makes of its rows: the 2x2 tables and the  *)
(* tests of processing/news/themes/scoring.py, the rule classification of  *)
(* themes/classification.py, and _score_rows with the gate that admits     *)
(* Benjamini-Hochberg (seeded_theme_scoring/score.py, util.py).            *)
(*                                                                         *)
(* Fractions are whole numbers of 1/Scale, rounded down where the code     *)
(* rounds to six or nine digits; the ramps of logarithms keep their order  *)
(* and their end points.                                                   *)
(***************************************************************************)
EXTENDS GdeltQueries, Combinatorics

CONSTANTS
    Rules,    \* classify_theme: [core, exact, prefixes, long, buckets]
    Screens   \* the SCREEN_ constants and EXPECTED_CELL_THRESHOLD

Scale == 1000
SaturatingSupport == 4 * Screens.minSupport
Clip(x) == Max({0, Min({Scale, x})})
Missing(values) == NULL \in values

\* prevalence and share: None without a total.
Share(top, total) ==
    IF Missing({top, total}) \/ total = 0 THEN NULL ELSE Min({Scale, (top * Scale) \div total})

Below(value, bound) == value # NULL /\ value < bound

-----------------------------------------------------------------------------
(* Hypothesis tests on the table  a, b = n1 - a / c, d = n0 - c.           *)

DiffOrNull(total, part) ==
    IF Missing({total, part}) \/ total < part THEN NULL ELSE total - part

\* _contingency_valid: the effect sizes need both groups.
ContingencyValid(a, n1, c, n0) ==
    /\ ~Missing({a, n1, c, n0})
    /\ n1 > 0 /\ n0 > 0
    /\ a <= n1 /\ c <= n0

\* min_exp >= threshold, cross-multiplied.
ExpectedAtLeast(a, n1, c, n0, threshold) ==
    \A r \in {n1, n0} : \A col \in {a + c, n1 + n0 - a - c} :
        r * col >= threshold * (n1 + n0)

\* erfc(|z| / sqrt(2)): a falling function of z squared stands for the tail.
ZTest(a, n1, c, n0) ==
    LET n == n1 + n0
        col == a + c
        gap == a * n0 - c * n1
    IN  IF n1 = 0 \/ n0 = 0 \/ col \in {0, n} THEN NULL
        ELSE LET under == n1 * n0 * col * (n - col)
             IN  (Scale * under) \div (under + gap * gap * n)

\* The tables of the same margins that are no likelier than the observed one.
FisherExact(a, n1, c, n0) ==
    LET n == n1 + n0
        col == a + c
        weight(k) == choose(n1, k) * choose(n0, col - k)
        range == Max({0, col - n0})..Min({n1, col})
    IN  IF n = 0 \/ col \in {0, n} \/ n1 = 0 \/ n0 = 0 THEN Scale
        ELSE (Scale * MapThenSumSet(weight, {k \in range : weight(k) <= weight(a)}))
                \div choose(n, col)

Untested == [test |-> "unavailable_invalid_table", p |-> NULL]

\* select_hypothesis_test
HypothesisTest(a, n1, c, n0) ==
    IF Missing({a, n1, c, n0}) THEN Untested
    ELSE IF a > n1 \/ c > n0 \/ n1 + n0 = 0 THEN Untested
    ELSE IF ExpectedAtLeast(a, n1, c, n0, Screens.expectedCell)
         THEN [test |-> "two_proportion_z_test", p |-> ZTest(a, n1, c, n0)]
         ELSE [test |-> "fisher_exact_two_sided", p |-> FisherExact(a, n1, c, n0)]

\* lift: None without control prevalence; in hundredths.
Lift(a, n1, c, n0) ==
    IF Missing({a, n1, c, n0}) \/ n1 = 0 \/ n0 = 0 \/ c = 0 THEN NULL
    ELSE (100 * a * n0) \div (n1 * c)

\* smoothed_log_lift with alpha = 1/2, kept as the ratio it is the logarithm of.
SmoothedLift(a, n1, c, n0) ==
    IF Missing({a, n1, c, n0}) \/ n1 = 0 \/ n0 = 0 THEN NULL
    ELSE (Scale * (2 * a + 1) * (2 * n0 + 1)) \div ((2 * c + 1) * (2 * n1 + 1))

\* A bug: the walk starts from the smallest p, so that no later value bounds it.
StepUpFromBelow(ps) ==
    LET tested == {i \in DOMAIN ps : ps[i] # NULL}
        rank(i) == Cardinality({j \in tested : ps[j] < ps[i] \/ (ps[j] = ps[i] /\ j <= i)})
    IN  [i \in DOMAIN ps |->
            IF i \notin tested THEN NULL
            ELSE Clip((ps[i] * Cardinality(tested)) \div rank(i))]

\* The tested, the largest p first, of equal ones the last.
Falling(ps, tested) ==
    InOrder(tested, {c \in tested \X tested :
                        ps[c[1]] > ps[c[2]] \/ (ps[c[1]] = ps[c[2]] /\ c[1] > c[2])})

\* benjamini_hochberg: from the largest p down, each at most the one before.
BenjaminiHochberg(ps) ==
    LET tested == {i \in DOMAIN ps : ps[i] # NULL}
        m == Cardinality(tested)
        falling == Falling(ps, tested)
        adjusted[k \in 0..m] ==
            IF k = 0 THEN Scale
            ELSE Clip(Min({adjusted[k - 1], (ps[falling[k]] * m) \div (m + 1 - k)}))
    IN  [i \in DOMAIN ps |->
            IF i \in tested THEN adjusted[CHOOSE k \in 1..m : falling[k] = i] ELSE NULL]

-----------------------------------------------------------------------------
(* classify_theme: the first rule that fires.                              *)

TokenHits(code, token) ==
    IF token \in Rules.long THEN Occurs(token, code) ELSE OccursWhole(token, code, {"_"})

Classify(code) ==
    LET fires == {i \in DOMAIN Rules.buckets :
                    \E t \in Rules.buckets[i].tokens : TokenHits(code, t)}
    IN  IF \E t \in Rules.core : Occurs(t, code)
        THEN [category |-> "industry_core", generic |-> FALSE, review |-> FALSE]
        ELSE IF code \in Rules.exact \/ \E p \in Rules.prefixes : IsPrefix(p, code)
        THEN [category |-> "generic_noise", generic |-> TRUE, review |-> TRUE]
        ELSE IF fires # {}
        THEN LET category == Rules.buckets[Min(fires)].category
             IN  [category |-> category, generic |-> FALSE,
                  review |-> category \in {"market_context", "policy_geopolitics"}]
        ELSE [category |-> "requires_record_review", generic |-> FALSE, review |-> TRUE]

-----------------------------------------------------------------------------
(* One candidate.                                                          *)

\* The first value of an APPROX_TOP_COUNT that is not the NULL bucket.
TopOf(tops) ==
    LET real == SelectSeq(tops, LAMBDA t : t.value # NULL)
    IN  IF real = <<>> THEN NULL ELSE real[1].count

\* _screen_value: the exact share, or else the sketch's.
ScreenValue(exact, approx) ==
    CASE exact # NULL -> [value |-> exact, provenance |-> "exact"]
      [] exact = NULL /\ approx # NULL -> [value |-> approx, provenance |-> "approximate"]
      [] OTHER -> [value |-> NULL, provenance |-> "unavailable"]

\* weekly_stability, which the column of the row overrides unless it is zero.
PeriodsPresent(row) ==
    IF row.periods_present # 0 THEN row.periods_present
    ELSE Cardinality({w \in DOMAIN row.weekly : row.weekly[w] > 0})

SupportComponent(n) ==
    IF n < Screens.minSupport THEN 0
    ELSE IF n >= SaturatingSupport THEN Scale
    ELSE Clip(((n - Screens.minSupport) * Scale) \div (SaturatingSupport - Screens.minSupport))

Diversity(topShare) == IF topShare = NULL THEN NULL ELSE Clip(Scale - topShare)

\* composite_score: the mean of what is there, less 0.8 of it for a generic theme.
Composite(parts, generic) ==
    LET weight == [association |-> 30, support |-> 25, stability |-> 20,
                   sources |-> 15, seeds |-> 10]
        there == {k \in DOMAIN parts : parts[k] # NULL}
        total == MapThenSumSet(LAMBDA k : weight[k], there)
        base == MapThenSumSet(LAMBDA k : weight[k] * parts[k], there) \div total
    IN  IF parts.association = NULL THEN NULL
        ELSE IF generic THEN (base * 20) \div 100 ELSE base

\* The disjoint control: the seed arm is taken out of the whole corpus.
Contingency(row, totalSeed, totalAll) ==
    [a |-> row.seed_record_count, n1 |-> totalSeed,
     c |-> DiffOrNull(row.background_record_count, row.seed_record_count),
     n0 |-> DiffOrNull(totalAll, totalSeed)]

ReviewPriority(statistical, stable, spread, generic, flipped) ==
    CASE statistical /\ stable /\ ~generic /\ spread -> "high"
      [] statistical /\ stable /\ ~generic /\ ~spread -> "medium"
      [] ~(statistical /\ stable /\ ~generic) /\ flipped -> "medium"
      [] OTHER -> "low"

ScoreCandidate(row, totalSeed, totalAll) ==
    LET t == Contingency(row, totalSeed, totalAll)
        valid == ContingencyValid(t.a, t.n1, t.c, t.n0)
        effect(Op(_, _, _, _)) == IF valid THEN Op(t.a, t.n1, t.c, t.n0) ELSE NULL
        htest == HypothesisTest(t.a, t.n1, t.c, t.n0)
        approx(tops) == IF TopOf(tops) = NULL THEN NULL ELSE Share(TopOf(tops), t.a)
        bySource == ScreenValue(Share(row.exact_top_source_count, t.a), approx(row.top_sources))
        byDay == ScreenValue(Share(row.exact_top_day_count, t.a), approx(row.top_days))
        hits == ToSet(row.seed_hits)
        seedCount == Cardinality({i \in DOMAIN row.seed_hits : row.seed_hits[i].n > 0})
        bySeed == IF hits = {} THEN NULL ELSE Share(Max({h.n : h \in hits}), t.a)
        class == Classify(row.theme_code)
        lifted == effect(Lift)
        ratio == effect(SmoothedLift)
        spread(day, source) ==
            /\ Below(day, Screens.maxDayShare) /\ Below(source, Screens.maxSourceShare)
            /\ seedCount > 1 /\ Below(bySeed, Screens.maxSeedShare)
        statistical == t.a >= Screens.minSupport /\ lifted # NULL /\ lifted >= Screens.minLift
        stable == PeriodsPresent(row) >= Screens.minPeriods
        exactly == spread(byDay.value, bySource.value)
        flipped == spread(approx(row.top_days), approx(row.top_sources)) # exactly
    IN  [theme |-> row.theme_code,
         adjusted_p_value |-> NULL, raw_frequency_rank |-> NULL,    \* filled by _score_rows
         raw_statistical_rank |-> NULL, research_adjusted_rank |-> NULL,
         table |-> t, cells_valid |-> valid,
         hypothesis_test |-> htest.test, p_value |-> htest.p, ratio |-> ratio,
         lift |-> lifted, classification |-> class, seed_count |-> seedCount,
         statistical_eligibility |-> statistical, stability_eligibility |-> stable,
         concentration_eligibility |-> exactly,
         screening_pass |-> statistical /\ stable /\ exactly /\ ~class.generic,
         priority |-> ReviewPriority(statistical, stable, exactly, class.generic, flipped),
         provenance |-> <<bySource.provenance, byDay.provenance>>,
         first_seen |-> row.first_seen, sample_records |-> row.sample_records,
         composite |-> Composite(
            [association |-> IF ratio = NULL THEN NULL ELSE (Scale * ratio) \div (Scale + ratio),
             support |-> SupportComponent(t.a),
             stability |-> Share(PeriodsPresent(row), Cardinality(DOMAIN row.weekly)),
             sources |-> Diversity(bySource.value), seeds |-> Diversity(bySeed)],
            class.generic)]

-----------------------------------------------------------------------------
(* _score_rows                                                             *)

\* _assign_rankings: highest first, None last, ties by theme code.
RanksBy(rows, Value(_)) ==
    LET before(x, y) ==
            \/ Value(x) # NULL /\ Value(y) = NULL
            \/ Value(x) # NULL /\ Value(y) # NULL /\ Value(x) > Value(y)
            \/ Value(x) = Value(y) /\ Precedes(x.theme, y.theme)
    IN  [i \in DOMAIN rows |-> 1 + Cardinality({j \in DOMAIN rows : before(rows[j], rows[i])})]

\* The fields that the whole family decides, of one candidate after the other.
Completed(scored, adjusted, frequency, statistical, research) ==
    [i \in DOMAIN scored |->
        [scored[i] EXCEPT !.adjusted_p_value = adjusted[i],
                          !.raw_frequency_rank = frequency[i],
                          !.raw_statistical_rank = statistical[i],
                          !.research_adjusted_rank = research[i]]]

RealRows(rows) == Picked(rows, {i \in DOMAIN rows : ~Synthetic(rows[i].theme_code)})

\* The count broadcast on every row, None where there is none.
IndependentCount(rows) ==
    IF rows = <<>> THEN NULL ELSE rows[1].total_support_qualified_candidates

\* The independent count, and the rows against the cap as a second detector.
FamilyComplete(qualified, returned, cap) ==
    IF qualified = NULL THEN returned <= cap ELSE qualified <= cap /\ returned <= cap

\* The denominators: a field of the __TOTAL__ row.
TotalOf(rows, field) ==
    LET total == {r \in ToSet(rows) : r.theme_code = TotalCode}
    IN  IF total = {} THEN NULL ELSE (CHOOSE r \in total : TRUE)[field]

ScoredRows(real, totalSeed, totalAll) ==
    [i \in DOMAIN real |-> ScoreCandidate(real[i], totalSeed, totalAll)]

\* The gate: an incomplete family is not corrected at all.
Adjusted(scored, complete) ==
    IF complete THEN BenjaminiHochberg([i \in DOMAIN scored |-> scored[i].p_value])
    ELSE [i \in DOMAIN scored |-> NULL]

SeedDiagnostics(seedRows, totalSeed, totalMatches) ==
    {[seed |-> SubSeq(r.theme_code, 3, Len(r.theme_code)),
      records |-> r.seed_record_count,
      share_of_records |-> Share(r.seed_record_count, totalSeed),
      share_of_matches |-> Share(r.seed_record_count, totalMatches)] : r \in seedRows}

ScoreRows(rows, cap) ==
    LET seedRows == {r \in ToSet(rows) : IsPrefix(<<"__", "SEED">>, r.theme_code)}
        real == RealRows(rows)
        totalSeed == TotalOf(rows, "seed_record_count")
        totalAll == TotalOf(rows, "background_record_count")
        scored == ScoredRows(real, totalSeed, totalAll)
        qualified == IndependentCount(rows)
        complete == FamilyComplete(qualified, Len(real), cap)
    IN  [candidates |-> Completed(scored, Adjusted(scored, complete),
                                  RanksBy(scored, LAMBDA x : x.table.a),
                                  RanksBy(scored, LAMBDA x : x.ratio),
                                  RanksBy(scored, LAMBDA x : x.composite)),
         seed_diagnostics |-> SeedDiagnostics(seedRows, totalSeed, TotalOf(rows, "seed_match_count")),
         total_seed |-> totalSeed, total_all |-> totalAll,
         family_complete |-> complete,
         total_qualified |-> IF qualified = NULL /\ complete THEN Len(real) ELSE qualified,
         returned |-> Len(real),
         family_size |-> IF complete
                         THEN Cardinality({i \in DOMAIN scored : scored[i].p_value # NULL})
                         ELSE 0]

-----------------------------------------------------------------------------
(* The artifacts that select among the candidates.                         *)

TopRanked(candidates, limit) ==
    {i \in DOMAIN candidates : candidates[i].research_adjusted_rank <= Max({1, limit})}

\* _evidence_strata and _write_evidence: the sampled records of the selected themes,
\* their week counted from the theme's first day.
Evidence(candidates, topN, targets, q) ==
    LET selected == {i \in DOMAIN candidates :
            \/ candidates[i].research_adjusted_rank <= topN
            \/ candidates[i].raw_statistical_rank <= topN
            \/ candidates[i].theme \in targets}
        bucket(rec, first) ==
            LET w == IF first = NULL THEN -1 ELSE (rec.day - first) \div q.week
            IN  IF w \in Weeks(q) THEN w ELSE NULL
    IN  UNION {{[theme |-> candidates[i].theme, record |-> rec.rec_id,
                 week |-> bucket(rec, candidates[i].first_seen)] :
                rec \in ToSet(candidates[i].sample_records)} : i \in selected}
=============================================================================
