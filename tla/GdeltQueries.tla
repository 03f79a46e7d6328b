---------------------------- MODULE GdeltQueries ----------------------------
(***************************************************************************)
(* What the four SQL builders of ingestion/news/gdelt/bigquery/queries.py  *)
(* return on a GKG table, with seed_predicates.py, data/catalog/seeds.py   *)
(* and theme_bundles.py.                                                   *)
(*                                                                         *)
(* A text (a theme code, an organization blob, a pattern) is a sequence of *)
(* atoms: words and the delimiters between them.  A table is a set of GKG  *)
(* records                                                                 *)
(*   [id, day, slot, part, source, codes : sequence of theme codes, orgs]  *)
(* with day and slot the two halves of the 14 digit DATE, part the day of  *)
(* its partition, and codes what the SPLIT of V2Themes yields, repeats     *)
(* included.                                                               *)
(***************************************************************************)
EXTENDS Integers, SequencesExt

CONSTANTS
    NULL,        \* a SQL NULL, and Python's None
    LowerOf,     \* LOWER of each atom
    Collation    \* every theme code, the synthetic ones too, in string order

Lower(text) == [i \in DOMAIN text |-> LowerOf[text[i]]]

\* The atoms of one character, none of them a letter or a digit; words are longer.
Separators == {"_", " ", ";"}

\* LIKE '%part%': the "_" of a pattern fits any one character of the text.  Patterns are
\* taken to hold no "%", its other wildcard.
Like(part, text) ==
    LET fits(p, t) == p = t \/ (p = "_" /\ t \in Separators)
    IN  \E i \in 0..(Len(text) - Len(part)) :
            \A k \in DOMAIN part : fits(part[k], text[i + k])

Occurs(part, text) ==
    \E i \in 1..(Len(text) - Len(part) + 1) :
        SubSeq(text, i, i + Len(part) - 1) = part

\* The regular expression (^|delimiter)part(delimiter|$).
OccursWhole(part, text, delimiters) ==
    \E i \in 1..(Len(text) - Len(part) + 1) :
        LET after == i + Len(part) IN
        /\ SubSeq(text, i, after - 1) = part
        /\ i > 1 => text[i - 1] \in delimiters
        /\ after <= Len(text) => text[after] \in delimiters

\* The members of a finite set in the order of a set of pairs: the i-th has i - 1 before it.
Ahead(S, before, x) == {y \in S : <<y, x>> \in before}
InOrder(S, before) ==
    [i \in 1..Cardinality(S) |-> CHOOSE x \in S : Cardinality(Ahead(S, before, x)) = i - 1]

\* The elements of a sequence at some of its places.
Picked(s, places) ==
    LET order == InOrder(places, {p \in places \X places : p[1] < p[2]})
    IN  [n \in DOMAIN order |-> s[order[n]]]

Precedes(s, t) ==
    LET place(c) == CHOOSE i \in DOMAIN Collation : Collation[i] = c
    IN  place(s) < place(t)

-----------------------------------------------------------------------------
(* Seeds and terms.                                                        *)

SeedMatches(orgs, seed) ==
    IF seed.kind = "company_alias"
    THEN \E a \in seed.aliases : OccursWhole(a, Lower(orgs), Separators)
    ELSE \E a \in seed.aliases : Like(a, Lower(orgs))

MatchedSeeds(record, seeds) ==
    Picked(seeds, {i \in DOMAIN seeds : SeedMatches(record.orgs, seeds[i])})

\* seed_terms_from_flat: classified, the first of equal canonical forms kept.
SeedsFromFlat(terms, industryWords) ==
    LET norm == [i \in DOMAIN terms |-> Lower(terms[i])]
        first == Picked(norm, {i \in DOMAIN norm : \A j \in 1..(i - 1) : norm[j] # norm[i]})
        kind(t) == IF Len(t) > 1 \/ t[1] \in industryWords
                   THEN "industry_phrase" ELSE "company_alias"
    IN  [k \in DOMAIN first |->
            [canonical |-> first[k], kind |-> kind(first[k]), aliases |-> {first[k]}]]

ResolveSeeds(specs, terms, industryWords) ==
    IF specs # <<>> THEN specs ELSE SeedsFromFlat(terms, industryWords)

\* resolve_query_terms: explicit terms first, then the bundle's that are new but for case.
ResolveTerms(explicit, bundle) ==
    LET add(merged, t) ==
            IF \E i \in DOMAIN merged : Lower(merged[i]) = Lower(t)
            THEN merged ELSE Append(merged, t)
    IN  FoldLeft(add, explicit, bundle)

-----------------------------------------------------------------------------
(* The rows a builder's WHERE keeps.                                       *)

\* DATE BETWEEN the first second of start and the last second of end.
InWindow(record, window) == record.day \in window.start..window.end

\* _partition_clause: from start to the day after end, which it excludes.
InPartition(record, window, filtered) ==
    filtered => record.part >= window.start /\ record.part < window.end + 1

Selected(table, q) ==
    {r \in table : InWindow(r, q.window) /\ InPartition(r, q.window, q.partitioned)}

\* LENGTH(V2Themes) > 1
Themed(table, q) == {r \in Selected(table, q) : r.codes # <<>>}

ThemesOf(record) == ToSet(record.codes)

-----------------------------------------------------------------------------
(* build_gdelt_daily_counts_query.                                         *)

\* theme IN ('...') on theme codes, a LIKE on the lowered free text.
MatchesTerms(record, q) ==
    \E i \in DOMAIN q.terms :
        \/ "V2Themes" \in q.columns /\ q.terms[i] \in ThemesOf(record)
        \/ "AllNames" \in q.columns /\ Like(Lower(q.terms[i]), Lower(record.orgs))

\* SELECT DATE AS date, COUNT( * ) ... GROUP BY date: DATE is the whole stamp.
DailyCounts(table, q) ==
    LET matched == {r \in Selected(table, q) : MatchesTerms(r, q)}
        stamps == {<<r.day, r.slot>> : r \in matched}
        before(s, t) == s[1] < t[1] \/ (s[1] = t[1] /\ s[2] < t[2])
    IN  {[i \in 1..Cardinality(stamps) |->
            LET s == SetToSortSeq(stamps, before)[i] IN
            [date |-> s,
             article_count |-> Cardinality({r \in matched : <<r.day, r.slot>> = s})]]}

-----------------------------------------------------------------------------
(* build_gdelt_theme_discovery_query.                                      *)

MatchesPattern(code, pattern, mode) ==
    CASE mode = "substring" -> Like(Lower(pattern), Lower(code))
      [] mode = "exact" -> Lower(pattern) = Lower(code)
      [] mode = "token" -> OccursWhole(Lower(pattern), Lower(code), {"_"})

\* COUNT( * ) counts every occurrence of a code, repeats in a record too; rows of
\* equal count come in any order, so the LIMIT may keep either of them.
ThemeDiscovery(table, q) ==
    LET found == {c \in UNION {ThemesOf(r) : r \in Themed(table, q)} :
                    \E i \in DOMAIN q.patterns : MatchesPattern(c, q.patterns[i], q.mode)}
        cnt(c) == MapThenSumSet(LAMBDA r : Cardinality({i \in DOMAIN r.codes : r.codes[i] = c}),
                                Themed(table, q))
        sorted(s) == \A i \in 2..Len(s) : cnt(s[i - 1]) >= cnt(s[i])
    IN  {[i \in 1..Min({Len(s), q.limit}) |-> [theme |-> s[i], cnt |-> cnt(s[i])]] :
            s \in {s \in SetToSeqs(found) : sorted(s)}}

-----------------------------------------------------------------------------
(* build_gdelt_seeded_theme_discovery_query.                               *)

Seeded(records, q) == {r \in records : MatchedSeeds(r, q.seeds) # <<>>}

\* COUNT(DISTINCT rec_id)
DistinctIds(records) == Cardinality({r.id : r \in records})

\* The k most frequent values: one of the orders APPROX_TOP_COUNT may give.
TopCounts(rows, Value(_), k) ==
    LET values == {Value(r) : r \in rows}
        count(v) == Cardinality({r \in rows : Value(r) = v})
        order == CHOOSE s \in SetToSeqs(values) :
                    \A i \in 2..Len(s) : count(s[i - 1]) >= count(s[i])
    IN  [i \in 1..Min({k, Len(order)}) |-> [value |-> order[i], count |-> count(order[i])]]

SeededRow(code, carrying, matched, q) ==
    [theme_code |-> code,
     record_count |-> DistinctIds(carrying),
     distinct_day_count |-> Cardinality({r.day : r \in carrying}),
     first_seen |-> Min({r.day : r \in carrying}),
     last_seen |-> Max({r.day : r \in carrying}),
     matched_seed_terms |->
        UNION {{s.canonical : s \in ToSet(MatchedSeeds(r, q.seeds))} : r \in carrying},
     sample_sources |-> TopCounts(carrying, LAMBDA r : r.source, q.sample),
     source_count |-> Cardinality({r.source : r \in carrying}),
     total_seed_records |-> DistinctIds(matched)]

SeededDiscovery(table, q) ==
    LET matched == Seeded(Themed(table, q), q)
        codes == UNION {ThemesOf(r) : r \in matched}
        carrying(c) == {r \in matched : c \in ThemesOf(r)}
        records(c) == DistinctIds(carrying(c))
        before(c, d) == records(c) > records(d) \/ (records(c) = records(d) /\ Precedes(c, d))
        order == InOrder(codes, {p \in codes \X codes : before(p[1], p[2])})
    IN  {[i \in 1..Min({Len(order), q.limit}) |->
            SeededRow(order[i], carrying(order[i]), matched, q)]}

-----------------------------------------------------------------------------
(* build_gdelt_seeded_theme_scoring_query: one scan, with the synthetic    *)
(* codes __TOTAL__ on every record and __SEED__<canonical> on the matched. *)

TotalCode == <<"__", "TOTAL">>
SeedCode(canonical) == <<"__", "SEED">> \o canonical
Synthetic(code) == code[1] = "__"

ThemesPlus(record, seeds) ==
    ThemesOf(record) \cup {TotalCode}
        \cup {SeedCode(s.canonical) : s \in ToSet(MatchedSeeds(record, seeds))}

Weeks(q) == 0..((q.window.end - q.window.start) \div q.week)
WeekOf(record, q) == (record.day - q.window.start) \div q.week

\* MAX over the groups of COUNT(DISTINCT rec_id), NULL where the join finds no group.
MaxGroup(rows, Value(_)) ==
    IF rows = {} THEN NULL
    ELSE Max({Cardinality({r.id : r \in {x \in rows : Value(x) = Value(y)}}) : y \in rows})

ScoringRow(code, carrying, q, qualified) ==
    LET seeded == Seeded(carrying, q)
        onSeeded(r, v) == IF r \in seeded THEN v ELSE NULL
        real(rows) == IF Synthetic(code) THEN {} ELSE rows
        byId == SetToSortSeq(seeded, LAMBDA r, s : r.id < s.id)
    IN  [theme_code |-> code,
         total_support_qualified_candidates |-> qualified,
         seed_record_count |-> DistinctIds(seeded),
         background_record_count |-> DistinctIds(carrying),
         distinct_day_count |-> Cardinality({r.day : r \in seeded}),
         periods_present |-> Cardinality({WeekOf(r, q) : r \in seeded}),
         source_count |-> Cardinality({r.source : r \in seeded}),
         seed_match_count |-> MapThenSumSet(LAMBDA r : Len(MatchedSeeds(r, q.seeds)), seeded),
         multi_seed_record_count |-> DistinctIds({r \in seeded : Len(MatchedSeeds(r, q.seeds)) > 1}),
         first_seen |-> IF seeded = {} THEN NULL ELSE Min({r.day : r \in seeded}),
         last_seen |-> IF seeded = {} THEN NULL ELSE Max({r.day : r \in seeded}),
         weekly |-> [w \in Weeks(q) |-> DistinctIds({r \in seeded : WeekOf(r, q) = w})],
         top_sources |-> TopCounts(carrying, LAMBDA r : onSeeded(r, r.source), q.sample + 1),
         top_days |-> TopCounts(carrying, LAMBDA r : onSeeded(r, r.day), q.sample + 1),
         seed_hits |-> [i \in DOMAIN q.seeds |->
            [seed |-> q.seeds[i].canonical,
             n |-> Cardinality({r \in seeded : \E s \in ToSet(MatchedSeeds(r, q.seeds)) :
                                                 s.canonical = q.seeds[i].canonical})]],
         sample_records |-> [i \in 1..Min({q.sample, Len(byId)}) |->
            [rec_id |-> byId[i].id, source |-> byId[i].source, day |-> byId[i].day,
             matched_seeds |-> MatchedSeeds(byId[i], q.seeds)]],
         exact_top_source_count |-> MaxGroup(real(seeded), LAMBDA r : r.source),
         exact_top_day_count |-> MaxGroup(real(seeded), LAMBDA r : r.day)]

\* A bug: the LIMIT leaves no room for the synthetic rows.
LimitWithoutSentinels(q) == q.candidate_limit

EffectiveLimit(q) == q.candidate_limit + 1 + Len(q.seeds)

\* Synthetic rows first, then by seed share, by support and by code.
ScoringOrder(p, r) ==
    LET across == p.seed_record_count * r.background_record_count
        back == r.seed_record_count * p.background_record_count
        synth(x) == IF Synthetic(x.theme_code) THEN 1 ELSE 0
    IN  \/ synth(p) > synth(r)
        \/ synth(p) = synth(r) /\ across > back
        \/ synth(p) = synth(r) /\ across = back
           /\ \/ p.seed_record_count > r.seed_record_count
              \/ /\ p.seed_record_count = r.seed_record_count
                 /\ Precedes(p.theme_code, r.theme_code)

\* The themes of the records, with what HAVING keeps and qualified_count counts.
Carrying(table, q, code) == {r \in Themed(table, q) : code \in ThemesPlus(r, q.seeds)}
SeedSupport(table, q, code) == DistinctIds(Seeded(Carrying(table, q, code), q))
Having(table, q) ==
    {c \in UNION {ThemesPlus(r, q.seeds) : r \in Themed(table, q)} :
        SeedSupport(table, q, c) >= q.min_support \/ Synthetic(c)}
Qualified(having) == Cardinality({c \in having : ~Synthetic(c)})

PerTheme(table, q) ==
    LET having == Having(table, q)
        qualified == Qualified(having)
    IN  {ScoringRow(c, Carrying(table, q, c), q, qualified) : c \in having}

ThemeScoring(table, q) ==
    LET rows == PerTheme(table, q)
        order == InOrder(rows, {p \in rows \X rows : ScoringOrder(p[1], p[2])})
    IN  {SubSeq(order, 1, Min({EffectiveLimit(q), Len(order)}))}
=============================================================================
