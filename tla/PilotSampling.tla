--------------------------- MODULE PilotSampling ---------------------------
(***************************************************************************)
(* Eligibility of articles and the samples of the relevance pilot: the     *)
(* representative, challenge and calibration samples, the units that are   *)
(* annotated twice and the pairs reviewed for duplicates.  A unit is the   *)
(* canonical article of a cluster, named by its id.                        *)
(***************************************************************************)
EXTENDS ArticleClusters, SequencesExt

CONSTANTS
    Rank(_, _),     \* _stable_rank_key: the rank of a unit or pair under a salt
    Rules           \* the rules of eligibility

-----------------------------------------------------------------------------
(* evaluate_article_eligibility *)

RightsReasons(x) ==
    {r \in {"MISSING_PROVENANCE", "RIGHTS_UNCLEAR", "RIGHTS_RESTRICTED", "CONTENT_RESTRICTED"} :
        \/ r = "MISSING_PROVENANCE" /\ x.rights = Absent /\ Rules.provenance
        \/ r = "RIGHTS_UNCLEAR" /\ x.rights = "unclear"
        \/ r = "RIGHTS_RESTRICTED" /\ x.rights = "restricted"
        \/ r = "CONTENT_RESTRICTED" /\ x.rights # Absent /\ x.status = "rights_restricted"}

ContentReasons(x, canonical) ==
    {r \in {"UNSUPPORTED_LANGUAGE", "MISSING_PUBLICATION_TIME", "OUTSIDE_DATE_WINDOW",
            "INSUFFICIENT_TEXT", "METADATA_ONLY_DISALLOWED", "RETRIEVAL_FAILED_DISALLOWED",
            "DUPLICATE_NONCANONICAL_MEMBER", "MISSING_EVIDENCE"} :
        \/ r = "UNSUPPORTED_LANGUAGE" /\ x.language \notin Rules.languages
        \/ r = "MISSING_PUBLICATION_TIME" /\ x.published = Absent /\ ~Rules.undated
        \/ r = "OUTSIDE_DATE_WINDOW" /\ x.published # Absent /\ x.published \notin Rules.window
        \/ r = "INSUFFICIENT_TEXT" /\ ~x.enough
               /\ ~(x.status = "metadata_only" /\ Rules.metadataOnly)
        \/ r = "METADATA_ONLY_DISALLOWED" /\ x.status = "metadata_only" /\ ~Rules.metadataOnly
        \/ r = "RETRIEVAL_FAILED_DISALLOWED" /\ x.status = "retrieval_failed"
        \/ r = "DUPLICATE_NONCANONICAL_MEMBER" /\ Rules.canonicalOnly /\ ~canonical
        \/ r = "MISSING_EVIDENCE" /\ Rules.evidence /\ x.mentions = {} /\ ~x.industry}

Canonicals(clusters) == {Canonical(cluster) : cluster \in clusters}

CleanRights(corpus) == {id \in DOMAIN corpus : RightsReasons(corpus[id]) = {}}

\* The decisions: the articles without any reason to exclude them.
Eligible(corpus, clusters) ==
    {id \in CleanRights(corpus) :
        ContentReasons(corpus[id], id \in Canonicals(clusters)) = {}}

\* evaluate_corpus_eligibility: the counts of the flow.
FlowCounts(corpus, clusters, rejected) ==
    LET clean == Cardinality(CleanRights(corpus))
        eligible == Cardinality(Eligible(corpus, clusters))
    IN  [input |-> Cardinality(DOMAIN corpus) + rejected,
         accepted |-> Cardinality(DOMAIN corpus),
         rejected |-> rejected,
         rightsEligible |-> clean,
         rightsIneligible |-> Cardinality(DOMAIN corpus) - clean,
         corpusEligible |-> eligible,
         excluded |-> clean - eligible,
         frameUnits |-> Cardinality({cluster \in clusters :
                                        Canonical(cluster) \in Eligible(corpus, clusters)})]

-----------------------------------------------------------------------------
(* build_sampling_frame: the strata and flags of the units.  Strata are      *)
(* numbered in the order in which the code sorts their names.                *)

Clear(x) == {m.entity : m \in {n \in x.mentions : ~n.ambiguous}}
IndustryOnly(x) == x.industry /\ x.mentions = {}

AmbiguousAliasOnly == 1
IndustryPhraseOnly == 2
MetadataOnly == 3
MultipleClear == 4
OtherCandidate == 5
SingleClear(entity) == 5 + entity

\* assign_primary_stratum
Stratum(x) ==
    CASE IndustryOnly(x) -> IndustryPhraseOnly
      [] x.mentions # {} /\ \A m \in x.mentions : m.ambiguous -> AmbiguousAliasOnly
      [] Cardinality(Clear(x)) >= 2 -> MultipleClear
      [] Cardinality(Clear(x)) = 1 -> SingleClear(Max(Clear(x)))
      [] x.mentions = {} /\ ~x.industry /\ (x.status = "metadata_only" \/ x.body = Absent) -> MetadataOnly
      [] OTHER -> OtherCandidate

\* The difficulty flags, in the order of their names.
Flags == <<"AMBIGUOUS_ALIAS", "INDUSTRY_PHRASE_ONLY", "METADATA_ONLY", "MULTI_ENTITY",
           "POSSIBLE_SYNDICATION", "SEMICONDUCTOR_WITHOUT_TITLE_ENTITY">>

Flagged(x, near, flag) ==
    \/ flag = "AMBIGUOUS_ALIAS" /\ \E m \in x.mentions : m.ambiguous
    \/ flag = "INDUSTRY_PHRASE_ONLY" /\ IndustryOnly(x)
    \/ flag = "METADATA_ONLY" /\ x.status = "metadata_only"
    \/ flag = "MULTI_ENTITY" /\ Cardinality({m.entity : m \in x.mentions}) >= 2
    \/ flag = "POSSIBLE_SYNDICATION" /\ near
    \/ flag = "SEMICONDUCTOR_WITHOUT_TITLE_ENTITY"
          /\ x.mentions # {} /\ \A m \in x.mentions : ~m.inTitle

\* The frame maps each unit to its stratum and flags.
Frame(corpus, clusters, near) ==
    LET InPair(id) == \E pair \in near : id \in {pair[1], pair[2]} IN
    [id \in Canonicals(clusters) \cap Eligible(corpus, clusters) |->
        [stratum |-> Stratum(corpus[id]),
         flags |-> {flag \in Range(Flags) : Flagged(corpus[id], InPair(id), flag)}]]

-----------------------------------------------------------------------------
\* The k units of a pool that rank lowest.
LowestRanked(pool, k, salt) ==
    {u \in pool : Cardinality({v \in pool : Rank(salt, v) < Rank(salt, u)}) < k}

AtMost(a, b) == Min({a, b})

(* sample_representative_probability *)

Strata(frame) == {frame[u].stratum : u \in DOMAIN frame}
InStratum(frame, h) == {u \in DOMAIN frame : frame[u].stratum = h}

\* One unit of each stratum, in their order, as long as the target lasts; the
\* rest in proportion to the strata, rounded down; what is left by the size of
\* the fraction, to strata that have a unit left.
Allocation(frame, target) ==
    LET N(h) == Cardinality(InStratum(frame, h))
        total == Cardinality(DOMAIN frame)
        Least(h) == IF Cardinality({g \in Strata(frame) : g < h}) < target THEN 1 ELSE 0
        remaining == target - AtMost(target, Cardinality(Strata(frame)))
        Base(h) == AtMost((remaining * N(h)) \div total, N(h) - Least(h))
        left == remaining - MapThenSumSet(Base, Strata(frame))
        open == {h \in Strata(frame) : Least(h) + Base(h) < N(h)}
        Fraction(h) == (remaining * N(h)) % total
        Ahead(h) == {g \in open : \/ Fraction(g) > Fraction(h)
                                  \/ Fraction(g) = Fraction(h) /\ g > h}
    IN  [h \in Strata(frame) |->
            Least(h) + Base(h)
            + IF h \in open /\ Cardinality(Ahead(h)) < left THEN 1 ELSE 0]

\* The lowest ranks of each stratum, then of all; "sizes" is the bookkeeping
\* from which the inclusion probabilities are computed.
Representative(frame, target) ==
    LET n == Allocation(frame, target)
        drawn == UNION {LowestRanked(InStratum(frame, h), n[h], <<"main">>) : h \in Strata(frame)}
        filled == LowestRanked(DOMAIN frame \ drawn, target - Cardinality(drawn), <<"main">>)
    IN  IF frame = << >> \/ target = 0 THEN [units |-> {}, sizes |-> << >>]
        ELSE [units |-> drawn \cup filled,
              sizes |-> [h \in Strata(frame) |->
                            n[h] + Cardinality(filled \cap InStratum(frame, h))]]

(* sample_challenge_purposive and sample_calibration_units *)

Reasons == <<"AMBIGUOUS_ALIAS", "INDUSTRY_PHRASE_ONLY", "METADATA_ONLY", "MULTI_ENTITY",
             "OTHER_DOCUMENTED_REASON", "POSSIBLE_SYNDICATION",
             "SEMICONDUCTOR_WITHOUT_TITLE_ENTITY">>

ReasonsOf(frame, u) ==
    IF frame[u].flags = {} THEN {"OTHER_DOCUMENTED_REASON"} ELSE frame[u].flags

\* For a reason: the unit that ranks lowest among those with it that are not
\* selected yet, unless there are enough.
WithNext(frame, target, use, selected, reason) ==
    selected \cup
    IF Cardinality(selected) >= target THEN {}
    ELSE LowestRanked({u \in DOMAIN frame \ selected : reason \in ReasonsOf(frame, u)},
                      1, <<use, reason>>)

\* One round takes a unit for each reason in turn.
Round(frame, target, use, selected) ==
    FoldLeft(LAMBDA chosen, reason : WithNext(frame, target, use, chosen, reason), selected, Reasons)

\* Rounds until there are enough; after as many as there are units, none is left.
RoundRobin(frame, target, use) ==
    FoldLeft(LAMBDA selected, i : Round(frame, target, use, selected), {},
             [i \in 1..Cardinality(DOMAIN frame) |-> i])

Challenge(frame, target) == RoundRobin(frame, target, "challenge")

Calibration(frame, target) ==
    LET selected == RoundRobin(frame, target, "calib")
    IN  selected \cup LowestRanked(DOMAIN frame \ selected,
                                   target - Cardinality(selected), <<"calib">>)

(* merge_annotation_units and assign_double_annotation *)

\* One unit per cluster, with the roles of both samples.
Merged(representative, challenge) ==
    [u \in representative \cup challenge |->
        {role \in {"representative", "challenge"} :
            \/ role = "representative" /\ u \in representative
            \/ role = "challenge" /\ u \in challenge}]

\* As if the units that are in both picks were not made up for.
DoublyAnnotatedShort(units, target) ==
    LET reps == {u \in DOMAIN units : "representative" \in units[u]}
        challenges == {u \in DOMAIN units : "challenge" \in units[u]}
        preferred == AtMost(Cardinality(reps), (6 * target + 5) \div 10)
        others == AtMost(Cardinality(challenges), target - preferred)
        repCount == AtMost(Cardinality(reps), target - others)
    IN  LowestRanked(reps, repCount, <<"double">>) \cup LowestRanked(challenges, others, <<"double">>)

\* Three fifths from the representative units, the rest from the challenge
\* units; units in both picks and missing ones are made up for from all units.
DoublyAnnotated(units, target) ==
    LET reps == {u \in DOMAIN units : "representative" \in units[u]}
        challenges == {u \in DOMAIN units : "challenge" \in units[u]}
        preferred == AtMost(Cardinality(reps), (6 * target + 5) \div 10)
        others == AtMost(Cardinality(challenges), target - preferred)
        repCount == IF preferred + others < target
                    THEN AtMost(Cardinality(reps), target - others) ELSE preferred
        picked == LowestRanked(reps, repCount, <<"double">>)
                  \cup LowestRanked(challenges, others, <<"double">>)
    IN  picked \cup LowestRanked(DOMAIN units \ picked,
                                 target - Cardinality(picked), <<"double">>)

-----------------------------------------------------------------------------
(* build_pair_comparison_universe and sample_duplicate_pair_reviews *)

\* PAIR_SCORE_BINS: the bin of the better of the two similarities.
BinBounds == {0, 30, 50, 60, 65, 70, 75, 80, 90}
ScoreBin(x, y) ==
    Cardinality({bound \in BinBounds :
        \/ AtLeast(x.title, y.title, bound)
        \/ x.body # Absent /\ y.body # Absent /\ AtLeast(x.body, y.body, bound)})

\* classify_pair_candidate_status: the rules in the order of their names.
RuleOf(x, y) ==
    CASE SimilarTitles(x, y) /\ SimilarBodies(x, y) -> 2
      [] SimilarTitles(x, y) /\ ~SimilarBodies(x, y) -> 3
      [] ~SimilarTitles(x, y) /\ SimilarBodies(x, y) -> 1
      [] OTHER -> 0

\* pair_review_stratum_key: candidate or not, the bin, the rule.
PairStratum(x, y) == [candidate |-> RuleOf(x, y) # 0, key |-> 4 * ScoreBin(x, y) + RuleOf(x, y)]

\* The pairs of canonical articles that are comparable, at most "cap" of them;
\* an article excluded from the frame may be in a pair.
PairFrame(corpus, clusters, distance, cap) ==
    LET pairs == {pair \in Canonicals(clusters) \X Canonicals(clusters) :
                    Comparable(corpus, clusters, distance, pair[1], pair[2])}
    IN  [pair \in (IF cap = Absent THEN pairs ELSE LowestRanked(pairs, cap, <<"pair">>)) |->
            PairStratum(corpus[pair[1]], corpus[pair[2]])]

PairsIn(pairs, h) == {pair \in DOMAIN pairs : pairs[pair] = h}

\* _allocate: equal shares, the remainder to the first strata, then what small
\* strata could not use to the others in their order.
PairAllocation(pairs, strata, target) ==
    LET N(h) == Cardinality(PairsIn(pairs, h))
        Before(h) == {g \in strata : g.key < h.key}
        Share(h) == target \div Cardinality(strata)
                    + IF Cardinality(Before(h)) < target % Cardinality(strata) THEN 1 ELSE 0
        First(h) == AtMost(Share(h), N(h))
        Spare(h) == N(h) - First(h)
        short == target - MapThenSumSet(First, strata)
        Fill(h) == AtMost(Spare(h), Max({0, short - MapThenSumSet(Spare, Before(h))}))
    IN  [h \in strata |-> First(h) + Fill(h)]

ReviewPairs(pairs, candidateTarget, belowTarget) ==
    LET strata == {pairs[pair] : pair \in DOMAIN pairs}
        Target(candidate) == IF candidate THEN candidateTarget ELSE belowTarget
        n == [c \in BOOLEAN |->
                PairAllocation(pairs, {h \in strata : h.candidate = c}, Target(c))]
    IN  UNION {LowestRanked(PairsIn(pairs, h), n[h.candidate][h], <<"pair", h.key>>) : h \in strata}

=============================================================================
