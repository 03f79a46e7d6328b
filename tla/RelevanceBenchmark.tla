------------------------- MODULE RelevanceBenchmark -------------------------
(***************************************************************************)
(* The relevance benchmark: its sample of canonical articles, the          *)
(* chronological splits, the report on contamination, the baselines and    *)
(* their evaluation against adjudicated labels.                            *)
(***************************************************************************)
EXTENDS PilotTask

CONSTANTS
    Benchmarks,     \* what is configured: [size, cap, setting]
    Label(_),       \* the adjudicated label of an article
    OtherLabel(_)   \* and another one it might have had

\* A sample has room for a unit, and so has every entity (SamplingConfig); a setting is
\* [development, validation, holdout, embargo] with the last days of the periods, which
\* follow on each other (SplitConfig); an article is published on a day, if it says when.
ASSUME BenchmarkAssumption ==
    /\ \A b \in Benchmarks :
          /\ b.size \in Nat \ {0} /\ b.cap \in Nat \ {0}
          /\ b.setting.development \in Int /\ b.setting.validation \in Int
          /\ b.setting.holdout \in Int /\ b.setting.embargo \in Nat
          /\ b.setting.development < b.setting.validation
          /\ b.setting.validation <= b.setting.holdout
    /\ \A given \in Given : \A i \in 1..Len(given.rows) :
          Valid(given.rows[i]) => given.rows[i].article.published \in Int \cup {Absent}

-----------------------------------------------------------------------------
(* sample_benchmark_candidates *)

\* The categories in the order of their names.
Categories == <<"ambiguous_alias_case", "industry_phrase_match", "likely_unrelated_or_no_match",
                "macro_mention_one_company", "metadata_only", "multiple_semiconductor_entities", "possible_syndicated_copy",
                "strict_company_match_in_title", "strict_company_match_outside_title">>

\* classify_sampling_category
Category(x, near) ==
    LET bare == x.status = "metadata_only" \/ x.body = Absent
        entities == {m.entity : m \in x.mentions}
    IN  IF x.mentions = {}
        THEN IF bare THEN "metadata_only"
             ELSE IF x.industry THEN "industry_phrase_match" ELSE "likely_unrelated_or_no_match"
        ELSE IF \A m \in x.mentions : m.ambiguous THEN "ambiguous_alias_case"
        ELSE IF Cardinality(entities) >= 2 THEN "multiple_semiconductor_entities"
        ELSE IF x.macro /\ ~\E m \in x.mentions : m.inTitle THEN "macro_mention_one_company"
        ELSE IF near THEN "possible_syndicated_copy"
        ELSE IF \E m \in x.mentions : m.inTitle THEN "strict_company_match_in_title"
        ELSE "strict_company_match_outside_title"

NoEntity == 0
EntitiesOf(x) == IF x.mentions = {} THEN {NoEntity} ELSE {m.entity : m \in x.mentions}

\* _entity_cap_blocks: an entity already has as many units as it may have.
Blocked(corpus, selected, unit, cap) ==
    \E e \in EntitiesOf(corpus[unit]) :
        Cardinality({u \in selected : e \in EntitiesOf(corpus[u])}) >= cap

Open(corpus, selected, pool, cap) == {u \in pool \ selected : ~Blocked(corpus, selected, u, cap)}

\* The first pass takes one unit of a category whatever the size of the sample, the second
\* every unit until there are enough.
WithFirst(corpus, selected, pool, cap) ==
    selected \cup LowestRanked(Open(corpus, selected, pool, cap), 1, <<"main">>)
WithUnit(corpus, selected, u, size, cap) ==
    IF Cardinality(selected) < size THEN selected \cup Open(corpus, selected, {u}, cap) ELSE selected

UnitsOf(corpus, cs, near, category) ==
    LET InPair(id) == \E pair \in near : id \in {pair[1], pair[2]}
    IN  {u \in Canonicals(cs) : Category(corpus[u], InPair(u)) = category}

ByRank(units) ==
    CHOOSE s \in [1..Cardinality(units) -> units] :
        \A i, j \in 1..Cardinality(units) : i < j => Rank(<<"main">>, s[i]) < Rank(<<"main">>, s[j])

\* The units of each category in turn, then all.
FirstPass(corpus, cs, near, cap) ==
    FoldLeft(LAMBDA selected, category :
                WithFirst(corpus, selected, UnitsOf(corpus, cs, near, category), cap),
             {}, Categories)
BenchmarkSample(corpus, cs, near, size, cap) ==
    FoldLeft(LAMBDA selected, u : WithUnit(corpus, selected, u, size, cap),
             FirstPass(corpus, cs, near, cap), ByRank(Canonicals(cs)))

-----------------------------------------------------------------------------
(* assign_splits                                                           *)

Undated == "unassigned_missing_published_at"

\* As if the embargo were left out.
SplitOfNoEmbargo(day, setting) ==
    CASE day = Absent -> Undated
      [] day # Absent /\ day <= setting.development -> "development"
      [] day # Absent /\ day \in (setting.development + 1)..setting.validation -> "validation"
      [] day # Absent /\ day \in (setting.validation + 1)..setting.holdout -> "holdout"
      [] OTHER -> "out_of_range"

\* _split_for_date
SplitOf(day, setting) ==
    LET opens == setting.development + setting.embargo + 1
        reopens == setting.validation + setting.embargo + 1
    IN  IF day = Absent THEN Undated
        ELSE IF day <= setting.development THEN "development"
        ELSE IF day \in opens..setting.validation THEN "validation"
        ELSE IF day \in reopens..setting.holdout THEN "holdout"
        ELSE IF day < opens THEN "embargo_dev_val"
        ELSE IF day > setting.validation /\ day < reopens THEN "embargo_val_holdout"
        ELSE "out_of_range"

\* _cluster_date: the first day on which a member was published.
ClusterDay(corpus, cluster) ==
    LET days == {corpus[id].published : id \in cluster} \ {Absent}
    IN  IF days = {} THEN Absent ELSE Min(days)

\* Every member of the cluster of a sampled article gets the split of the
\* cluster.
Splits(corpus, cs, sampled, setting) ==
    LET chosen == {cluster \in cs : cluster \cap sampled # {}} IN
    [id \in UNION chosen |->
        SplitOf(ClusterDay(corpus, ClusterOf(cs, id)), setting)]

\* contamination_report: the near duplicates across two periods.
CrossingPairs(splits, near) ==
    LET periods == {"development", "validation", "holdout"} IN
    {pair \in near :
        /\ {pair[1], pair[2]} \subseteq DOMAIN splits
        /\ splits[pair[1]] # splits[pair[2]]
        /\ {splits[pair[1]], splits[pair[2]]} \subseteq periods}

-----------------------------------------------------------------------------
(* The baselines: TRUE, FALSE, or Absent for an abstention. *)

\* baseline_b_token_safe; baseline D decides the same way.
TokenSafe(x) ==
    IF x.mentions = {} THEN FALSE
    ELSE IF \E m \in x.mentions : ~m.ambiguous THEN TRUE ELSE Absent

\* baseline_c_strict_title
StrictTitle(x) ==
    LET title == {m \in x.mentions : m.inTitle} IN
    IF title = {} THEN FALSE
    ELSE IF \E m \in title : ~m.ambiguous THEN TRUE ELSE Absent

Baselines == {"B", "C", "D"}
Predict(baseline, x) == IF baseline = "C" THEN StrictTitle(x) ELSE TokenSafe(x)

\* binary_relevant
Relevant(label) == label >= 2

\* confusion_from_predictions: the cells of the evaluated articles.
Cell(prediction, label) ==
    CASE prediction = Absent -> "abstained"
      [] prediction = TRUE -> IF Relevant(label) THEN "tp" ELSE "fp"
      [] prediction = FALSE -> IF Relevant(label) THEN "fn" ELSE "tn"

\* evaluate_baselines: the counts per baseline and split; the holdout only
\* when it is enabled.
Evaluate(corpus, sampled, splits, labels, enabled) ==
    LET evaluated == {u \in sampled \cap DOMAIN labels : splits[u] = "holdout" => enabled} IN
    [b \in Baselines |->
        [split \in {splits[u] : u \in evaluated} |->
            [cell \in {"tp", "fp", "tn", "fn", "abstained"} |->
                Cardinality({u \in evaluated :
                    splits[u] = split /\ Cell(Predict(b, corpus[u]), labels[u]) = cell})]]]

-----------------------------------------------------------------------------
(* Properties *)

Periods == <<"development", "validation", "holdout">>

\* No entity has more units in the sample than its cap.
CapRespected(corpus, sampled, cap) ==
    \A u \in sampled : \A e \in EntitiesOf(corpus[u]) :
        Cardinality({v \in sampled : e \in EntitiesOf(corpus[v])}) <= cap

\* More than the embargo lies between the clusters of two successive periods.
PeriodsApart(corpus, cs, splits, setting) ==
    \A i \in 1..2 : \A a, b \in DOMAIN splits :
        splits[a] = Periods[i] /\ splits[b] = Periods[i + 1] =>
            ClusterDay(corpus, ClusterOf(cs, b))
                - ClusterDay(corpus, ClusterOf(cs, a)) > setting.embargo

\* The labels of a closed holdout leave no trace in the evaluation, and every
\* evaluated article is in one cell.
HoldoutClosed(corpus, sampled, splits, labels, others) ==
    LET merged == [u \in DOMAIN labels |->
                      IF u \in DOMAIN splits /\ splits[u] = "holdout" THEN others[u] ELSE labels[u]]
        metrics == Evaluate(corpus, sampled, splits, labels, FALSE)
    IN  /\ metrics = Evaluate(corpus, sampled, splits, merged, FALSE)
        /\ \A b \in Baselines : \A split \in DOMAIN metrics[b] :
              LET m == metrics[b][split] IN
              m["tp"] + m["fp"] + m["tn"] + m["fn"] + m["abstained"]
                  = Cardinality({u \in sampled \cap DOMAIN labels : splits[u] = split})

\* For every corpus, size and split of the benchmark: the caps of the entities
\* hold over both passes of the sampling; two successive periods, each with
\* all copies of its stories, are apart by more than the embargo, so that a model
\* tuned on one is not tested on its neighbours; and a closed holdout does not
\* leak into the metrics.
BenchmarkSound ==
    pc = "eligibility" =>
        LET near == NearPairs(records, clusters, params.distance)
            labels == [id \in DOMAIN records |-> Label(id)]
            others == [id \in DOMAIN records |-> OtherLabel(id)]
        IN  \A b \in Benchmarks :
                LET sampled == BenchmarkSample(records, clusters, near, b.size, b.cap)
                    splits == Splits(records, clusters, sampled, b.setting)
                IN  /\ CapRespected(records, sampled, b.cap)
                    /\ PeriodsApart(records, clusters, splits, b.setting)
                    /\ HoldoutClosed(records, sampled, splits, labels, others)

=============================================================================
