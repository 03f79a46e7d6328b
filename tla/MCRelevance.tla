---------------------------- MODULE MCRelevance ----------------------------
(***************************************************************************)
(* Instances of the relevance pilot and benchmark: corpora of four to six  *)
(* articles put together from a few kinds, and the settings of a run.      *)
(***************************************************************************)
EXTENDS RelevanceBenchmark, TLC

Mention(entity, ambiguous, inTitle) == [entity |-> entity, ambiguous |-> ambiguous, inTitle |-> inTitle]

Plain(n) ==
    [record |-> n, url |-> n, title |-> {n, n + 10}, body |-> {n, n + 10, n + 20},
     language |-> "en", published |-> n, status |-> "available", rights |-> "cleared",
     mentions |-> {}, industry |-> FALSE, macro |-> FALSE, enough |-> TRUE]

\* Kinds 1 to 3 are copies of one story by record, url and body; 4 is similar
\* to 1; 5 must not be used; 6 mentions two entities; 7 to 9 are stories of
\* their own.
Kind(k) ==
    CASE k = 1 -> [Plain(1) EXCEPT !.mentions = {Mention(1, FALSE, TRUE)}]
      [] k = 2 -> [Plain(2) EXCEPT !.record = 1, !.mentions = {Mention(1, FALSE, FALSE)}, !.macro = TRUE]
      [] k = 3 -> [Plain(3) EXCEPT !.url = 2, !.body = Absent, !.status = "metadata_only", !.enough = FALSE]
      [] k = 4 -> [Plain(4) EXCEPT !.title = {1, 11}, !.mentions = {Mention(2, TRUE, TRUE)}]
      [] k = 5 -> [Plain(5) EXCEPT !.rights = "unclear", !.industry = TRUE]
      [] k = 6 -> [Plain(6) EXCEPT !.body = {1, 11, 21},
                                   !.mentions = {Mention(1, FALSE, TRUE), Mention(2, FALSE, FALSE)}]
      [] k = 7 -> [Plain(7) EXCEPT !.mentions = {Mention(1, FALSE, TRUE)}]
      [] k = 8 -> [Plain(8) EXCEPT !.mentions = {Mention(1, FALSE, FALSE)}]
      [] k = 9 -> [Plain(8) EXCEPT !.url = 9, !.title = {9}, !.body = {9}, !.record = 9, !.industry = TRUE]
      [] OTHER -> [Plain(k) EXCEPT !.published = k - 9]

Row(id, k) == [id |-> id, article |-> Kind(k)]
RowsOf(kinds) == [i \in 1..Len(kinds) |-> Row(i, kinds[i])]

\* Every order of four kinds.
SmallCorpora ==
    LET Orders(kinds) == {f \in [1..4 -> kinds] : Range(f) = kinds}
    IN  {RowsOf(f) : f \in Orders({1, 2, 3, 4}) \cup Orders({1, 3, 5, 6})}

\* Larger frames, one with most units in one stratum; an invalid row and a repeated id; nothing that may be used.
LargeCorpora ==
    {RowsOf(<<7, 8, 1, 9, 6, 4>>), RowsOf(<<9, 7, 4, 8, 3, 1>>), RowsOf(<<8, 7, 1, 7, 9, 3, 5>>),
     RowsOf(<<7, 10, 11, 12, 13, 9, 14>>)}
FaultyCorpora ==
    {<<Row(2, 1), [id |-> 3, article |-> Absent], Row(2, 5), Row(1, 4), Row(3, 9)>>,
     <<Row(1, 5)>>, << >>}

Setting(override, challenge, calibration, doubled) ==
    [corpus |-> TRUE, provenance |-> TRUE, calibrationLabels |-> TRUE,
     calibrationAdjudicated |-> TRUE, formalPilot |-> TRUE, formalLabels |-> "adjudicated",
     approved |-> FALSE,
     override |-> override, challenge |-> challenge, calibration |-> calibration,
     doubled |-> doubled, multiple |-> 1, distance |-> 6,
     scenarios |-> {[precision |-> 3, positive |-> 6, negative |-> 1],
                    [precision |-> 2, positive |-> 1, negative |-> 3]},
     candidates |-> 1, below |-> 2, cap |-> Absent]

Targets == {Setting(Absent, 2, 1, 1), Setting(2, 3, 2, 3)}
MoreTargets ==
    {Setting(n, 3, 2, d) : n \in {2, 4, 6}, d \in {2, 4}}
    \cup {Setting(Absent, 5, 4, 5), [Setting(Absent, 1, 9, 2) EXCEPT !.cap = 3, !.below = 1]}

\* Every combination of what may be supplied.
Gates ==
    {[Setting(Absent, 2, 1, 2) EXCEPT
        !.corpus = c, !.provenance = p, !.calibrationLabels = l, !.calibrationAdjudicated = a,
        !.formalPilot = g, !.formalLabels = f, !.approved = h] :
        c \in BOOLEAN, p \in BOOLEAN, l \in BOOLEAN, a \in BOOLEAN, g \in BOOLEAN,
        f \in {Absent, "raw", "empty", "adjudicated"}, h \in BOOLEAN}

MCGiven ==
    [rows : SmallCorpora, params : Targets]
    \cup [rows : LargeCorpora \cup FaultyCorpora, params : MoreTargets]
    \cup [rows : {RowsOf(<<7, 3, 5>>)}, params : Gates]

\* Two different orders, for two of the salts the code ranks with.
MCRank(salt, x) ==
    LET n == IF salt[1] = "pair" THEN 10 * x[1] + x[2] ELSE x IN
    IF salt[1] \in {"main", "double"} THEN n ELSE (7 * n) % 101

MCSimilarity == [title |-> 80, body |-> 70]

MCRules ==
    [provenance |-> TRUE, languages |-> {"en"}, undated |-> FALSE, window |-> 1..8,
     metadataOnly |-> TRUE, canonicalOnly |-> TRUE, evidence |-> FALSE]

-----------------------------------------------------------------------------
MCBenchmarks ==
    [size : {1, 4}, cap : {1, 2},
     setting : {[development |-> 2, validation |-> 5, holdout |-> 8, embargo |-> e] : e \in {0, 1}}
               \cup {[development |-> 1, validation |-> 3, holdout |-> 6, embargo |-> 2]}]

MCLabel(id) == IF id % 2 = 1 THEN 3 ELSE 0
MCOtherLabel(id) == 1

=============================================================================
