------------------------ MODULE MCNewsMarketDataset ------------------------
(***************************************************************************)
(* A small calendar for the dataset builder.  A day has eight ticks: a     *)
(* session opens at the third and closes at the sixth.  Day 3 is a         *)
(* holiday, day 2 closes early, and day 4 lasts nine ticks, as the day     *)
(* clocks are set back.                                                    *)
(***************************************************************************)
EXTENDS NewsMarketDataset, TLC

CONSTANTS a1, a2

MCArticles == {a1, a2}
ArticleSymmetry == Permutations(MCArticles)

MCSessions == {1, 2, 4, 5, 6, 7, 8, 9}
MCMidnight == <<0, 8, 16, 24, 33, 41, 49, 57, 65, 73>>
MCOpening == [s \in MCSessions |-> MCMidnight[s] + 3]
MCClosing == [s \in MCSessions |-> MCMidnight[s] + (IF s = 2 THEN 5 ELSE 6)]

MCSymbols == {"instrument", "benchmark"}
EveryBar == [symbol \in MCSymbols |-> MCSessions]
Policy(p, b, d) == [policy |-> p, buffer |-> b, downgrade |-> d]
Configurations(ps, bs, ds) == {Policy(p, b, d) : p \in ps, b \in bs, d \in ds}

\* An instant after the calendar: such an article is skipped.
TooLate == 80

\* Both articles at any instants of six days, under each policy.
ArticleInputs(bs) ==
    [published : [MCArticles -> 0..49 \cup {TooLate}], countDays : {{}}, bars : {EveryBar},
     config : Configurations(AlignmentPolicies, bs, {FALSE})]

\* Counts beside the articles; the last day of the calendar has no next session.
MixedInputs ==
    [published : [MCArticles -> {4, 10}], countDays : {{}, {3, 4}, {2, 9}},
     bars : [MCSymbols -> {MCSessions, MCSessions \cup {3}}],
     config : Configurations(AlignmentPolicies, {0, 1}, BOOLEAN)]

\* Only counts, and series of bars with any of these gaps.  The larger buffer moves the
\* cutoff before the news is available.
GapInputs ==
    [published : [MCArticles -> {TooLate}], countDays : {1..8, {1, 3, 4, 5, 6, 7, 8}},
     bars : [MCSymbols -> {MCSessions \ gaps : gaps \in SUBSET {4, 6, 7, 8}}],
     config : Configurations({Conservative}, {1, 5}, {FALSE})]

\* Cutoffs in the morning of their session.
MorningInputs == ArticleInputs({0, 1}) \cup MixedInputs \cup GapInputs
\* A cutoff five ticks before the open lies on the evening before.
EveningInputs == ArticleInputs({5})

\* The whole calendar, and a mapping that is active in two sessions only.
MCMappings ==
    {[symbol |-> "instrument", benchmark |-> "benchmark", from |-> 1, to |-> 9],
     [symbol |-> "benchmark", benchmark |-> "instrument", from |-> 4, to |-> 5]}
=============================================================================
