--------------------------- MODULE MCSubmissionLog --------------------------
(* Two tabs of one annotator, two assignments, two possible labels.          *)
EXTENDS SubmissionLog, TLC

CONSTANTS tab1, tab2, yes, no

MCSessions == {tab1, tab2}
MCLabels == {yes, no}
ModelSymmetry == Permutations(MCSessions) \cup Permutations(MCLabels)

\* The annotation page has Save and Save and next, the duplicate page always moves on.
AnnotationPage == [revisionInFingerprint |-> TRUE, advances |-> {TRUE, FALSE}]
DuplicatePage == [revisionInFingerprint |-> FALSE, advances |-> {TRUE}]
BothPages == {AnnotationPage, DuplicatePage}
=============================================================================
