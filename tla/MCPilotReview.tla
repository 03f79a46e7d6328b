--------------------------- MODULE MCPilotReview ---------------------------
EXTENDS AnnotationExport

Ev(a, n, l) == [aid |-> <<a, n>>, revision |-> 1, label |-> l, seen |-> Original]

\* A study before its import; one just imported; one with two disagreements and
\* time for another save or for two adjudications; and one that is exported.
Base == [double |-> {1}, imported |-> TRUE, done |-> <<>>,
         saves |-> 0, preflights |-> 0, selects |-> 0, rulings |-> 0, exports |-> 0]

Disputes == [Base EXCEPT !.double = {1, 2},
                         !.done = <<Ev(1, 1, 0), Ev(1, 2, 1), Ev(2, 1, 0), Ev(2, 2, 1)>>]

MCStudies == {
    [Base EXCEPT !.imported = FALSE, !.saves = 1, !.preflights = 1, !.selects = 2],
    [Base EXCEPT !.saves = 2, !.rulings = 1],
    [Disputes EXCEPT !.saves = 1, !.rulings = 1],
    [Disputes EXCEPT !.rulings = 2],
    [Base EXCEPT !.done = <<Ev(1, 1, 0)>>, !.saves = 1, !.exports = 2]}

=============================================================================
