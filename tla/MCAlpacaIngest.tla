--------------------------- MODULE MCAlpacaIngest ---------------------------
(* A request of two pages and one for the bar of its second page.          *)
EXTENDS AlpacaIngest, TLC

CONSTANTS r1, r2, k1, k2

TwoRuns == {r1, r2}
MCKeys == {k1, k2}
MCRequests == [both |-> <<{k1}, {k2}>>, second |-> <<{k2}>>]
MCPolicies == {[force |-> FALSE, ttl |-> NoTtl], [force |-> FALSE, ttl |-> 1],
               [force |-> TRUE, ttl |-> NoTtl]}
MCInvalid == {[key |-> k1, version |-> 1]}
MCSymmetry == Permutations(TwoRuns)
=============================================================================
