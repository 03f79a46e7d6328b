---------------------------- MODULE MCCostGuard ----------------------------
(* Two processes, three days in two billing cycles; a cheap and a dear query *)
(* asked through the cache, and one the dashboard export always executes.    *)
EXTENDS CostGuard, TLC

CONSTANTS c1, c2, cheap, dear, export

MCClients == {c1, c2}
OneClient == {c1}
ClientSymmetry == Permutations(MCClients)

MCQueries == {cheap, dear, export}
MCCost == (cheap :> 1) @@ (dear :> 3) @@ (export :> 2)
MCCycleOf == (0 :> 0) @@ (1 :> 0) @@ (2 :> 1)

Cached(q, dry, ok, limit) ==
    [query |-> q, dryRun |-> dry, confirmed |-> ok, readsCache |-> TRUE,
     writesCache |-> TRUE, limit |-> limit]

MCCalls ==
    {Cached(cheap, FALSE, TRUE, 2), Cached(cheap, TRUE, TRUE, 2),
     Cached(cheap, FALSE, FALSE, 2), Cached(cheap, FALSE, TRUE, 0),
     Cached(dear, FALSE, TRUE, 9),
     [query |-> export, dryRun |-> FALSE, confirmed |-> TRUE, readsCache |-> FALSE,
      writesCache |-> FALSE, limit |-> 2]}
=============================================================================
