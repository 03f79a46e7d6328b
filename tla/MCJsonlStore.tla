---------------------------- MODULE MCJsonlStore ----------------------------
(* Two processes, two keys; the batches cover insert, update, skip, a        *)
(* duplicate inside a batch, a conflicting batch and an empty one.           *)
EXTENDS JsonlStore, TLC

CONSTANTS w1, w2, a, b, p, q, noon, night

Bar(key, payload, stamp) == [key |-> key, rec |-> [payload |-> payload, retrieved |-> stamp]]

MCWriters == {w1, w2}

MCKeys == {a, b}
MCPayloads == {p, q}
MCStamps == {noon, night}
MCInitialDatasets == {EmptyDataset, a :> [payload |-> p, retrieved |-> noon]}

\* An insert or update with a duplicate, a batch that is partly there already, a
\* conflicting one and an empty one.
MCBatches ==
    {<<Bar(a, q, night), Bar(a, q, noon)>>,
     <<Bar(a, p, night), Bar(b, p, noon)>>,
     <<Bar(b, p, noon), Bar(b, q, noon)>>,
     <<>>}
=============================================================================
