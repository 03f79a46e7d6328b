-------------------------- MODULE FinancialRecords --------------------------
(***************************************************************************)
(* The data half of data/storage/jsonl.py: what a stored record is, when   *)
(* two records are "semantically equal", how a batch is collapsed and how  *)
(* it is merged into a dataset.  A record is the payload the provider sent *)
(* plus the volatile retrieved_at stamp, which the comparison ignores.     *)
(***************************************************************************)
EXTENDS Integers, Sequences, FiniteSets

CONSTANTS
    Keys,       \* logical keys of one dataset (symbol, timestamp, feed, ...)
    Payloads,   \* market content of a record, volatile metadata removed
    Stamps,     \* values of retrieved_at
    Batches     \* the batches callers pass: sequences of [key, rec]

Record == [payload : Payloads, retrieved : Stamps]

\* What a dataset holds: at most one record per logical key.
Dataset == UNION {[D -> Record] : D \in SUBSET Keys}

EmptyDataset == [k \in {} |-> k]

ASSUME BatchesAssumption ==
    /\ Batches \subseteq Seq([key : Keys, rec : Record])
    /\ <<>> \in Batches             \* an empty batch is legal
    /\ IsFiniteSet(Keys)

SemanticallyEqual(r, s) == r.payload = s.payload

KeysOf(b) == {b[i].key : i \in DOMAIN b}

\* ConflictingBatchRecordsError: one key twice with different market content.
Conflicting(b) ==
    \E i, j \in DOMAIN b :
        /\ b[i].key = b[j].key
        /\ ~SemanticallyEqual(b[i].rec, b[j].rec)

\* The first record of each key survives, its semantic duplicates are skipped.
FirstIndex(b, k) ==
    CHOOSE i \in DOMAIN b :
        /\ b[i].key = k
        /\ \A j \in DOMAIN b : b[j].key = k => i <= j

Collapsed(b) ==
    [k \in KeysOf(b) |-> b[FirstIndex(b, k)].rec]

Inserted(old, batch) == DOMAIN batch \ DOMAIN old

Updated(old, batch) ==
    {k \in DOMAIN batch \cap DOMAIN old : ~SemanticallyEqual(old[k], batch[k])}

\* A bug: known keys are never overwritten, updates are lost.
MergedInsertOnly(old, batch) ==
    [k \in DOMAIN old \cup DOMAIN batch |->
        IF k \in DOMAIN old THEN old[k] ELSE batch[k]]

\* The merge of _upsert: insert what is missing, replace what differs, keep the rest.
Merged(old, batch) ==
    [k \in DOMAIN old \cup DOMAIN batch |->
        IF k \in Inserted(old, batch) \cup Updated(old, batch)
        THEN batch[k]
        ELSE old[k]]

\* What _collapse_batch skips: every record but the first of its key.
Repeated(b) == {i \in DOMAIN b : FirstIndex(b, b[i].key) # i}

\* What the merge skips: records that bring nothing new to the dataset.
Known(old, batch) ==
    {k \in DOMAIN batch \cap DOMAIN old : SemanticallyEqual(old[k], batch[k])}

\* The counts of a StoreResult.
Counts(old, b) ==
    LET batch == Collapsed(b)
    IN  [inserted |-> Cardinality(Inserted(old, batch)),
         updated  |-> Cardinality(Updated(old, batch)),
         skipped  |-> Cardinality(Repeated(b)) + Cardinality(Known(old, batch)),
         total    |-> Cardinality(DOMAIN Merged(old, batch))]
=============================================================================
