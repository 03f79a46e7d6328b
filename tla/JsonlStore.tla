----------------------------- MODULE JsonlStore -----------------------------
(***************************************************************************)
(* JsonlFinancialDataStore (data/storage/jsonl.py): processes that upsert  *)
(* batches into one dataset of the warehouse.  Each process runs _upsert   *)
(* step by step: collapse the batch, create the lock file, check the       *)
(* metadata sidecar, read and merge, write the sidecar when it is missing, *)
(* rewrite the data file through a temporary file, unlink the lock.  Any   *)
(* step may raise, and a process may be killed between any two steps,      *)
(* which leaves its lock and temporary files behind.                       *)
(***************************************************************************)
EXTENDS FinancialRecords

CONSTANTS
    Writers,        \* processes that write the dataset
    InitialDatasets,\* what the warehouse may already hold
    NoLock,         \* no lock file
    MaxCrashes      \* bound on the processes that are killed, each at most once

ASSUME WritersAssumption ==
    /\ NoLock \notin Writers
    /\ MaxCrashes \in Nat
    /\ InitialDatasets \subseteq Dataset

VARIABLES
    fileState,      \* the data file: missing, intact or malformed
    dataset,        \* its contents when intact
    metadata,       \* the .metadata.json sidecar
    lock,           \* process that created the .lock file, or NoLock
    tempFiles,      \* processes with a .tmp file on disk
    pc,             \* where each process is in _upsert
    incoming,       \* the batch of its call
    hasMetadata,    \* has_metadata
    records,        \* what _read returned to it
    outcome,        \* how its last call ended
    killed          \* processes that have been killed (history)

diskVars  == <<fileState, dataset, metadata, lock, tempFiles>>
localVars == <<pc, incoming, hasMetadata, records, outcome>>
vars == <<diskVars, localVars, killed>>

Pcs == {"idle", "collapse", "lock", "validate", "read", "stageMeta", "replaceMeta",
        "data", "replaceData", "release", "done"}

\* Inside the with self._writer_lock(...) block.
LockedPcs == {"validate", "read", "stageMeta", "replaceMeta", "data", "replaceData",
              "release"}

\* After _read: the process works on its copy of the dataset.
MergingPcs == {"stageMeta", "replaceMeta", "data", "replaceData"}

Outcomes == {"none", "ok", "conflict", "busy", "schema", "malformed", "raised"}

Init ==
    /\ fileState \in {"missing", "intact", "malformed"}
    /\ dataset \in (IF fileState = "intact" THEN InitialDatasets ELSE {EmptyDataset})
    /\ metadata \in {"missing", "expected", "other"}
    /\ lock = NoLock
    /\ tempFiles = {}
    /\ pc = [w \in Writers |-> "idle"]
    /\ incoming = [w \in Writers |-> <<>>]
    /\ hasMetadata = [w \in Writers |-> FALSE]
    /\ records = [w \in Writers |-> EmptyDataset]
    /\ outcome = [w \in Writers |-> "none"]
    /\ killed = {}

Goto(w, from, to) == pc[w] = from /\ pc' = [pc EXCEPT ![w] = to]

\* Leave the with block through its finally clause, with this outcome.
Leave(w, from, result) ==
    /\ Goto(w, from, "release")
    /\ outcome' = [outcome EXCEPT ![w] = result]

Call(w) ==
    /\ Goto(w, "idle", "collapse")
    /\ \E b \in Batches : incoming' = [incoming EXCEPT ![w] = b]
    /\ UNCHANGED <<diskVars, hasMetadata, records, outcome, killed>>

Collapse(w) ==
    /\ \/ /\ Conflicting(incoming[w])
          /\ Goto(w, "collapse", "done")
          /\ outcome' = [outcome EXCEPT ![w] = "conflict"]
       \/ /\ ~Conflicting(incoming[w])
          /\ Goto(w, "collapse", "lock")
          /\ UNCHANGED outcome
    /\ UNCHANGED <<diskVars, incoming, hasMetadata, records, killed>>

\* A bug: the finally clause also runs for the process that found the lock taken.
BusyUnlinks(w) ==
    /\ \/ /\ lock = NoLock
          /\ Goto(w, "lock", "validate")
          /\ lock' = w
          /\ UNCHANGED outcome
       \/ /\ lock # NoLock
          /\ Goto(w, "lock", "done")
          /\ outcome' = [outcome EXCEPT ![w] = "busy"]
          /\ lock' = NoLock
    /\ UNCHANGED <<fileState, dataset, metadata, tempFiles, incoming, hasMetadata, records, killed>>

\* A bug: O_CREAT without O_EXCL.
OpenWithoutExcl(w) ==
    /\ Goto(w, "lock", "validate")
    /\ lock' = w
    /\ UNCHANGED <<fileState, dataset, metadata, tempFiles, incoming, hasMetadata, records,
                   outcome, killed>>

\* os.open(O_CREAT | O_EXCL): create the lock file or raise.
AcquireLock(w) ==
    /\ \/ /\ lock = NoLock
          /\ Goto(w, "lock", "validate")
          /\ lock' = w
          /\ UNCHANGED outcome
       \/ /\ lock # NoLock
          /\ Goto(w, "lock", "done")
          /\ outcome' = [outcome EXCEPT ![w] = "busy"]
          /\ UNCHANGED lock
    /\ UNCHANGED <<fileState, dataset, metadata, tempFiles, incoming, hasMetadata, records, killed>>

ValidateMetadata(w) ==
    /\ \/ /\ metadata = "other"
          /\ Leave(w, "validate", "schema")
          /\ UNCHANGED hasMetadata
       \/ /\ metadata # "other"
          /\ Goto(w, "validate", "read")
          /\ hasMetadata' = [hasMetadata EXCEPT ![w] = (metadata = "expected")]
          /\ UNCHANGED outcome
    /\ UNCHANGED <<diskVars, incoming, records, killed>>

\* _read; the merge that follows is a computation on the process's own copy.
Read(w) ==
    /\ \/ /\ fileState = "malformed"
          /\ Leave(w, "read", "malformed")
          /\ UNCHANGED records
       \/ /\ fileState # "malformed"
          /\ Goto(w, "read", IF hasMetadata[w] THEN "data" ELSE "stageMeta")
          /\ records' = [records EXCEPT ![w] = dataset]
          /\ UNCHANGED outcome
    /\ UNCHANGED <<diskVars, incoming, hasMetadata, killed>>

\* mkstemp, write, fsync; the replacement is a step of its own.
StageMetadata(w) ==
    /\ Goto(w, "stageMeta", "replaceMeta")
    /\ tempFiles' = tempFiles \cup {w}
    /\ UNCHANGED <<fileState, dataset, metadata, lock, incoming, hasMetadata, records,
                   outcome, killed>>

ReplaceMetadata(w) ==
    /\ Goto(w, "replaceMeta", "data")
    /\ metadata' = "expected"
    /\ tempFiles' = tempFiles \ {w}
    /\ UNCHANGED <<fileState, dataset, lock, incoming, hasMetadata, records, outcome, killed>>

NeedsWrite(w) ==
    LET batch == Collapsed(incoming[w])
    IN  \/ Inserted(records[w], batch) \cup Updated(records[w], batch) # {}
        \/ fileState = "missing"

SkipWrite(w) ==
    /\ ~NeedsWrite(w)
    /\ Leave(w, "data", "ok")
    /\ UNCHANGED <<diskVars, incoming, hasMetadata, records, killed>>

StageData(w) ==
    /\ NeedsWrite(w)
    /\ Goto(w, "data", "replaceData")
    /\ tempFiles' = tempFiles \cup {w}
    /\ UNCHANGED <<fileState, dataset, metadata, lock, incoming, hasMetadata, records,
                   outcome, killed>>

ReplaceData(w) ==
    /\ Leave(w, "replaceData", "ok")
    /\ fileState' = "intact"
    /\ dataset' = Merged(records[w], Collapsed(incoming[w]))
    /\ tempFiles' = tempFiles \ {w}
    /\ UNCHANGED <<metadata, lock, incoming, hasMetadata, records, killed>>

\* An OSError or a KeyboardInterrupt anywhere inside the with block: the temporary
\* file is unlinked and the finally clause follows.
Raise(w) ==
    /\ pc[w] \in LockedPcs
    /\ outcome[w] \in {"none", "ok"}
    /\ pc' = [pc EXCEPT ![w] = "release"]
    /\ outcome' = [outcome EXCEPT ![w] = "raised"]
    /\ tempFiles' = tempFiles \ {w}
    /\ UNCHANGED <<fileState, dataset, metadata, lock, incoming, hasMetadata, records, killed>>

\* A bug: the lock is only released when the block succeeds.
ReleaseOnSuccess(w) ==
    /\ Goto(w, "release", "done")
    /\ lock' = IF outcome[w] = "ok" THEN NoLock ELSE lock
    /\ UNCHANGED <<fileState, dataset, metadata, tempFiles, incoming, hasMetadata, records,
                   outcome, killed>>

Release(w) ==
    /\ Goto(w, "release", "done")
    /\ lock' = NoLock
    /\ UNCHANGED <<fileState, dataset, metadata, tempFiles, incoming, hasMetadata, records,
                   outcome, killed>>

\* The locals of _upsert go out of scope.
ForgetLocals(w) ==
    /\ pc' = [pc EXCEPT ![w] = "idle"]
    /\ incoming' = [incoming EXCEPT ![w] = <<>>]
    /\ hasMetadata' = [hasMetadata EXCEPT ![w] = FALSE]
    /\ records' = [records EXCEPT ![w] = EmptyDataset]
    /\ outcome' = [outcome EXCEPT ![w] = "none"]

\* The caller receives the StoreResult or the exception.
Return(w) ==
    /\ pc[w] = "done"
    /\ ForgetLocals(w)
    /\ UNCHANGED <<diskVars, killed>>

\* kill -9 or power loss: nothing is cleaned up; the process is later started anew.
Crash(w) ==
    /\ w \notin killed /\ Cardinality(killed) < MaxCrashes
    /\ pc[w] # "idle"
    /\ ForgetLocals(w)
    /\ killed' = killed \cup {w}
    /\ UNCHANGED diskVars

\* "stale locks require manual removal": an operator deletes the lock of a process
\* that is no longer in the locked block.
RemoveStaleLock ==
    /\ lock # NoLock
    /\ pc[lock] \notin LockedPcs
    /\ lock' = NoLock
    /\ UNCHANGED <<fileState, dataset, metadata, tempFiles, localVars, killed>>

\* One step of _upsert in process w, other than being called, raising or being killed.
Step(w) ==
    \/ Collapse(w) \/ AcquireLock(w) \/ ValidateMetadata(w) \/ Read(w)
    \/ StageMetadata(w) \/ ReplaceMetadata(w) \/ SkipWrite(w) \/ StageData(w)
    \/ ReplaceData(w) \/ Release(w) \/ Return(w)

Next ==
    \/ \E w \in Writers : Call(w) \/ Step(w) \/ Raise(w) \/ Crash(w)
    \/ RemoveStaleLock

Spec == Init /\ [][Next]_vars

\* A process that is running keeps running; nobody promises an operator.
FairSpec == Spec /\ \A w \in Writers : WF_vars(Step(w))

-----------------------------------------------------------------------------

TypeOK ==
    /\ fileState \in {"missing", "intact", "malformed"}
    /\ dataset \in Dataset
    /\ metadata \in {"missing", "expected", "other"}
    /\ lock \in Writers \cup {NoLock}
    /\ tempFiles \subseteq Writers
    /\ pc \in [Writers -> Pcs]
    /\ incoming \in [Writers -> Batches]
    /\ hasMetadata \in [Writers -> BOOLEAN]
    /\ records \in [Writers -> Dataset]
    /\ outcome \in [Writers -> Outcomes]
    /\ killed \subseteq Writers

\* Every process inside the locked block owns the lock file, so at most one is there,
\* whatever locks crashes have left and operators have removed (_writer_lock).
LockOwned == \A w \in Writers : pc[w] \in LockedPcs => lock = w

\* No update is lost: while a process merges and writes, its copy of the dataset is
\* what the data file holds (the read and the replacement in _upsert happen under
\* one lock; a second writer in between would be overwritten).
SnapshotCurrent ==
    \A w \in Writers :
        pc[w] \in MergingPcs => records[w] = dataset /\ fileState # "malformed"

CountsTrue(counts, old, b) ==
    /\ counts.total = Cardinality(DOMAIN dataset)
    /\ counts.inserted = Cardinality(DOMAIN dataset) - Cardinality(DOMAIN old)
    /\ counts.inserted + counts.updated + counts.skipped = Len(b)

\* A StoreResult tells the truth about the file while the lock is still held: its
\* total_records is the size of the file, inserted is what the file has grown by, every
\* record of the call, repeated ones included, counts as inserted, updated or skipped and
\* as one of them, and its market content is in the file.
ResultDescribesFile ==
    \A w \in Writers :
        pc[w] = "release" /\ outcome[w] = "ok" =>
            /\ CountsTrue(Counts(records[w], incoming[w]), records[w], incoming[w])
            /\ \A i \in DOMAIN incoming[w] :
                  /\ incoming[w][i].key \in DOMAIN dataset
                  /\ SemanticallyEqual(dataset[incoming[w][i].key], incoming[w][i].rec)

\* Data is only ever written next to a sidecar of the current schema: a dataset of
\* another schema version is never touched and a crash never leaves data unlabelled.
SchemaBeforeData ==
    [][<<fileState, dataset>>' # <<fileState, dataset>> => metadata = "expected"]_vars

\* Repeating a download does not move retrieved_at: a stored record is replaced only
\* when its market content changes, and records never disappear.
RetrievedAtStable ==
    [][\A k \in DOMAIN dataset :
        /\ k \in DOMAIN dataset'
        /\ dataset'[k].payload = dataset[k].payload => dataset'[k] = dataset[k]]_vars

\* Unless a process is killed, the lock always comes free again: every path out of the
\* locked block, exceptions included, passes the finally clause of _writer_lock.
LockEventuallyFree == (lock # NoLock) ~> (lock = NoLock \/ killed # {})

\* The abstract view of a process: pending until its effect is on disk.
AbsPhase(w) ==
    CASE pc[w] = "idle" -> "idle"
      [] pc[w] = "done" -> IF outcome[w] = "ok" THEN "acknowledged" ELSE "failed"
      [] pc[w] = "release" -> IF outcome[w] = "ok" THEN "committed" ELSE "failed"
      [] OTHER -> "pending"

Atomic == INSTANCE AtomicUpsert WITH
    store <- dataset,
    phase <- [w \in Writers |-> AbsPhase(w)],
    request <- incoming

\* The lock-file protocol implements the atomic upsert of AtomicUpsert.
ImplementsAtomicUpsert == Atomic!AbsSpec
=============================================================================
