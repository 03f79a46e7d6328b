-------------------------- MODULE JsonlStoreProofs --------------------------
(***************************************************************************)
(* Proofs about JsonlStore, for every set of processes, keys, records and  *)
(* batches.  The inductive invariant is IInv: the process in the locked    *)
(* block owns the lock, so nobody else moves the files it has read.        *)
(***************************************************************************)
EXTENDS JsonlStore, SequenceTheorems, FunctionTheorems, FiniteSetTheorems,
        WellFoundedInduction, TLAPS

-----------------------------------------------------------------------------
(* Records, batches and datasets.                                          *)

\* Every non-empty set of naturals has a least element: the first record of a key is defined
\* through it.
LEMMA LeastNatural ==
    ASSUME NEW T, T \subseteq Nat, T # {}
    PROVE  \E m \in T : \A n \in T : m <= n
<1>1. PICK m \in T : \A n \in T : <<n, m>> \notin OpToRel(<, Nat)
  BY NatLessThanWellFounded, WFMin, Zenon
<1>2. \A n, k \in Nat : n < k => <<n, k>> \in OpToRel(<, Nat)
  BY Zenon DEF OpToRel
<1>3. \A n \in T : ~(n < m)  BY <1>1, <1>2, Zenon
<1>4. QED  BY <1>3

\* The first index of a key of a batch is an index of that key, and the least one.
LEMMA FirstIndexExists ==
    ASSUME NEW b \in Batches, NEW k \in KeysOf(b)
    PROVE  /\ FirstIndex(b, k) \in DOMAIN b
           /\ b[FirstIndex(b, k)].key = k
<1> DEFINE T == {i \in DOMAIN b : b[i].key = k}
<1>1. b \in Seq([key : Keys, rec : Record])
  BY BatchesAssumption
<1>2. T \subseteq Nat /\ T # {}
  BY <1>1 DEF KeysOf
<1>3. \E m \in T : \A n \in T : m <= n
  BY <1>2, LeastNatural
<1>4. QED  BY <1>3 DEF FirstIndex

\* Collapsing a batch yields at most one record per key.
LEMMA CollapsedType ==
    ASSUME NEW b \in Batches
    PROVE  Collapsed(b) \in Dataset /\ DOMAIN Collapsed(b) = KeysOf(b)
<1>1. b \in Seq([key : Keys, rec : Record])
  BY BatchesAssumption
<1>2. \A i \in DOMAIN b : b[i] \in [key : Keys, rec : Record]
  BY <1>1, ElementOfSeq, LenProperties
<1>2a. KeysOf(b) \in SUBSET Keys
  <2>1. ASSUME NEW i \in DOMAIN b PROVE b[i].key \in Keys  BY <1>2
  <2>2. QED  BY <2>1 DEF KeysOf
<1>3. \A k \in KeysOf(b) : b[FirstIndex(b, k)].rec \in Record
  BY <1>2, FirstIndexExists
<1>4. Collapsed(b) \in [KeysOf(b) -> Record]
  BY <1>3 DEF Collapsed
<1>5. QED  BY <1>2a, <1>4 DEF Dataset, Collapsed

LEMMA DatasetType ==
    ASSUME NEW d
    PROVE  d \in Dataset <=> DOMAIN d \in SUBSET Keys /\ d \in [DOMAIN d -> Record]
  BY DEF Dataset

LEMMA EmptyDatasetType == EmptyDataset \in Dataset /\ DOMAIN EmptyDataset = {}
<1>1. EmptyDataset \in [{} -> Record]  BY DEF EmptyDataset
<1>2. QED  BY <1>1 DEF Dataset

\* Merging keeps every key, takes the batch's record exactly for the inserted and the
\* updated ones, and changes nothing when there are none.
LEMMA MergedFacts ==
    ASSUME NEW old \in Dataset, NEW batch \in Dataset
    PROVE  /\ Merged(old, batch) \in Dataset
           /\ DOMAIN Merged(old, batch) = DOMAIN old \cup DOMAIN batch
           /\ \A k \in DOMAIN old :
                 Merged(old, batch)[k].payload = old[k].payload
                    => Merged(old, batch)[k] = old[k]
           /\ \A k \in DOMAIN batch :
                 SemanticallyEqual(Merged(old, batch)[k], batch[k])
           /\ Inserted(old, batch) \cup Updated(old, batch) = {}
                 => Merged(old, batch) = old
<1> DEFINE D == DOMAIN old \cup DOMAIN batch
<1>1. /\ DOMAIN old \in SUBSET Keys /\ old \in [DOMAIN old -> Record]
      /\ DOMAIN batch \in SUBSET Keys /\ batch \in [DOMAIN batch -> Record]
  BY DatasetType
<1>2. Merged(old, batch) \in [D -> Record]
  BY <1>1 DEF Merged, Inserted, Updated
<1>3. DOMAIN Merged(old, batch) = D  BY DEF Merged
<1>4. Merged(old, batch) \in Dataset
  BY <1>1, <1>2, <1>3, DatasetType
<1>5. ASSUME NEW k \in DOMAIN old, Merged(old, batch)[k].payload = old[k].payload
      PROVE  Merged(old, batch)[k] = old[k]
  BY <1>5 DEF Merged, Inserted, Updated, SemanticallyEqual
<1>6. ASSUME NEW k \in DOMAIN batch
      PROVE  SemanticallyEqual(Merged(old, batch)[k], batch[k])
  BY DEF Merged, Inserted, Updated, SemanticallyEqual
<1>7. ASSUME Inserted(old, batch) \cup Updated(old, batch) = {}
      PROVE  Merged(old, batch) = old
  <2>1. D = DOMAIN old  BY <1>7 DEF Inserted
  <2>2. \A k \in D : Merged(old, batch)[k] = old[k]
    BY <1>7, <2>1 DEF Merged
  <2>3. QED  BY <2>1, <2>2, <1>1, <1>2
<1>8. QED  BY <1>3, <1>4, <1>5, <1>6, <1>7

\* The records of a batch that _collapse_batch keeps are as many as its keys.
LEMMA KeysCounted ==
    ASSUME NEW b \in Batches
    PROVE  /\ IsFiniteSet(KeysOf(b)) /\ IsFiniteSet(Repeated(b))
           /\ Cardinality(KeysOf(b)) + Cardinality(Repeated(b)) = Len(b)
<1> DEFINE kept == DOMAIN b \ Repeated(b)
           first == [k \in KeysOf(b) |-> FirstIndex(b, k)]
<1>1. DOMAIN b = 1..Len(b) /\ Len(b) \in Nat  BY BatchesAssumption
<1>2. IsFiniteSet(DOMAIN b) /\ Cardinality(DOMAIN b) = Len(b)
  <2>1. \A n \in Nat : IsFiniteSet(1..n) /\ Cardinality(1..n) = n  BY FS_Interval
  <2>2. QED  BY <1>1, <2>1
<1>3. Repeated(b) \subseteq DOMAIN b  BY DEF Repeated
<1>4. DOMAIN b \cap Repeated(b) = Repeated(b)  BY <1>3
<1>5. /\ IsFiniteSet(kept) /\ IsFiniteSet(Repeated(b))
      /\ Cardinality(kept) = Len(b) - Cardinality(Repeated(b))
  <2>1. IsFiniteSet(Repeated(b))  BY <1>2, <1>3, FS_Subset
  <2>2. /\ IsFiniteSet(DOMAIN b \ Repeated(b))
        /\ Cardinality(DOMAIN b \ Repeated(b))
              = Cardinality(DOMAIN b) - Cardinality(DOMAIN b \cap Repeated(b))
    BY <1>2, FS_Difference
  <2>3. QED  BY <1>2, <1>4, <2>1, <2>2
<1>6. first \in Bijection(KeysOf(b), kept)
  <2>1. \A k \in KeysOf(b) : FirstIndex(b, k) \in DOMAIN b /\ b[FirstIndex(b, k)].key = k
    BY FirstIndexExists
  <2>2. first \in [KeysOf(b) -> kept]  BY <2>1 DEF Repeated
  <2>3. \A k, l \in KeysOf(b) : first[k] = first[l] => k = l  BY <2>1
  <2>4. \A i \in kept : \E k \in KeysOf(b) : first[k] = i  BY DEF Repeated, KeysOf
  <2>5. first \in Injection(KeysOf(b), kept)  BY <2>2, <2>3 DEF Injection, IsInjective
  <2>6. first \in Surjection(KeysOf(b), kept)  BY <2>2, <2>4 DEF Surjection
  <2>7. QED  BY <2>5, <2>6 DEF Bijection
<1>7. ExistsBijection(kept, KeysOf(b))
  BY <1>6, Fun_ExistsBijSymmetric, Zenon DEF ExistsBijection
<1>8. IsFiniteSet(KeysOf(b)) /\ Cardinality(KeysOf(b)) = Cardinality(kept)
  BY <1>5, <1>7, FS_Bijection
<1>9. Cardinality(Repeated(b)) \in Nat  BY <1>5, FS_CardinalityType
<1>10. QED  BY <1>1, <1>5, <1>8, <1>9

\* The counts of a call add up, and what it inserts is what the dataset grows by.
LEMMA CountsAddUp ==
    ASSUME NEW old \in Dataset, NEW b \in Batches
    PROVE  /\ Counts(old, b).inserted =
                  Cardinality(DOMAIN Merged(old, Collapsed(b))) - Cardinality(DOMAIN old)
           /\ Counts(old, b).inserted + Counts(old, b).updated + Counts(old, b).skipped = Len(b)
<1> DEFINE c == Collapsed(b)
           K == DOMAIN c
           D == DOMAIN old
<1>1. /\ IsFiniteSet(K) /\ Cardinality(K) + Cardinality(Repeated(b)) = Len(b)
      /\ Cardinality(Repeated(b)) \in Nat /\ Cardinality(K) \in Nat
  BY CollapsedType, KeysCounted, FS_CardinalityType
<1>2. IsFiniteSet(D) /\ Cardinality(D) \in Nat
  BY BatchesAssumption, DatasetType, FS_Subset, FS_CardinalityType
<1>3. DOMAIN Merged(old, c) = D \cup K  BY DEF Merged
<1>4. /\ Counts(old, b).inserted = Cardinality(K \ D)
      /\ Counts(old, b).updated = Cardinality(Updated(old, c))
      /\ Counts(old, b).skipped = Cardinality(Repeated(b)) + Cardinality(Known(old, c))
  BY DEF Counts, Inserted
<1> HIDE DEF c
<1>5. /\ IsFiniteSet(K \cap D) /\ Cardinality(K \cap D) \in Nat
  BY <1>1, FS_Subset, FS_CardinalityType
<1>6. Cardinality(K \ D) = Cardinality(K) - Cardinality(K \cap D)
  BY <1>1, FS_Difference
<1>7. Cardinality(D \cup K) = Cardinality(D) + Cardinality(K) - Cardinality(K \cap D)
  <2>1. D \cap K = K \cap D  OBVIOUS
  <2>2. QED  BY <1>1, <1>2, <2>1, FS_Union
<1>8. Cardinality(Updated(old, c)) + Cardinality(Known(old, c)) = Cardinality(K \cap D)
  <2>1. /\ Updated(old, c) \cup Known(old, c) = K \cap D
        /\ Updated(old, c) \cap Known(old, c) = {}
        /\ Updated(old, c) \in SUBSET (K \cap D) /\ Known(old, c) \in SUBSET (K \cap D)
    BY DEF Updated, Known
  <2>2. IsFiniteSet(Updated(old, c)) /\ IsFiniteSet(Known(old, c))
    BY <1>5, <2>1, FS_Subset
  <2>3. /\ Cardinality(Updated(old, c)) \in Nat /\ Cardinality(Known(old, c)) \in Nat
        /\ Cardinality(Updated(old, c) \cap Known(old, c)) = 0
    BY <2>1, <2>2, FS_CardinalityType, FS_EmptySet
  <2>4. Cardinality(Updated(old, c) \cup Known(old, c))
           = Cardinality(Updated(old, c)) + Cardinality(Known(old, c))
                - Cardinality(Updated(old, c) \cap Known(old, c))
    BY <2>2, FS_Union
  <2>5. Cardinality(Updated(old, c) \cup Known(old, c)) = Cardinality(K \cap D)
    BY <2>1, Zenon
  <2>6. QED  BY <2>3, <2>4, <2>5
<1>9. Cardinality(Updated(old, c)) \in Nat /\ Cardinality(Known(old, c)) \in Nat
  <2>1. /\ Updated(old, c) \in SUBSET K /\ Known(old, c) \in SUBSET K
    BY DEF Updated, Known
  <2>2. QED  BY <1>1, <2>1, FS_Subset, FS_CardinalityType
<1>10. Counts(old, b).inserted = Cardinality(DOMAIN Merged(old, c)) - Cardinality(D)
  BY <1>1, <1>2, <1>3, <1>4, <1>5, <1>6, <1>7
<1>11. Counts(old, b).inserted + Counts(old, b).updated + Counts(old, b).skipped = Len(b)
  BY <1>1, <1>4, <1>5, <1>6, <1>8, <1>9
<1>12. QED  BY <1>10, <1>11 DEF c

-----------------------------------------------------------------------------
(* Type correctness.                                                       *)

\* Every variable of the store stays in its type.
THEOREM TypeCorrect == Spec => []TypeOK
<1>1. Init => TypeOK
  BY BatchesAssumption, WritersAssumption, EmptyDatasetType DEF Init, TypeOK, Pcs, Outcomes
<1>2. TypeOK /\ [Next]_vars => TypeOK'
  <2> SUFFICES ASSUME TypeOK, [Next]_vars PROVE TypeOK'
    OBVIOUS
  <2> USE DEF TypeOK, Goto, Leave, Pcs, Outcomes, diskVars, localVars
  <2>1. ASSUME NEW w \in Writers, Call(w) PROVE TypeOK'
    BY <2>1 DEF Call
  <2>2. ASSUME NEW w \in Writers, Collapse(w) PROVE TypeOK'
    BY <2>2 DEF Collapse
  <2>3. ASSUME NEW w \in Writers, AcquireLock(w) PROVE TypeOK'
    BY <2>3 DEF AcquireLock
  <2>4. ASSUME NEW w \in Writers, ValidateMetadata(w) PROVE TypeOK'
    BY <2>4 DEF ValidateMetadata
  <2>5. ASSUME NEW w \in Writers, Read(w) PROVE TypeOK'
    BY <2>5 DEF Read
  <2>6. ASSUME NEW w \in Writers, StageMetadata(w) PROVE TypeOK'
    BY <2>6 DEF StageMetadata
  <2>7. ASSUME NEW w \in Writers, ReplaceMetadata(w) PROVE TypeOK'
    BY <2>7 DEF ReplaceMetadata
  <2>8. ASSUME NEW w \in Writers, SkipWrite(w) PROVE TypeOK'
    BY <2>8 DEF SkipWrite
  <2>9. ASSUME NEW w \in Writers, StageData(w) PROVE TypeOK'
    BY <2>9 DEF StageData
  <2>10. ASSUME NEW w \in Writers, ReplaceData(w) PROVE TypeOK'
    <3>1. Merged(records[w], Collapsed(incoming[w])) \in Dataset
      BY CollapsedType, MergedFacts
    <3>2. QED  BY <3>1, <2>10 DEF ReplaceData
  <2>11. ASSUME NEW w \in Writers, Release(w) PROVE TypeOK'
    BY <2>11 DEF Release
  <2>12. ASSUME NEW w \in Writers, Return(w) PROVE TypeOK'
    BY <2>12, BatchesAssumption, EmptyDatasetType DEF Return, ForgetLocals
  <2>13. ASSUME NEW w \in Writers, Raise(w) PROVE TypeOK'
    BY <2>13 DEF Raise
  <2>14. ASSUME NEW w \in Writers, Crash(w) PROVE TypeOK'
    BY <2>14, BatchesAssumption, EmptyDatasetType DEF Crash, ForgetLocals
  <2>15. CASE RemoveStaleLock
    BY <2>15 DEF RemoveStaleLock
  <2>16. CASE UNCHANGED vars
    BY <2>16 DEF vars
  <2>17. QED
    BY <2>1, <2>2, <2>3, <2>4, <2>5, <2>6, <2>7, <2>8, <2>9, <2>10, <2>11, <2>12, <2>13,
       <2>14, <2>15, <2>16 DEF Next, Step
<1>3. QED  BY <1>1, <1>2, PTL DEF Spec

-----------------------------------------------------------------------------
(* The lock-file protocol.                                                 *)

\* The sidecar is in place before a process reaches the data file.
SidecarReady ==
    \A w \in Writers :
        /\ pc[w] \in {"data", "replaceData"} => metadata = "expected"
        /\ pc[w] = "read" /\ hasMetadata[w] => metadata = "expected"

\* While the lock is still held, a successful call finds its merge on disk, and no call
\* past _collapse_batch has a conflicting batch.
CommittedOnDisk ==
    \A w \in Writers :
        /\ pc[w] = "release" /\ outcome[w] = "ok" =>
              dataset = Merged(records[w], Collapsed(incoming[w]))
        /\ pc[w] \in LockedPcs \cup {"lock"} => ~Conflicting(incoming[w])
        /\ pc[w] \in Pcs \ {"release", "done"} => outcome[w] = "none"

IInv == TypeOK /\ LockOwned /\ SnapshotCurrent /\ SidecarReady /\ CommittedOnDisk

LEMMA InductiveInit == Init => IInv
<1>1. Init => TypeOK
  BY BatchesAssumption, WritersAssumption, EmptyDatasetType DEF Init, TypeOK, Pcs, Outcomes
<1>2. QED
  BY <1>1 DEF Init, IInv, LockOwned, SnapshotCurrent, SidecarReady, CommittedOnDisk,
              LockedPcs, MergingPcs, Pcs

\* One step keeps the invariant: only the owner of the lock changes the files, and the
\* lock changes hands only when no process is in the locked block.
LEMMA InductiveStep == IInv /\ TypeOK' /\ [Next]_vars => IInv'
<1> SUFFICES ASSUME IInv, TypeOK', [Next]_vars
             PROVE  LockOwned' /\ SnapshotCurrent' /\ SidecarReady' /\ CommittedOnDisk'
  BY DEF IInv
<1> USE DEF IInv, LockOwned, SnapshotCurrent, SidecarReady, CommittedOnDisk, Goto, Leave,
            LockedPcs, MergingPcs, diskVars, localVars
<1>a. pc \in [Writers -> Pcs] /\ outcome \in [Writers -> Outcomes]
      /\ records \in [Writers -> Dataset] /\ incoming \in [Writers -> Batches]
      /\ hasMetadata \in [Writers -> BOOLEAN] /\ NoLock \notin Writers
  BY WritersAssumption DEF TypeOK
<1>1. ASSUME NEW w \in Writers, Call(w)
      PROVE  LockOwned' /\ SnapshotCurrent' /\ SidecarReady' /\ CommittedOnDisk'
  BY <1>1, <1>a DEF Call, Pcs
<1>2. ASSUME NEW w \in Writers, Collapse(w)
      PROVE  LockOwned' /\ SnapshotCurrent' /\ SidecarReady' /\ CommittedOnDisk'
  BY <1>2, <1>a DEF Collapse, Pcs
<1>3. ASSUME NEW w \in Writers, AcquireLock(w)
      PROVE  LockOwned' /\ SnapshotCurrent' /\ SidecarReady' /\ CommittedOnDisk'
  BY <1>3, <1>a DEF AcquireLock, Pcs
<1>4. ASSUME NEW w \in Writers, ValidateMetadata(w)
      PROVE  LockOwned' /\ SnapshotCurrent' /\ SidecarReady' /\ CommittedOnDisk'
  BY <1>4, <1>a DEF ValidateMetadata, Pcs
<1>5. ASSUME NEW w \in Writers, Read(w)
      PROVE  LockOwned' /\ SnapshotCurrent' /\ SidecarReady' /\ CommittedOnDisk'
  BY <1>5, <1>a DEF Read, Pcs
<1>6. ASSUME NEW w \in Writers, StageMetadata(w)
      PROVE  LockOwned' /\ SnapshotCurrent' /\ SidecarReady' /\ CommittedOnDisk'
  BY <1>6, <1>a DEF StageMetadata, Pcs
<1>7. ASSUME NEW w \in Writers, ReplaceMetadata(w)
      PROVE  LockOwned' /\ SnapshotCurrent' /\ SidecarReady' /\ CommittedOnDisk'
  BY <1>7, <1>a DEF ReplaceMetadata, Pcs
<1>8. ASSUME NEW w \in Writers, SkipWrite(w)
      PROVE  LockOwned' /\ SnapshotCurrent' /\ SidecarReady' /\ CommittedOnDisk'
  <2>1. Merged(records[w], Collapsed(incoming[w])) = records[w]
    BY <1>8, <1>a, CollapsedType, MergedFacts DEF SkipWrite, NeedsWrite
  <2>2. dataset = Merged(records[w], Collapsed(incoming[w]))
    BY <2>1, <1>8 DEF SkipWrite
  <2>3. QED  BY <2>2, <1>8, <1>a DEF SkipWrite, Pcs
<1>9. ASSUME NEW w \in Writers, StageData(w)
      PROVE  LockOwned' /\ SnapshotCurrent' /\ SidecarReady' /\ CommittedOnDisk'
  BY <1>9, <1>a DEF StageData, Pcs
<1>10. ASSUME NEW w \in Writers, ReplaceData(w)
      PROVE  LockOwned' /\ SnapshotCurrent' /\ SidecarReady' /\ CommittedOnDisk'
  BY <1>10, <1>a DEF ReplaceData, Pcs
<1>11. ASSUME NEW w \in Writers, Release(w)
      PROVE  LockOwned' /\ SnapshotCurrent' /\ SidecarReady' /\ CommittedOnDisk'
  BY <1>11, <1>a DEF Release, Pcs
<1>12. ASSUME NEW w \in Writers, Return(w)
      PROVE  LockOwned' /\ SnapshotCurrent' /\ SidecarReady' /\ CommittedOnDisk'
  BY <1>12, <1>a DEF Return, ForgetLocals, Pcs
<1>13. ASSUME NEW w \in Writers, Raise(w)
      PROVE  LockOwned' /\ SnapshotCurrent' /\ SidecarReady' /\ CommittedOnDisk'
  BY <1>13, <1>a DEF Raise, Pcs
<1>14. ASSUME NEW w \in Writers, Crash(w)
      PROVE  LockOwned' /\ SnapshotCurrent' /\ SidecarReady' /\ CommittedOnDisk'
  BY <1>14, <1>a DEF Crash, ForgetLocals, Pcs
<1>15. CASE RemoveStaleLock
  BY <1>15, <1>a DEF RemoveStaleLock, Pcs
<1>16. CASE UNCHANGED vars
  BY <1>16 DEF vars, Pcs
<1>17. QED
  BY <1>1, <1>2, <1>3, <1>4, <1>5, <1>6, <1>7, <1>8, <1>9, <1>10, <1>11, <1>12, <1>13, <1>14, <1>15, <1>16 DEF Next, Step

THEOREM Invariance == Spec => []IInv
<1>1. IInv /\ TypeOK' /\ [Next]_vars => IInv'  BY InductiveStep
<1>2. Init => IInv  BY InductiveInit
<1>3. QED  BY <1>1, <1>2, TypeCorrect, PTL DEF Spec

\* At most one process is ever in the locked block, whatever is killed and whatever
\* stale locks are removed.
THEOREM MutualExclusion == Spec => []LockOwned
<1>1. IInv => LockOwned  BY DEF IInv
<1>2. QED  BY <1>1, Invariance, PTL

\* The dataset a process is about to replace is the dataset it read: no update is lost.
THEOREM NoLostUpdate == Spec => []SnapshotCurrent
<1>1. IInv => SnapshotCurrent  BY DEF IInv
<1>2. QED  BY <1>1, Invariance, PTL

\* What a StoreResult says is on disk is on disk: a non-conflicting batch is represented
\* by its collapse, and the collapse has been merged into the file.
THEOREM ResultTruthful == Spec => []ResultDescribesFile
<1>1. IInv => ResultDescribesFile
  <2> SUFFICES ASSUME IInv, NEW w \in Writers, pc[w] = "release", outcome[w] = "ok"
               PROVE  /\ CountsTrue(Counts(records[w], incoming[w]), records[w], incoming[w])
                      /\ \A i \in DOMAIN incoming[w] :
                            /\ incoming[w][i].key \in DOMAIN dataset
                            /\ SemanticallyEqual(dataset[incoming[w][i].key], incoming[w][i].rec)
    BY DEF ResultDescribesFile
  <2>1. /\ dataset = Merged(records[w], Collapsed(incoming[w]))
        /\ ~Conflicting(incoming[w])
        /\ incoming[w] \in Batches /\ records[w] \in Dataset
    BY DEF IInv, TypeOK, CommittedOnDisk, LockedPcs
  <2>2. CountsTrue(Counts(records[w], incoming[w]), records[w], incoming[w])
    <3>1. Counts(records[w], incoming[w]).total = Cardinality(DOMAIN dataset)
      BY <2>1 DEF Counts
    <3>2. QED  BY <2>1, <3>1, CountsAddUp DEF CountsTrue
  <2>3. ASSUME NEW i \in DOMAIN incoming[w]
        PROVE  /\ incoming[w][i].key \in DOMAIN dataset
               /\ SemanticallyEqual(dataset[incoming[w][i].key], incoming[w][i].rec)
    <3> DEFINE b == incoming[w]
               k == b[i].key
               f == FirstIndex(b, k)
    <3>1. k \in KeysOf(b)  BY DEF KeysOf
    <3>2. f \in DOMAIN b /\ b[f].key = k  BY <3>1, <2>1, FirstIndexExists
    <3>3. SemanticallyEqual(b[f].rec, b[i].rec)  BY <3>2, <2>1 DEF Conflicting
    <3>4. Collapsed(b) \in Dataset /\ k \in DOMAIN Collapsed(b)
      BY <3>1, <2>1, CollapsedType
    <3>5. Collapsed(b)[k] = b[f].rec  BY <3>1 DEF Collapsed
    <3>6. k \in DOMAIN dataset /\ SemanticallyEqual(dataset[k], Collapsed(b)[k])
      <4> HIDE DEF k
      <4>1. DOMAIN dataset = DOMAIN records[w] \cup DOMAIN Collapsed(b)
        BY <3>4, <2>1, MergedFacts
      <4>2. SemanticallyEqual(dataset[k], Collapsed(b)[k])
        BY <3>4, <2>1, MergedFacts
      <4>3. QED  BY <4>1, <4>2, <3>4
    <3>7. QED  BY <3>3, <3>5, <3>6 DEF SemanticallyEqual
  <2>4. QED  BY <2>2, <2>3
<1>2. QED  BY <1>1, Invariance, PTL

\* No step writes data without the sidecar of the current schema.
THEOREM SchemaFirst == Spec => SchemaBeforeData
<1>1. IInv /\ [Next]_vars =>
         [<<fileState, dataset>>' # <<fileState, dataset>> => metadata = "expected"]_vars
  <2> SUFFICES ASSUME IInv, Next, <<fileState, dataset>>' # <<fileState, dataset>>
               PROVE  metadata = "expected"
    OBVIOUS
  <2>1. \E w \in Writers : ReplaceData(w)
    BY DEF Next, Step, Call, Collapse, AcquireLock, ValidateMetadata, Read, StageMetadata,
           ReplaceMetadata, SkipWrite, StageData, Release, Return, Raise, Crash,
           RemoveStaleLock, diskVars
  <2>2. QED  BY <2>1 DEF ReplaceData, Leave, Goto, IInv, SidecarReady
<1>2. QED  BY <1>1, Invariance, PTL DEF Spec, SchemaBeforeData

\* A stored record survives, and changes only together with its market content.
THEOREM RetrievedAtKept == Spec => RetrievedAtStable
<1> DEFINE Kept == \A k \in DOMAIN dataset :
                      /\ k \in DOMAIN dataset'
                      /\ dataset'[k].payload = dataset[k].payload => dataset'[k] = dataset[k]
<1>1. IInv /\ [Next]_vars => [Kept]_vars
  <2> SUFFICES ASSUME IInv, Next PROVE Kept
    OBVIOUS
  <2>1. CASE dataset' = dataset
    BY <2>1
  <2>2. ASSUME NEW w \in Writers, ReplaceData(w) PROVE Kept
    <3>1. dataset' = Merged(dataset, Collapsed(incoming[w]))
      BY <2>2 DEF ReplaceData, Leave, Goto, IInv, SnapshotCurrent, MergingPcs
    <3>2. dataset \in Dataset /\ Collapsed(incoming[w]) \in Dataset
      BY CollapsedType DEF IInv, TypeOK
    <3>3. QED  BY <3>1, <3>2, MergedFacts
  <2>3. dataset' = dataset \/ \E w \in Writers : ReplaceData(w)
    BY DEF Next, Step, Call, Collapse, AcquireLock, ValidateMetadata, Read, StageMetadata,
           ReplaceMetadata, SkipWrite, StageData, Release, Return, Raise, Crash,
           RemoveStaleLock, diskVars
  <2>4. QED  BY <2>1, <2>2, <2>3
<1>2. QED  BY <1>1, Invariance, PTL DEF Spec, RetrievedAtStable

-----------------------------------------------------------------------------
(* The protocol implements the atomic upsert.                              *)

\* The instance's copies of the data operators are the store's own.
LEMMA SameRecords ==
    /\ Atomic!Dataset = Dataset
    /\ \A b : Atomic!Conflicting(b) = Conflicting(b) /\ Atomic!Collapsed(b) = Collapsed(b)
    /\ \A old, batch : Atomic!Merged(old, batch) = Merged(old, batch)
<1>1. Atomic!Dataset = Dataset
  BY DEF Atomic!Dataset, Dataset, Atomic!Record, Record
<1>2. \A b : Atomic!Conflicting(b) = Conflicting(b)
  BY DEF Atomic!Conflicting, Conflicting, Atomic!SemanticallyEqual, SemanticallyEqual
<1>3. \A b, k : Atomic!FirstIndex(b, k) = FirstIndex(b, k)
  BY DEF Atomic!FirstIndex, FirstIndex
<1>4. \A b : Atomic!Collapsed(b) = Collapsed(b)
  BY <1>3 DEF Atomic!Collapsed, Collapsed, Atomic!KeysOf, KeysOf
<1>5. \A old, batch : /\ Atomic!Inserted(old, batch) = Inserted(old, batch)
                      /\ Atomic!Updated(old, batch) = Updated(old, batch)
  BY DEF Atomic!Inserted, Inserted, Atomic!Updated, Updated,
         Atomic!SemanticallyEqual, SemanticallyEqual
<1>6. \A old, batch : Atomic!Merged(old, batch) = Merged(old, batch)
  BY <1>5 DEF Atomic!Merged, Merged
<1>7. QED  BY <1>1, <1>2, <1>4, <1>6

LEMMA RefinesInit == Init => Atomic!AbsInit
<1> SUFFICES ASSUME Init PROVE Atomic!AbsInit
  OBVIOUS
<1>1. dataset \in Dataset
  BY WritersAssumption, EmptyDatasetType DEF Init
<1>2. \A w \in Writers : AbsPhase(w) = "idle"
  BY DEF Init, AbsPhase
<1>3. [w \in Writers |-> AbsPhase(w)] = [w \in Writers |-> "idle"]
  BY <1>2
<1>4. QED  BY <1>1, <1>3, SameRecords DEF Init, Atomic!AbsInit

LEMMA RefinesStep == IInv /\ [Next]_vars => [Atomic!AbsNext]_(Atomic!absVars)
<1> SUFFICES ASSUME IInv, [Next]_vars
             PROVE  Atomic!AbsNext \/ UNCHANGED Atomic!absVars
  BY DEF Atomic!absVars
<1> DEFINE phase == [v \in Writers |-> AbsPhase(v)]
<1> USE DEF Goto, Leave, diskVars, localVars
<1>a. /\ pc \in [Writers -> Pcs] /\ outcome \in [Writers -> Outcomes]
      /\ incoming \in [Writers -> Batches] /\ dataset \in Dataset
      /\ \A v \in Writers : pc[v] \in LockedPcs \cup {"lock"} => ~Conflicting(incoming[v])
      /\ \A v \in Writers : pc[v] \in Pcs \ {"release", "done"} => outcome[v] = "none"
      /\ \A v \in Writers : pc[v] \in MergingPcs => records[v] = dataset
  BY DEF IInv, TypeOK, CommittedOnDisk, SnapshotCurrent
<1>b. ASSUME NEW w \in Writers, NEW to,
             pc' = [pc EXCEPT ![w] = pc'[w]], outcome' = [outcome EXCEPT ![w] = outcome'[w]],
             AbsPhase(w)' = to
      PROVE  phase' = [phase EXCEPT ![w] = to]
  <2>1. \A v \in Writers \ {w} : AbsPhase(v)' = AbsPhase(v)
    BY <1>b, <1>a DEF AbsPhase
  <2>2. QED  BY <2>1, <1>b
<1>1. ASSUME NEW w \in Writers, Call(w) PROVE Atomic!AbsNext
  <2>1. AbsPhase(w) = "idle" /\ AbsPhase(w)' = "pending"
    BY <1>1, <1>a DEF Call, AbsPhase
  <2>2. phase' = [phase EXCEPT ![w] = "pending"]
    BY <1>1, <1>a, <1>b, <2>1 DEF Call
  <2>3. Atomic!Submit(w)
    BY <1>1, <2>1, <2>2 DEF Call, Atomic!Submit
  <2>4. QED  BY <2>3 DEF Atomic!AbsNext
<1>2. ASSUME NEW w \in Writers,
             UNCHANGED <<dataset, incoming>>,
             pc' = [pc EXCEPT ![w] = pc'[w]], outcome' = [outcome EXCEPT ![w] = outcome'[w]],
             AbsPhase(w) \in {"pending", "committed"}, AbsPhase(w)' = "failed"
      PROVE  Atomic!AbsNext
  <2>1. phase' = [phase EXCEPT ![w] = "failed"]  BY <1>2, <1>b
  <2>2. Atomic!Fail(w)  BY <2>1, <1>2 DEF Atomic!Fail
  <2>3. QED  BY <2>2 DEF Atomic!AbsNext
<1>3. ASSUME NEW w \in Writers,
             UNCHANGED <<dataset, incoming>>,
             pc' = [pc EXCEPT ![w] = pc'[w]], outcome' = [outcome EXCEPT ![w] = outcome'[w]],
             AbsPhase(w)' = AbsPhase(w)
      PROVE  UNCHANGED Atomic!absVars
  <2>1. phase' = [phase EXCEPT ![w] = AbsPhase(w)]  BY <1>3, <1>b
  <2>2. phase' = phase  BY <2>1
  <2>3. QED  BY <2>2, <1>3 DEF Atomic!absVars
<1>4. ASSUME NEW w \in Writers, pc[w] \in LockedPcs, pc[w] # "release",
             pc' = [pc EXCEPT ![w] = "release"], outcome' = [outcome EXCEPT ![w] = "ok"],
             UNCHANGED incoming,
             dataset' = Merged(dataset, Collapsed(incoming[w]))
      PROVE  Atomic!AbsNext
  <2>1. AbsPhase(w) = "pending" /\ AbsPhase(w)' = "committed"
    BY <1>4, <1>a DEF AbsPhase, LockedPcs
  <2>2. phase' = [phase EXCEPT ![w] = "committed"]
    BY <1>4, <1>a, <1>b, <2>1
  <2>3. Atomic!Commit(w)
    BY <1>4, <1>a, <2>1, <2>2, SameRecords DEF Atomic!Commit
  <2>4. QED  BY <2>3 DEF Atomic!AbsNext
<1>5. ASSUME NEW w \in Writers, pc[w] # "idle", ForgetLocals(w), UNCHANGED diskVars
      PROVE  Atomic!AbsNext
  <2>1. AbsPhase(w) # "idle" /\ AbsPhase(w)' = "idle"
    BY <1>5, <1>a DEF AbsPhase, ForgetLocals
  <2>2. phase' = [phase EXCEPT ![w] = "idle"]
    BY <1>5, <1>a, <1>b, <2>1 DEF ForgetLocals
  <2>3. Atomic!Forget(w)
    BY <1>5, <2>1, <2>2 DEF Atomic!Forget, ForgetLocals
  <2>4. QED  BY <2>3 DEF Atomic!AbsNext
<1>6. ASSUME NEW w \in Writers, Collapse(w)
      PROVE  Atomic!AbsNext \/ UNCHANGED Atomic!absVars
  <2>1. /\ pc' = [pc EXCEPT ![w] = pc'[w]] /\ outcome' = [outcome EXCEPT ![w] = outcome'[w]]
        /\ UNCHANGED <<dataset, incoming>>
    BY <1>6, <1>a DEF Collapse
  <2>2. AbsPhase(w) = "pending" /\ AbsPhase(w)' \in {"pending", "failed"}
    BY <1>6, <1>a DEF Collapse, AbsPhase
  <2>3. QED  BY <2>1, <2>2, <1>2, <1>3
<1>7. ASSUME NEW w \in Writers, AcquireLock(w)
      PROVE  Atomic!AbsNext \/ UNCHANGED Atomic!absVars
  <2>1. /\ pc' = [pc EXCEPT ![w] = pc'[w]] /\ outcome' = [outcome EXCEPT ![w] = outcome'[w]]
        /\ UNCHANGED <<dataset, incoming>>
    BY <1>7, <1>a DEF AcquireLock
  <2>2. AbsPhase(w) = "pending" /\ AbsPhase(w)' \in {"pending", "failed"}
    BY <1>7, <1>a DEF AcquireLock, AbsPhase
  <2>3. QED  BY <2>1, <2>2, <1>2, <1>3
<1>8. ASSUME NEW w \in Writers, ValidateMetadata(w)
      PROVE  Atomic!AbsNext \/ UNCHANGED Atomic!absVars
  <2>1. /\ pc' = [pc EXCEPT ![w] = pc'[w]] /\ outcome' = [outcome EXCEPT ![w] = outcome'[w]]
        /\ UNCHANGED <<dataset, incoming>>
    BY <1>8, <1>a DEF ValidateMetadata
  <2>2. AbsPhase(w) = "pending" /\ AbsPhase(w)' \in {"pending", "failed"}
    BY <1>8, <1>a DEF ValidateMetadata, AbsPhase
  <2>3. QED  BY <2>1, <2>2, <1>2, <1>3
<1>9. ASSUME NEW w \in Writers, Read(w)
      PROVE  Atomic!AbsNext \/ UNCHANGED Atomic!absVars
  <2>1. /\ pc' = [pc EXCEPT ![w] = pc'[w]] /\ outcome' = [outcome EXCEPT ![w] = outcome'[w]]
        /\ UNCHANGED <<dataset, incoming>>
    BY <1>9, <1>a DEF Read
  <2>2. AbsPhase(w) = "pending" /\ AbsPhase(w)' \in {"pending", "failed"}
    BY <1>9, <1>a DEF Read, AbsPhase
  <2>3. QED  BY <2>1, <2>2, <1>2, <1>3
<1>10. ASSUME NEW w \in Writers, StageMetadata(w) PROVE UNCHANGED Atomic!absVars
  <2>1. AbsPhase(w) = "pending" /\ AbsPhase(w)' = "pending"
    BY <1>10, <1>a DEF StageMetadata, AbsPhase
  <2>2. QED  BY <2>1, <1>10, <1>a, <1>3 DEF StageMetadata
<1>11. ASSUME NEW w \in Writers, ReplaceMetadata(w) PROVE UNCHANGED Atomic!absVars
  <2>1. AbsPhase(w) = "pending" /\ AbsPhase(w)' = "pending"
    BY <1>11, <1>a DEF ReplaceMetadata, AbsPhase
  <2>2. QED  BY <2>1, <1>11, <1>a, <1>3 DEF ReplaceMetadata
<1>12. ASSUME NEW w \in Writers, StageData(w) PROVE UNCHANGED Atomic!absVars
  <2>1. AbsPhase(w) = "pending" /\ AbsPhase(w)' = "pending"
    BY <1>12, <1>a DEF StageData, AbsPhase
  <2>2. QED  BY <2>1, <1>12, <1>a, <1>3 DEF StageData
<1>13. ASSUME NEW w \in Writers, SkipWrite(w) PROVE Atomic!AbsNext
  <2>1. /\ records[w] = dataset /\ records[w] \in Dataset
        /\ Inserted(records[w], Collapsed(incoming[w]))
              \cup Updated(records[w], Collapsed(incoming[w])) = {}
    BY <1>13, <1>a DEF SkipWrite, NeedsWrite, MergingPcs
  <2>1a. Merged(dataset, Collapsed(incoming[w])) = dataset
    BY <2>1, <1>a, CollapsedType, MergedFacts
  <2>2. QED  BY <2>1a, <1>13, <1>a, <1>4 DEF SkipWrite, LockedPcs
<1>14. ASSUME NEW w \in Writers, ReplaceData(w) PROVE Atomic!AbsNext
  BY <1>14, <1>a, <1>4 DEF ReplaceData, LockedPcs, MergingPcs
<1>15. ASSUME NEW w \in Writers, Release(w)
      PROVE  Atomic!AbsNext \/ UNCHANGED Atomic!absVars
  <2>1. CASE outcome[w] = "ok"
    <3>1. AbsPhase(w) = "committed" /\ AbsPhase(w)' = "acknowledged"
      BY <2>1, <1>15, <1>a DEF Release, AbsPhase
    <3>2. phase' = [phase EXCEPT ![w] = "acknowledged"]
      BY <3>1, <1>15, <1>a, <1>b DEF Release
    <3>3. Atomic!Acknowledge(w)
      BY <3>1, <3>2, <1>15 DEF Release, Atomic!Acknowledge
    <3>4. QED  BY <3>3 DEF Atomic!AbsNext
  <2>2. CASE outcome[w] # "ok"
    <3>1. AbsPhase(w)' = AbsPhase(w)
      BY <2>2, <1>15, <1>a DEF Release, AbsPhase
    <3>2. QED  BY <3>1, <1>15, <1>a, <1>3 DEF Release
  <2>3. QED  BY <2>1, <2>2
<1>16. ASSUME NEW w \in Writers, Raise(w)
      PROVE  Atomic!AbsNext \/ UNCHANGED Atomic!absVars
  <2>1. /\ pc' = [pc EXCEPT ![w] = pc'[w]] /\ outcome' = [outcome EXCEPT ![w] = outcome'[w]]
        /\ UNCHANGED <<dataset, incoming>>
    BY <1>16, <1>a DEF Raise
  <2>2. AbsPhase(w)' = "failed" /\ AbsPhase(w) \in {"pending", "committed", "failed"}
    BY <1>16, <1>a DEF Raise, AbsPhase, LockedPcs
  <2>3. QED  BY <2>1, <2>2, <1>2, <1>3
<1>17. ASSUME NEW w \in Writers, Return(w) \/ Crash(w) PROVE Atomic!AbsNext
  BY <1>17, <1>5 DEF Return, Crash
<1>18. CASE RemoveStaleLock \/ UNCHANGED vars
  <2>1. UNCHANGED <<pc, outcome, dataset, incoming>>
    BY <1>18 DEF RemoveStaleLock, vars
  <2>2. \A v \in Writers : AbsPhase(v)' = AbsPhase(v)
    BY <2>1 DEF AbsPhase
  <2>3. phase' = phase  BY <2>2
  <2>4. UNCHANGED Atomic!absVars  BY <2>1, <2>3 DEF Atomic!absVars
  <2>5. QED  BY <2>4
<1>19. QED
  BY <1>1, <1>6, <1>7, <1>8, <1>9, <1>10, <1>11, <1>12, <1>13, <1>14, <1>15, <1>16, <1>17, <1>18 DEF Next, Step

\* Processes that share one dataset through the lock-file protocol, with exceptions,
\* kills and stale locks, behave as if every upsert took effect at one instant.
THEOREM AtomicUpserts == Spec => ImplementsAtomicUpsert
<1>1. Init => Atomic!AbsInit  BY RefinesInit
<1>2. IInv /\ [Next]_vars => [Atomic!AbsNext]_(Atomic!absVars)  BY RefinesStep
<1>3. QED  BY <1>1, <1>2, Invariance, PTL DEF Spec, ImplementsAtomicUpsert, Atomic!AbsSpec
=============================================================================
