CONSTANTS
    w1 = w1
    w2 = w2
    a = a
    b = b
    p = p
    q = q
    noon = noon
    night = night
    NoLock = NoLock
    Writers <- MCWriters
    Keys <- MCKeys
    Payloads <- MCPayloads
    Stamps <- MCStamps
    Batches <- MCBatches
    InitialDatasets <- MCInitialDatasets
    MaxCrashes = 1
SPECIFICATION FairSpec
INVARIANTS
    LockOwned
    SnapshotCurrent
    ResultDescribesFile
PROPERTIES
    ImplementsAtomicUpsert
    LockEventuallyFree
