CONSTANTS
    r1 = r1
    r2 = r2
    idA = idA
    idB = idB
    good = good
    unknown = unknown
    NoRun = NoRun
    NoDir = NoDir
    NoMetadata = NoMetadata
    Runs <- MCRuns
    RunIds <- MCRunIds
    Tasks <- MCTasks
    Registered <- MCRegistered
    Plans <- MCPlans
    MaxInterrupts = 1
SPECIFICATION Spec
INVARIANTS
    FailureReported
    SuccessIsComplete
    MetadataTruthful
    GroupsKeptApart
SYMMETRY MCSymmetry
CHECK_DEADLOCK FALSE
