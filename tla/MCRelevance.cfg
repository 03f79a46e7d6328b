SPECIFICATION PilotSpec
CHECK_DEADLOCK FALSE
CONSTANTS
    Absent = Absent
    Similarity <- MCSimilarity
    Rank <- MCRank
    Rules <- MCRules
    Given <- MCGiven
    Benchmarks <- MCBenchmarks
    Label <- MCLabel
    OtherLabel <- MCOtherLabel

INVARIANTS
    ClustersAreComponents
    SamplesSound
    PlanHonest
    StateBackedByFiles
    BenchmarkSound
