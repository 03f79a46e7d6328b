CONSTANTS
    NULL = NULL
    LowerOf <- MCLower
    Collation <- MCCollation
    Rules <- MCRules
    Screens <- MCScreens
    Archive <- MCArchive
    Arriving <- MCArriving
    Requests <- MCRequests
    IndustryWords = {"chip"}
    Targets <- MCTargets
    EvidenceTopN = 1
    MaxRuns = 2
SPECIFICATION TaskSpec
INVARIANT WholeFamilyCorrected
CHECK_DEADLOCK FALSE
