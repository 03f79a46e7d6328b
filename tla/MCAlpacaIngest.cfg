\* Two runs while each bar is revised once; the new bar of the first page is invalid.
SPECIFICATION Spec
CONSTANTS
    r1 = r1
    r2 = r2
    k1 = k1
    k2 = k2
    NoTtl = NoTtl
    NoEntry = NoEntry
    Runs <- TwoRuns
    Keys <- MCKeys
    Requests <- MCRequests
    Policies <- MCPolicies
    Invalid <- MCInvalid
    MaxVersion = 1
    MaxClock = 2
SYMMETRY MCSymmetry
CHECK_DEADLOCK FALSE
INVARIANTS NeverRestamped
PROPERTY RefreshBringsCurrent
