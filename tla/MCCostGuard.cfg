CONSTANTS
    c1 = c1
    c2 = c2
    cheap = cheap
    dear = dear
    export = export
    NoCall = NoCall
    Clients <- MCClients
    Queries <- MCQueries
    Cost <- MCCost
    Calls <- MCCalls
    CycleOf <- MCCycleOf
    SingleQueryCap = 2
    DailyCap = 3
    EmergencyStop = 5
    MonthlyCap = 6
    LastDay = 2
    MaxAborts = 1
SPECIFICATION Spec
INVARIANTS
    SequentialCaps
    OvershootBounded
    SpendAccounted
    PaidBounded
SYMMETRY ClientSymmetry
