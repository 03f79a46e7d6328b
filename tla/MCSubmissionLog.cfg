CONSTANTS
    tab1 = tab1
    tab2 = tab2
    yes = yes
    no = no
    NoToken = NoToken
    NoFingerprint = NoFingerprint
    Sessions <- MCSessions
    Labels <- MCLabels
    NumAssignments = 2
    Pages <- BothPages
    MaxIntents = 2
    MaxReloads = 1
SPECIFICATION Spec
INVARIANTS
    TokenStandsForSave
    RevisionsSound
    EventsBoundedByClicks
PROPERTY ImplementsEventLog
SYMMETRY ModelSymmetry
