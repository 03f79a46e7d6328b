SPECIFICATION Spec
CONSTANTS
    Runs = {r1, r2, r3}
    None = None
    Kind <- MCKind
    Tags <- MCTags
    Untagged = 0
    Collections <- MCCollections
    DayOf <- MCDayOf
    Unknown = 2
    Answers <- MCAnswers
    MaxAttempts = 3
    MaxStops = 1
    MaxSplits = 1
SYMMETRY Symmetry
INVARIANTS
    StoredOnce
    LossBounded
    RowsSpanArticles
CHECK_DEADLOCK FALSE
