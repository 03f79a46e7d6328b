CONSTANTS
    a1 = a1
    a2 = a2
    LastDay = 9
    Sessions <- MCSessions
    Midnight <- MCMidnight
    Opening <- MCOpening
    Closing <- MCClosing
    Articles <- MCArticles
    Symbols <- MCSymbols
    Mappings <- MCMappings
    Inputs <- MorningInputs
    Horizon = 2
SPECIFICATION Spec
INVARIANTS
    NoLookahead
    NewsCountedOnce
    EmbargoSeparates
SYMMETRY ArticleSymmetry
