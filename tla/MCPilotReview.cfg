SPECIFICATION ExportSpec
CONSTANTS
    NumArticles = 2
    Versions = {v1, v2}
    Original = v1
    Labels = {0, 1}
    None = None
    Studies <- MCStudies
    Exporters = {x1, x2}
    Mixed = Mixed
INVARIANTS
    AnnotatedAsBound
    DecisionsGrounded
    AdjudicatedAsShown
    ReadinessTruthful
    PublishedRecorded
CHECK_DEADLOCK FALSE
