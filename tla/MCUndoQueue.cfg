SPECIFICATION Spec
CONSTANTS
    States = {s1, s2, s3}
    MaxUndoSteps = 4
    LeastUndoSteps = 3
INVARIANTS
    PresentIsRecorded
    MenuIsRight
PROPERTIES
    HistoryRefined
