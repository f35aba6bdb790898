SPECIFICATION ProceedSpec
CONSTANTS
    v1 = v1
    v2 = v2
    Videos = {v1, v2}
    NbFrames <- MCNbFrames
    FirstPts <- MCNoGap
    KeyFrames <- MCKeys
    PtsModulus = 64
    MaxTotal = 9
    MaxLen = 6
    MaxUndoSteps = 2
    LeastUndoSteps = 2
    MaxEdits = 7
INVARIANTS
    MarkersInTimeline
PROPERTIES
    PasteKeepsSelection
CHECK_DEADLOCK FALSE
