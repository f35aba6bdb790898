SPECIFICATION Spec
CONSTANTS
    v1 = v1
    v2 = v2
    Videos = {v1, v2}
    NbFrames <- MCNbFrames
    FirstPts <- MCFirstPts
    MaxTotal = 7
    MaxLen = 4
INVARIANTS
    TimelineOK
PROPERTIES
    CutIsExact
    ClipboardIsExact
CHECK_DEADLOCK FALSE
