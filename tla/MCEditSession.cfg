SPECIFICATION SessionSpec
CONSTANTS
    v1 = v1
    v2 = v2
    Videos = {v1, v2}
    NbFrames <- MCNbFrames
    FirstPts <- MCFirstPts
    KeyFrames <- MCKeys
    PtsModulus = 64
    MaxTotal = 9
    MaxLen = 6
    MaxUndoSteps = 2
    LeastUndoSteps = 2
    MaxEdits = 7

    
PROPERTIES
    RefusalRestores
    
CHECK_DEADLOCK FALSE
