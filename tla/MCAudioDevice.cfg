SPECIFICATION FairSpec
CONSTANTS
    Size = 8
    Ten = 2
    Preload = 2
    InitialFill = 1
    Chunk = 1
    IndexModulus = 1000
    CanTimeOut = TRUE
    MaxSessions = 2
    MaxSamples = 9
    ReadLimit = 9
INVARIANTS
    StreamInOrder
    NothingDropped
    ReleasedAfterThread
PROPERTIES
    SliceIsStable
    StopReturns
    Drains
CHECK_DEADLOCK FALSE
