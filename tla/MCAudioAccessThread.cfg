SPECIFICATION FairSpec
CONSTANTS
    NumBuffers = 3
    NumItems = 5
    ClockDown = 2
INVARIANTS
    BuffersConserved
    CopyIsStable
    SonKilledEarlyOnlyAfterTimeout
PROPERTIES
    StreamRefined
    GetReturns
CHECK_DEADLOCK FALSE
