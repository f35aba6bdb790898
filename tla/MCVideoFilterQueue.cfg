SPECIFICATION FairSpec
CONSTANTS
    NumBuffers = 3
    NumItems = 5
    ClockDown = 2
INVARIANTS
    ImagesConserved
    QueueInOrder
    NoUseAfterDelete
    ThreadGoneFirst
PROPERTIES
    StreamRefined
    GetReturns
CHECK_DEADLOCK FALSE
