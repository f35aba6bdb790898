SPECIFICATION FairSpec
CONSTANTS
    NumBuffers = 2
    NumItems = 3
    ClockDown = 2
PROPERTIES
    DestructorCompletes
CHECK_DEADLOCK FALSE
