CONSTANTS
    CacheSize = 4
    Filters <- MCFilters
    NbPictures = 6
    Keys = {1, 4}
    Selections <- MCSelections
    MaxFails = 3
    MaxCounter = 42

SPECIFICATION Spec

INVARIANTS
    ImagesAreRight
    AssertionsHold

CHECK_DEADLOCK FALSE
