SPECIFICATION Spec
CONSTANTS
    open = open
    late = late
    noisy = noisy
    Videos = {open, late, noisy}
    NbFrames <- MCNbFrames
    FirstPts <- MCFirstPts
    Coded <- MCCoded
    Keys <- MCKeys
    Lost <- MCLost
    Untimed <- MCUntimed
    Delay <- MCDelay
    Loadings <- MCLoadings
    Stops <- MCStops
    Jumps <- MCJumps
    CacheSize = 3
    MaxCuts = 1
    MaxTotal = 30
    MaxLen = 4
INVARIANTS
    PictureShown
    NeighboursReached
    MarkReached
PROPERTIES
    
    SeekEnds
CHECK_DEADLOCK FALSE
