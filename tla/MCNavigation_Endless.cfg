SPECIFICATION Spec
CONSTANTS
    open = open
    late = late
    noisy = noisy
    Videos = {open, late, noisy}
    NbFrames <- MCNbFrames
    FirstPts <- MCFirstPts
    Coded <- MCCoded
    Keys <- MCKeys
    Lost <- MCLost
    Untimed <- MCUntimed
    Delay <- MCDelay
    Loadings <- MCOne
    Stops <- MCStops
    Jumps <- MCJumps
    CacheSize = 3
    MaxCuts = 0
    MaxTotal = 30
    MaxLen = 4
PROPERTY EverySeekEnds
CHECK_DEADLOCK FALSE
