CONSTANTS
    FirstJobs <- MCFirstJobs
    MaxQueued = 3
    MaxRuns = 2
    MaxDeleted = 1
    Backlog = 1

SPECIFICATION Spec

INVARIANTS
    
    
    
    AllWereRun

PROPERTIES
    RunEnds

CHECK_DEADLOCK FALSE
