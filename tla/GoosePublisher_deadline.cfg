SPECIFICATION Spec
CHECK_DEADLOCK FALSE
CONSTANTS
    Inputs = 1
    Items = 4
    MaxLag = 2
    Ttl = 8
    Fast = 2
    MaxBefore = 2
    MaxWrites = 4
    MaxTime = 8
INVARIANT
    ScheduledForHalfTtl
