SPECIFICATION FairSpec
CHECK_DEADLOCK FALSE
CONSTANTS
    Inputs = 2
    Items = 3
    MaxLag = 1
    Ttl = 4
    Fast = 2
    MaxBefore = 1
    MaxWrites = 4
    MaxTime = 3
INVARIANTS
    StNumNamesState
    RetransmitsInTime
PROPERTIES
    
    LagIsBounded
    CatchesUp
