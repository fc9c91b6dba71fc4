SPECIFICATION YSpec
CONSTANTS
    w1 = w1
    r1 = r1
    Procs = {w1, r1}
    Producer = w1
    InitCalls <- SiInitCalls
    Writers = {w1}
    Items = 2
    MaxWrites = 2
    MaxCrashes = 0
    MaxRestarts = 0
INVARIANTS
    TypeOK
    ReadIsFresh
    
    YIndexCountsWrites
PROPERTIES
    WaitsForEver
CHECK_DEADLOCK FALSE
