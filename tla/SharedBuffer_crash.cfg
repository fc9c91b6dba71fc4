SPECIFICATION FairSpec
CONSTANTS
    w1 = w1
    w2 = w2
    Procs = {w1, w2}
    Producer = w1
    InitCalls <- MmsInitCalls
    Writers = {w1, w2}
    Items = 2
    MaxWrites = 3
    MaxCrashes = 1
    MaxRestarts = 1
INVARIANTS
    SetSemaphoreHasOwner
    WriterFindsItems
PROPERTIES
    SemaphoreIsCleared
CHECK_DEADLOCK FALSE
