SPECIFICATION Spec
CONSTANTS
    smv = smv
    si = si
    goosePub = goosePub
    ipc = ipc
    gooseSub = gooseSub
    smvPub = smvPub
    mms = mms
    SAMPLE = SAMPLE
    TRIP = TRIP
    IPC = IPC
    GOOSE = GOOSE
    MMS = MMS
    REMOTE = REMOTE
    NoName = NoName
    Names <- ShippedNames
    Modules <- ShippedModules
    LoadOrder <- ShippedOrder
    Own <- ShippedOwn
    Triggers <- ShippedTriggers
    RunEnabled = {smv, goosePub, ipc, gooseSub, smvPub, mms}
    RunEmits <- ShippedRunEmits
    EventEmits <- ShippedEventEmits
    MayNotLoad = {}
    MayFailInit = {si}
    MaxEvents = 100
    MaxPublish = 1
INVARIANTS
    FreedModuleNotCalled
CHECK_DEADLOCK FALSE
