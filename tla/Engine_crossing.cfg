SPECIFICATION FairSpec
CONSTANTS
    smv = smv
    si = si
    goosePub = goosePub
    ipc = ipc
    gooseSub = gooseSub
    smvPub = smvPub
    mms = mms
    SAMPLE = SAMPLE
    TRIP = TRIP
    IPC = IPC
    GOOSE = GOOSE
    MMS = MMS
    REMOTE = REMOTE
    NoName = NoName
    Names <- ShippedNames
    Modules <- ShippedModules
    LoadOrder <- ShippedOrder
    Own <- ShippedOwn
    Triggers <- CrossingTriggers
    RunEnabled = {smv, goosePub, ipc, gooseSub, smvPub, mms}
    RunEmits <- ShippedRunEmits
    EventEmits <- ShippedEventEmits
    MayNotLoad = {smv, si, goosePub, ipc, gooseSub, smvPub, mms}
    MayFailInit = {smv, gooseSub}
    MaxEvents = 5
    MaxPublish = 2
INVARIANTS
    TypeOK
    DispatchMatchesConfig
    OnlyReadyModulesRun
    NoReentrantDispatch
    
PROPERTIES
    SigintStops
CHECK_DEADLOCK FALSE
