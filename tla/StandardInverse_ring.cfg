SPECIFICATION FairSpec
CHECK_DEADLOCK FALSE
CONSTANTS
    Kind = "SMV"
    Entries = 4
    ByteRange = 8
    Words = 2
    MaxVersions = 6
    MaxWire = 1
    MaxDrops = 1
    Deployments = {TRUE, FALSE}
    SiItems = 4
    Vector = 2
    UintRange = 64
    Levels = {3}
    Threshold = 2
    TripTime <- InverseCurve
    MaxTime = 1
INVARIANTS
    PublishedIsNewest
    RingKeepsLatest
    WindowIsLastCycle
    OneSampleBehind
PROPERTY
    EventReturns
