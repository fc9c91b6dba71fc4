SPECIFICATION Spec
CHECK_DEADLOCK FALSE
CONSTANTS
    Kind = "SMV"
    Entries = 4
    ByteRange = 8
    Words = 1
    MaxVersions = 4
    MaxWire = 1
    MaxDrops = 0
    Deployments = {TRUE, FALSE}
    SiItems = 4
    Vector = 2
    UintRange = 64
    Levels = {0, 3}
    Threshold = 2
    TripTime <- InverseCurve
    MaxTime = 4
INVARIANT
    TripsWhenDue
