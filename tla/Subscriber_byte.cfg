SPECIFICATION SubSpec
CHECK_DEADLOCK FALSE
CONSTANTS
    Kind = "SMV"
    Entries = 3
    ByteRange = 2
    Words = 2
    MaxVersions = 6
    MaxWire = 2
    MaxDrops = 1
INVARIANT
    PublishedIsNewest
