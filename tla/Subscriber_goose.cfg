SPECIFICATION FairSubSpec
CONSTANTS
    Kind = "GOOSE"
    Entries = 3
    ByteRange = 4
    Words = 2
    MaxVersions = 5
    MaxWire = 3
    MaxDrops = 2
INVARIANTS
    SubTypeOK
    StoredInOrder
PROPERTIES
    StateGetsThrough
    ImplementsChannel
