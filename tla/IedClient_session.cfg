\* One IED: one attribute reported, one polled; losses at any point.
CONSTANTS
  Hosts = {h1}
  Kids <- MCKids
  Class <- MCClass
  Members <- MCMembers
  DatSet <- MCDatSet
  TypeOf <- MCTypeOf
  NamePrefix <- Nothing
  Unknown = Unknown
  Structure = Structure
  NoTask = NoTask
  Registrable <- AttributesAB
  Readable <- ObjectC
  Writable <- AttributeB
  Controllable <- ObjectA
  Changing <- MCChanging
  MaxChanges = 1
  MaxLosses = 2
  MaxConnections = 3
  Cuts <- MCCuts
SPECIFICATION FairSpec
INVARIANTS TypeOK ConnectionsOwned  AcceptedIsWatched
PROPERTIES PolledAttributeReconnects WatchedValueArrives
CHECK_DEADLOCK FALSE
