CONSTANTS
  Nil = Nil
  Specs <- MCSpecs
  Pod = {0, 1, 2}
  Group = {1, 2}
  MemberId = {1, 2, 3}
  Carried <- CarriedRequest
  MaxEdits = 1
  MaxContainers = 2
  WideBits = 22
  NarrowBits = 18
  Numbers = {0, 1, 127, 128, 4194303}
  Addresses <- MCAddresses
  Commands <- MCCommands
  Timestamps <- MCTimestamps
SPECIFICATION FairProtocolSpec
CHECK_DEADLOCK FALSE
INVARIANTS
  IInv
  ReplicasApart
  RecordedRuns
  PeersFindEachOther
  UnderstoodAsSent
PROPERTIES
  BootstrapEnds
