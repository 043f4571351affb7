CONSTANTS
  NumGroups = 2
  m1 = m1
  p1 = p1
  Member = {m1}
  NoMember = NoMember
  Address = {p1}
  AddressOf <- MCAddressOf
  MaxChanges = 2
  MaxFailures = 1
  MaxLag = 1
SPECIFICATION FairSpec
CHECK_DEADLOCK FALSE
INVARIANTS
  IInv
  NotReadyFollows
PROPERTIES
  PipelineImplementsPublication
  ConfigCatchesUp
