CONSTANTS
  NumGroups = 1
  m1 = m1
  p1 = p1
  Member = {m1}
  NoMember = NoMember
  Address = {p1}
  AddressOf <- MCAddressOf
  MaxChanges = 2
  MaxFailures = 0
  MaxLag = 1
SPECIFICATION Spec
CHECK_DEADLOCK FALSE
INVARIANTS
  ReadyFollows
