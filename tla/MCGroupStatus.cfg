CONSTANTS
  Member = {m1, m2}
  NoMember = NoMember
  MaxTerm = 2
  MaxQueue = 1
  MaxDisturbances = 1
  MaxLag = 1
SPECIFICATION Spec
SYMMETRY Symmetry
CHECK_DEADLOCK FALSE
INVARIANTS
  IInv
  LeaderWasElected
  ListedOnce
  StatusCaughtUp
PROPERTIES
  ListingsKept
  GroupImplementsRegister
