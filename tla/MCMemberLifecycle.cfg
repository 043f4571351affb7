CONSTANTS
  NumMembers = 2
  MaxFailures = 1
  MaxLag = 1
SPECIFICATION Spec
INVARIANTS
  IInv
  CurrentIsBootstrapped
  StatesFollow
  ReadinessRecorded
PROPERTIES
  ContainersInOrder
