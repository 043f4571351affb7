CONSTANTS
  Member = {m1}
  NoMember = NoMember
  Proposal = {p1, p2}
  NoProposal = NoProposal
  MaxTerm = 2
  MaxStarts = 2
  SnapshotAt = {1, 2}
  MaxPending = 2
SPECIFICATION Spec
SYMMETRY Symmetry
CHECK_DEADLOCK FALSE
INVARIANTS
  MisdeliveryNeedsStaleTag
  OkMeansAnswered
  StreamsReleased
