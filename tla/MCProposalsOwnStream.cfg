CONSTANTS
  Member = {m1, m2}
  NoMember = NoMember
  Proposal = {p1, p2}
  NoProposal = NoProposal
  MaxTerm = 2
  MaxStarts = 1
  SnapshotAt = {}
  MaxPending = 1
SPECIFICATION Spec
SYMMETRY Symmetry
CHECK_DEADLOCK FALSE
INVARIANTS
  OutputsToOwnStream
