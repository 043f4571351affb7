---------------------------- MODULE MCProposals ----------------------------
(* Instances of Proposals for TLC: calls are interchangeable, and so are the *)
(* members, whose identifiers the code only compares for equality.           *)
EXTENDS Proposals, TLC

Symmetry == Permutations(Member) \cup Permutations(Proposal)
=============================================================================
