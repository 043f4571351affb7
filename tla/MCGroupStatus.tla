--------------------------- MODULE MCGroupStatus ---------------------------
(* Instances of GroupStatus for TLC; members are interchangeable.            *)
EXTENDS GroupStatus, TLC

Symmetry == Permutations(Member)
=============================================================================
