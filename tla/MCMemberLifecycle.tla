------------------------- MODULE MCMemberLifecycle -------------------------
(* Instances of MemberLifecycle for TLC: the constants are in the .cfg files. *)
EXTENDS MemberLifecycle, TLC
=============================================================================
