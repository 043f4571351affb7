------------------------- MODULE MCClusterRequests -------------------------
(* Instances of ClusterRequests for TLC: the constants are in the .cfg files. *)
EXTENDS ClusterRequests, TLC
=============================================================================
