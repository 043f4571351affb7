--------------------------- MODULE MCEventFanout ---------------------------
(* An instance of EventFanout for TLC, without symmetry for the sake of its  *)
(* liveness properties.                                                      *)
EXTENDS EventFanout
=============================================================================
