----------------------------- MODULE Publication -----------------------------
(* What the chain of derived statuses promises to whoever reads the end of it: *)
(* groups change, and what the cluster and then the DataStore say of each of   *)
(* them is something the step before it has said, never older than what was    *)
(* said already. The versions of a group's status are numbered.                *)
EXTENDS Naturals

CONSTANT Group

VARIABLES source, status, config

Init ==
  /\ source = [g \in Group |-> 0]
  /\ status = [g \in Group |-> 0]
  /\ config = [g \in Group |-> 0]

\* A group's status changes.
Change ==
  /\ \A g \in Group : source'[g] \in Nat /\ source[g] <= source'[g]
  /\ UNCHANGED <<status, config>>

\* The cluster's status is brought closer to the groups'.
PublishStatus ==
  /\ \A g \in Group : status'[g] \in status[g]..source[g]
  /\ UNCHANGED <<source, config>>

\* The DataStore's configuration is brought closer to the cluster's status.
PublishConfig ==
  /\ \A g \in Group : config'[g] \in config[g]..status[g]
  /\ UNCHANGED <<source, status>>

Next == Change \/ PublishStatus \/ PublishConfig

Spec == Init /\ [][Next]_<<source, status, config>>
=============================================================================
