--------------------------- MODULE ClusterRequests ---------------------------
(***************************************************************************)
(* What requests a cluster when a container has been restarted or a pod      *)
(* replaced. The controller drops the pod's own change; what it does notice  *)
(* is the StatefulSet, which is owned by the cluster: its status counts the  *)
(* pods whose readiness probe, a connection to the Raft port, succeeds. This  *)
(* is MemberLifecycle with the causes of its Request told apart.             *)
(*                                                                          *)
(* The kubelet and the StatefulSet's controller are external. The update of  *)
(* the StatefulSet's status and its arrival in the manager's cache are one    *)
(* step, at any time after the pods' readiness has changed; the cache of     *)
(* pods is another, and nothing orders the two.                              *)
(***************************************************************************)
EXTENDS MemberLifecycle

VARIABLES
  ready,        \* whether the pod's container passes its readiness probe
  readyReplicas \* the ready pods that the StatefulSet's status counts

requestVars == <<vars, ready, readyReplicas>>

NumReady == Cardinality({m \in Member : ready[m]})

RequestInit ==
  /\ Init
  /\ ready = [m \in Member |-> FALSE]
  /\ readyReplicas = 0

\* A new container has yet to pass the probe.
LoseContainer(m) ==
  /\ RestartContainer(m) \/ ReplacePod(m)
  /\ ready' = [ready EXCEPT ![m] = FALSE]
  /\ UNCHANGED readyReplicas

\* The container passes its probe. The first container of a pod does so when the
\* StatefulSet's controller, which has created the pod, has counted it as not ready;
\* a restart may be over before the controller sees it.
ProbeSucceeds(m) ==
  /\ ~ready[m]
  /\ pod[m].restarts = 0 => readyReplicas = NumReady
  /\ ready' = [ready EXCEPT ![m] = TRUE]
  /\ UNCHANGED <<vars, readyReplicas>>

\* The watch on StatefulSets requests the cluster that owns it.
SyncStatefulSet ==
  /\ readyReplicas # NumReady
  /\ readyReplicas' = NumReady
  /\ pending' = TRUE
  /\ UNCHANGED <<nodeVars, kubeVars, rpc, run, watchVars, repeated, ready>>

\* The manager's informers resync every ten hours, the default that its options keep.
Resync == Request /\ UNCHANGED <<ready, readyReplicas>>

\* The steps that are neither requests nor changes of a container.
OtherStep ==
  /\ \/ \E m \in Member :
          NodeReady(m) \/ BreakStream(m) \/ TouchMember(m) \/ WatchStep(m)
     \/ TouchGroup
     \/ SyncStep
     \/ ReconcileStep
  /\ UNCHANGED <<ready, readyReplicas>>

RequestNext ==
  \/ \E m \in Member : LoseContainer(m)
  \/ \E m \in Member : ProbeSucceeds(m)
  \/ SyncStatefulSet
  \/ Resync
  \/ OtherStep

RequestSpec == RequestInit /\ [][RequestNext]_requestVars

\* The cache catches up, the reconciler works off its queue, and the resync comes.
\* Neither a failure nor a node or a watch needs to do anything.
Fairness ==
  /\ \A m \in Member : WF_requestVars(SyncPod(m) /\ UNCHANGED <<ready, readyReplicas>>)
  /\ \A m \in Member : WF_requestVars(SyncMember(m) /\ UNCHANGED <<ready, readyReplicas>>)
  /\ WF_requestVars(SyncGroup /\ UNCHANGED <<ready, readyReplicas>>)
  /\ WF_requestVars(SyncCluster /\ UNCHANGED <<ready, readyReplicas>>)
  /\ WF_requestVars(ReconcileStep /\ UNCHANGED <<ready, readyReplicas>>)
  /\ WF_requestVars(Resync)

FairSpec == RequestSpec /\ Fairness

----------------------------------------------------------------------------
(* Properties.                                                             *)

\* The container that a member's pod runs comes to be on record, failures being bounded:
\* a run that is requested may read the pod from before the restart, end at another
\* change or in a conflict, or fail to reach the node, and others must follow.
RestartRecorded == \A m \in Member : ~IsCurrent(m) ~> IsCurrent(m)
=============================================================================
