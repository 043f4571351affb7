---------------------------- MODULE StorePipeline ----------------------------
(***************************************************************************)
(* How applications learn who leads the groups of a store: the status of    *)
(* each RaftGroup is copied by the cluster reconciler                        *)
(* (MultiRaftClusterReconciler.reconcileGroups, reconcileStatus) into the    *)
(* MultiRaftCluster's status, and from there by the store reconciler         *)
(* (MultiRaftStoreReconciler.Reconcile) into the DataStore's configuration   *)
(* and the ConsensusStore's state.                                           *)
(*                                                                          *)
(* Each reconciler has one worker; a run ends at its first write or error,   *)
(* and what is left waits for a run that something requests: a change of a   *)
(* watched resource, once the cache has it, an error, or the run itself.     *)
(* Kubernetes is external and as in MemberLifecycle: a cache that lags       *)
(* behind, writes refused unless computed from the latest version. A         *)
(* reconciler's read and the write it decides are one step where nobody else *)
(* writes that resource.                                                     *)
(***************************************************************************)
EXTENDS Naturals, Sequences, FiniteSets, Bags, SequencesExt

CONSTANTS
  NumGroups,   \* getNumGroups
  Member,      \* the members of a group
  NoMember,    \* a group without a leader
  Address,     \* pods' addresses; NoMember is the address of no leader
  AddressOf,   \* the address of each member's pod, which others may share
  MaxChanges,  \* bound: the changes of the groups' statuses
  MaxFailures, \* bound: edits of the resources by others, restarts, lost pods
  MaxLag       \* bound: the versions the cache is behind

ASSUME StorePipelineAssumption ==
  /\ NumGroups \in Nat \ {0}
  /\ IsFiniteSet(Member)
  /\ NoMember \notin Member \cup Address
  /\ AddressOf \in [Member -> Address]
  /\ MaxChanges \in Nat /\ MaxFailures \in Nat /\ MaxLag \in Nat

Group == 1..NumGroups
Leader == Member \cup {NoMember}

\* RaftGroupStatus, numbered; ready stands for the state.
GroupStatus == [n : Nat, leader : Leader, followers : SUBSET Member, ready : BOOLEAN]
NewGroup == [n |-> 0, leader |-> NoMember, followers |-> {}, ready |-> FALSE]

\* RaftPartitionStatus, and the PartitionConfig that getProtocolConfig makes of
\* it: addresses, those of the followers a bag, with the number of the group's
\* status it was read from.
Addresses == UNION {[S -> 1..Cardinality(Member)] : S \in SUBSET Address}
Partition == [n : Nat, leader : Address \cup {NoMember}, followers : Addresses]
NoPartitions == <<>>

\* MultiRaftCluster: its state ("absent": there is none; "": unset), its partitions.
ClusterStatus == [state : {"absent", "", "NotReady", "Ready"}, partitions : Seq(Partition)]
NoCluster == [state |-> "absent", partitions |-> NoPartitions]
NewCluster == [state |-> "", partitions |-> NoPartitions]

\* A resource a run has read, and whether it still is the latest version.
ClusterCopy == [status : ClusterStatus, latest : BOOLEAN]
NoClusterCopy == [status |-> NoCluster, latest |-> FALSE]
StoreState == {"", "NotReady", "Ready"}
StoreCopy == [state : StoreState, latest : BOOLEAN]
NoStoreCopy == [state |-> "", latest |-> FALSE]

VARIABLES
  \* the API server and the manager's cache of it: versions from the cached to
  \* the current one
  groups,     \* of each RaftGroup
  cluster,    \* of the MultiRaftCluster
  store,      \* of the ConsensusStore's state
  dataStore,  \* of the DataStore's configuration (NoPartitions: there is none)
  podMissing, \* whether a pod that members need is missing
  failures,
  \* the cluster reconciler
  clusterPending, clusterPc,
  clusterCopy, \* the cluster it was called for
  at,          \* the group reconcileGroups has come to
  allReady,    \* whether the groups before it are ready
  partitions,  \* what getPartitionStatuses has read
  \* the store reconciler
  storePending, storePc,
  storeCopy,   \* the store it was called for
  source,      \* the status of the cluster it has read
  \* history
  misjudged    \* whether it last took an out-of-date DataStore for an equal one

resourceVars == <<groups, cluster, store, dataStore>>
externalVars == <<podMissing, failures>>
clusterVars == <<clusterPending, clusterPc, clusterCopy, at, allReady, partitions>>
storeVars == <<storePending, storePc, storeCopy, source, misjudged>>
vars == <<resourceVars, externalVars, clusterVars, storeVars>>

Cached(versions) == Head(versions)
Current(versions) == Last(versions)
IsCurrent(versions) == Len(versions) = 1

\* A variant of the first group that counts from zero.
FromZero == 0

FirstGroup == 1

Init ==
  /\ groups = [g \in Group |-> <<NewGroup>>]
  /\ cluster = <<NoCluster>>
  /\ store = <<"">>
  /\ dataStore = <<NoPartitions>>
  /\ podMissing = FALSE
  /\ failures = 0
  /\ clusterPending = FALSE
  /\ clusterPc = "idle"
  /\ clusterCopy = NoClusterCopy
  /\ at = 1
  /\ allReady = TRUE
  /\ partitions = NoPartitions
  /\ storePending = TRUE
  /\ storePc = "idle"
  /\ storeCopy = NoStoreCopy
  /\ source = NoCluster
  /\ misjudged = FALSE

----------------------------------------------------------------------------
(* Kubernetes and the groups (external).                                    *)

Write(versions, v) ==
  /\ Len(versions) <= MaxLag
  /\ versions' = Append(versions, v)

WriteGroup(g, status) ==
  /\ Len(groups[g]) <= MaxLag
  /\ groups' = [groups EXCEPT ![g] = Append(@, status)]

\* The status changes, as far as the bound allows.
Changeable ==
  FoldFunction(LAMBDA versions, sum : Current(versions).n + sum, 0, groups) < MaxChanges

\* A member's watch goroutine records a new leader, or that there is none; the
\* former leader becomes a follower.
RecordLeader(g, l) ==
  /\ Current(cluster).state # "absent"
  /\ Changeable
  /\ l # Current(groups[g]).leader
  /\ WriteGroup(g, [Current(groups[g]) EXCEPT
       !.n = @ + 1, !.leader = l,
       !.followers = (@ \cup {Current(groups[g]).leader}) \ {l, NoMember}])
  /\ UNCHANGED <<cluster, store, dataStore, externalVars, clusterVars, storeVars>>

\* It records that a member is ready that has not been listed yet.
RecordReady(g, m) ==
  /\ Current(cluster).state # "absent"
  /\ Changeable
  /\ m \notin Current(groups[g]).followers \cup {Current(groups[g]).leader}
  /\ WriteGroup(g, [Current(groups[g]) EXCEPT !.n = @ + 1, !.followers = @ \cup {m}])
  /\ UNCHANGED <<cluster, store, dataStore, externalVars, clusterVars, storeVars>>

Fails == failures < MaxFailures /\ failures' = failures + 1

\* Someone else writes the resource: a run's copy of it is out of date.
EditCluster ==
  /\ Fails
  /\ Current(cluster).state # "absent"
  /\ Write(cluster, Current(cluster))
  /\ clusterCopy' = [clusterCopy EXCEPT !.latest = FALSE]
  /\ UNCHANGED <<groups, store, dataStore, podMissing, clusterPending, clusterPc, at,
                 allReady, partitions, storeVars>>

EditStore ==
  /\ Fails
  /\ Write(store, Current(store))
  /\ storeCopy' = [storeCopy EXCEPT !.latest = FALSE]
  /\ UNCHANGED <<groups, cluster, dataStore, podMissing, clusterVars, storePending,
                 storePc, source, misjudged>>

\* A pod goes missing, or is there again.
LosePod ==
  /\ Fails
  /\ ~podMissing
  /\ podMissing' = TRUE
  /\ UNCHANGED <<resourceVars, clusterVars, storeVars>>

CreatePod ==
  /\ podMissing
  /\ podMissing' = FALSE
  /\ UNCHANGED <<resourceVars, failures, clusterVars, storeVars>>

\* The controllers that watch a resource are requested once the cache has its new
\* version. The cluster controller watches groups and the cluster ...
SyncGroup(g) ==
  /\ Len(groups[g]) > 1
  /\ groups' = [groups EXCEPT ![g] = Tail(@)]
  /\ clusterPending' = TRUE
  /\ UNCHANGED <<cluster, store, dataStore, externalVars, clusterPc, clusterCopy, at,
                 allReady, partitions, storeVars>>

\* ... the store controller the store and the cluster it owns ...
SyncCluster ==
  /\ Len(cluster) > 1
  /\ cluster' = Tail(cluster)
  /\ clusterPending' = TRUE
  /\ storePending' = TRUE
  /\ UNCHANGED <<groups, store, dataStore, externalVars, clusterPc, clusterCopy, at,
                 allReady, partitions, storePc, storeCopy, source, misjudged>>

SyncStore ==
  /\ Len(store) > 1
  /\ store' = Tail(store)
  /\ storePending' = TRUE
  /\ UNCHANGED <<groups, cluster, dataStore, externalVars, clusterVars, storePc,
                 storeCopy, source, misjudged>>

\* ... and DataStores that a MultiRaftCluster owns: there are none, since the owner
\* of the DataStore is the ConsensusStore.
SyncDataStore ==
  /\ Len(dataStore) > 1
  /\ dataStore' = Tail(dataStore)
  /\ UNCHANGED <<groups, cluster, store, externalVars, clusterVars, storeVars>>

\* The controller's process starts anew: runs are lost, the caches are filled,
\* and every resource requests its controllers.
Restart ==
  /\ Fails
  /\ groups' = [g \in Group |-> <<Current(groups[g])>>]
  /\ cluster' = <<Current(cluster)>>
  /\ store' = <<Current(store)>>
  /\ dataStore' = <<Current(dataStore)>>
  /\ clusterPending' = (Current(cluster).state # "absent")
  /\ clusterPc' = "idle"
  /\ clusterCopy' = NoClusterCopy
  /\ at' = 1
  /\ allReady' = TRUE
  /\ partitions' = NoPartitions
  /\ storePending' = TRUE
  /\ storePc' = "idle"
  /\ storeCopy' = NoStoreCopy
  /\ source' = NoCluster
  /\ misjudged' = FALSE
  /\ UNCHANGED podMissing

----------------------------------------------------------------------------
(* MultiRaftClusterReconciler.Reconcile.                                    *)

\* The run returns. An error requests another one, after a pause.
EndClusterRun(error) ==
  /\ clusterPc' = "idle"
  /\ clusterPending' = (clusterPending \/ error)
  /\ clusterCopy' = NoClusterCopy
  /\ at' = 1
  /\ allReady' = TRUE
  /\ partitions' = NoPartitions

GetCluster ==
  /\ clusterPc = "idle"
  /\ clusterPending
  /\ clusterPending' = FALSE
  /\ IF Cached(cluster).state = "absent"
     THEN UNCHANGED <<clusterPc, clusterCopy, at>>
     ELSE /\ clusterPc' = "groups"
          /\ clusterCopy' = [status |-> Cached(cluster), latest |-> IsCurrent(cluster)]
          /\ at' = FirstGroup
  /\ UNCHANGED <<resourceVars, externalVars, allReady, partitions, storeVars>>

\* reconcileGroup finds the group's members and its state as they should be.
ReconcileGroup ==
  /\ clusterPc = "groups"
  /\ at \in Group
  /\ ~podMissing
  /\ allReady' = (allReady /\ Cached(groups[at]).ready)
  /\ at' = at + 1
  /\ UNCHANGED <<resourceVars, externalVars, clusterPending, clusterPc, clusterCopy,
                 partitions, storeVars>>

\* It fails because a member's pod is not there.
FailGroup ==
  /\ clusterPc = "groups"
  /\ at \in Group
  /\ podMissing
  /\ EndClusterRun(TRUE)
  /\ UNCHANGED <<resourceVars, externalVars, storeVars>>

\* It changes the group's state after its members', which are not modelled here.
UpdateGroupState ==
  /\ clusterPc = "groups"
  /\ at \in Group
  /\ ~podMissing
  /\ Changeable
  /\ IF IsCurrent(groups[at])
     THEN /\ WriteGroup(at, [Cached(groups[at]) EXCEPT !.n = @ + 1, !.ready = ~@])
          /\ EndClusterRun(FALSE)
     ELSE /\ UNCHANGED groups
          /\ EndClusterRun(TRUE)
  /\ UNCHANGED <<cluster, store, dataStore, externalVars, storeVars>>

\* A variant of the API server's check that takes every write.
AnyVersion(copy) == TRUE

\* Whether the API server takes a status computed from this copy.
Accepted(copy) == copy.latest

\* Status().Update of the cluster, at which a run ends.
WriteCluster(status) ==
  IF Accepted(clusterCopy)
  THEN Write(cluster, status) /\ EndClusterRun(FALSE)
  ELSE UNCHANGED cluster /\ EndClusterRun(TRUE)

\* The end of reconcileGroups: the cluster's state follows from the groups'.
UpdateState ==
  LET state == IF allReady THEN "Ready" ELSE "NotReady"
  IN /\ clusterPc = "groups"
     /\ at \notin Group
     /\ IF clusterCopy.status.state # state
        THEN WriteCluster([clusterCopy.status EXCEPT !.state = state])
        ELSE /\ clusterPc' = "status"
             /\ UNCHANGED <<cluster, clusterPending, clusterCopy, at, allReady, partitions>>
     /\ UNCHANGED <<groups, store, dataStore, externalVars, storeVars>>

\* A group's status in terms of addresses.
LeaderAddress(group) == IF group.leader = NoMember THEN NoMember ELSE AddressOf[group.leader]
FollowerAddresses(group) ==
  [a \in {AddressOf[m] : m \in group.followers} |->
     Cardinality({m \in group.followers : AddressOf[m] = a})]

\* getPartitionStatuses reads the groups one after the other.
GetPartitionStatus ==
  /\ clusterPc = "status"
  /\ Len(partitions) < NumGroups
  /\ partitions' =
       LET group == Cached(groups[Len(partitions) + 1])
       IN Append(partitions, [n |-> group.n, leader |-> LeaderAddress(group),
                              followers |-> FollowerAddresses(group)])
  /\ UNCHANGED <<resourceVars, externalVars, clusterPending, clusterPc, clusterCopy, at,
                 allReady, storeVars>>

\* isPartitionStatusEqual and isPartitionConfigEqual: as many followers, and
\* each of the first is one of the second.
PartitionEqual(p, q) ==
  /\ p.leader = q.leader
  /\ BagCardinality(p.followers) = BagCardinality(q.followers)
  /\ BagToSet(p.followers) \subseteq BagToSet(q.followers)

\* A variant of the comparison that looks at the leaders alone.
LeadersEqual(p, q) ==
  /\ Len(p) = Len(q)
  /\ \A i \in DOMAIN p : p[i].leader = q[i].leader

\* isPartitionStatusesEqual and isProtocolConfigEqual.
PartitionsEqual(p, q) ==
  /\ Len(p) = Len(q)
  /\ \A i \in DOMAIN p : PartitionEqual(p[i], q[i])

\* reconcileStatus.
UpdatePartitions ==
  /\ clusterPc = "status"
  /\ Len(partitions) = NumGroups
  /\ IF PartitionsEqual(clusterCopy.status.partitions, partitions)
     THEN EndClusterRun(FALSE) /\ UNCHANGED cluster
     ELSE WriteCluster([clusterCopy.status EXCEPT !.partitions = partitions])
  /\ UNCHANGED <<groups, store, dataStore, externalVars, storeVars>>

----------------------------------------------------------------------------
(* MultiRaftStoreReconciler.Reconcile.                                      *)

\* The run returns. An error requests another one, as does Requeue.
EndStoreRun(requeue) ==
  /\ storePc' = "idle"
  /\ storePending' = (storePending \/ requeue)
  /\ storeCopy' = NoStoreCopy
  /\ source' = NoCluster

GetStore ==
  /\ storePc = "idle"
  /\ storePending
  /\ storePending' = FALSE
  /\ storePc' = "cluster"
  /\ storeCopy' = [state |-> Cached(store), latest |-> IsCurrent(store)]
  /\ UNCHANGED <<resourceVars, externalVars, clusterVars, source, misjudged>>

\* Status().Update of the store, which requests another run whether it is taken
\* (Requeue) or not.
WriteStoreState(state) ==
  /\ EndStoreRun(TRUE)
  /\ IF Accepted(storeCopy) THEN Write(store, state) ELSE UNCHANGED store

\* A variant that reports a cluster NotReady only if it has been Ready.
NoLongerReady(state, status) == status.state = "NotReady" /\ state = "Ready"

\* Whether the store has to be reported NotReady, and Ready.
BecomesNotReady(state, status) == status.state = "NotReady" /\ state # "NotReady"
BecomesReady(state, status) == status.state = "Ready" /\ state # "Ready"

\* There is no cluster in the cache: it is created, unless it is there after all.
CreateCluster ==
  /\ storePc = "cluster"
  /\ Cached(cluster).state = "absent"
  /\ IF IsCurrent(cluster)
     THEN Write(cluster, NewCluster) /\ EndStoreRun(FALSE)
     ELSE UNCHANGED cluster /\ EndStoreRun(TRUE)
  /\ UNCHANGED <<groups, store, dataStore, externalVars, clusterVars, misjudged>>

ReadCluster ==
  /\ storePc = "cluster"
  /\ Cached(cluster).state # "absent"
  /\ \/ /\ Cached(cluster).partitions = NoPartitions
        /\ EndStoreRun(FALSE)
        /\ UNCHANGED store
     \/ /\ Cached(cluster).partitions # NoPartitions
        /\ BecomesNotReady(storeCopy.state, Cached(cluster))
        /\ WriteStoreState("NotReady")
     \/ /\ Cached(cluster).partitions # NoPartitions
        /\ ~BecomesNotReady(storeCopy.state, Cached(cluster))
        /\ storePc' = "dataStore"
        /\ source' = Cached(cluster)
        /\ UNCHANGED <<store, storePending, storeCopy>>
  /\ UNCHANGED <<groups, cluster, dataStore, externalVars, clusterVars, misjudged>>

\* The DataStore is created or its configuration updated, at which the run ends;
\* if its copy in the cache is out of date that is an error.
UpdateDataStore ==
  /\ storePc = "dataStore"
  /\ ~PartitionsEqual(Cached(dataStore), source.partitions)
  /\ IF IsCurrent(dataStore)
     THEN Write(dataStore, source.partitions) /\ EndStoreRun(FALSE)
     ELSE UNCHANGED dataStore /\ EndStoreRun(TRUE)
  /\ misjudged' = FALSE
  /\ UNCHANGED <<groups, cluster, store, externalVars, clusterVars>>

\* The configuration is as it should be: the store may be Ready.
UpdateReady ==
  /\ storePc = "dataStore"
  /\ PartitionsEqual(Cached(dataStore), source.partitions)
  /\ IF BecomesReady(storeCopy.state, source)
     THEN WriteStoreState("Ready")
     ELSE EndStoreRun(FALSE) /\ UNCHANGED store
  /\ misjudged' = ~IsCurrent(dataStore)
  /\ UNCHANGED <<groups, cluster, dataStore, externalVars, clusterVars>>

----------------------------------------------------------------------------
ClusterStep ==
  \/ GetCluster
  \/ ReconcileGroup
  \/ FailGroup
  \/ UpdateGroupState
  \/ UpdateState
  \/ GetPartitionStatus
  \/ UpdatePartitions

StoreStep ==
  \/ GetStore
  \/ CreateCluster
  \/ ReadCluster
  \/ UpdateDataStore
  \/ UpdateReady

Next ==
  \/ \E g \in Group, l \in Leader : RecordLeader(g, l)
  \/ \E g \in Group, m \in Member : RecordReady(g, m)
  \/ EditCluster
  \/ EditStore
  \/ LosePod
  \/ CreatePod
  \/ \E g \in Group : SyncGroup(g)
  \/ SyncCluster
  \/ SyncStore
  \/ SyncDataStore
  \/ Restart
  \/ ClusterStep
  \/ StoreStep

Spec == Init /\ [][Next]_vars

\* The work queues and the workers go on, and the cache catches up. No pod is
\* sure to come back.
Fairness ==
  /\ WF_vars(ClusterStep)
  /\ WF_vars(StoreStep)
  /\ \A g \in Group : WF_vars(SyncGroup(g))
  /\ WF_vars(SyncCluster)
  /\ WF_vars(SyncStore)
  /\ WF_vars(SyncDataStore)

FairSpec == Spec /\ Fairness

----------------------------------------------------------------------------
(* Properties.                                                             *)

TypeOK ==
  /\ groups \in [Group -> Seq(GroupStatus)] /\ \A g \in Group : groups[g] # <<>>
  /\ cluster \in Seq(ClusterStatus) /\ cluster # <<>>
  /\ store \in Seq(StoreState) /\ store # <<>>
  /\ dataStore \in Seq(Seq(Partition)) /\ dataStore # <<>>
  /\ podMissing \in BOOLEAN
  /\ failures \in Nat
  /\ clusterPending \in BOOLEAN
  /\ clusterPc \in {"idle", "groups", "status"}
  /\ clusterCopy \in ClusterCopy
  /\ at \in 1..(NumGroups + 1)
  /\ allReady \in BOOLEAN
  /\ partitions \in Seq(Partition) /\ Len(partitions) <= NumGroups
  /\ storePending \in BOOLEAN
  /\ storePc \in {"idle", "cluster", "dataStore"}
  /\ storeCopy \in StoreCopy
  /\ source \in ClusterStatus
  /\ misjudged \in BOOLEAN

\* What is said of each group, at either end of the store controller.
NumberOf(ps) == [g \in Group |-> IF g \in DOMAIN ps THEN ps[g].n ELSE 0]

\* The DataStore's configuration says of each group what the cluster's status has
\* said, and that what the group's status has said, and neither ever takes back a
\* change of leader, whatever copies the two controllers work from, which of
\* their writes conflict and wherever the process is restarted.
Chain == INSTANCE Publication WITH
  source <- [g \in Group |-> Current(groups[g]).n],
  status <- NumberOf(Current(cluster).partitions),
  config <- NumberOf(Current(dataStore))
PipelineImplementsPublication == Chain!Spec

\* Nothing is under way at the store controller, nor about to be.
StoreAtRest ==
  /\ ~storePending /\ storePc = "idle"
  /\ IsCurrent(cluster) /\ IsCurrent(store) /\ IsCurrent(dataStore)

Published == Current(cluster).partitions # NoPartitions

\* Each run of the store controller ends at its first write. Still it rests only
\* when a cluster that is NotReady has its store reported so.
NotReadyFollows ==
  StoreAtRest /\ Published /\ Current(cluster).state = "NotReady" => Current(store) = "NotReady"

\* "Watch for changes to secondary resource Store": the run that updates the
\* DataStore leaves the store's state to the next one, and the controller rests
\* only when a cluster that is Ready has its store reported so.
ReadyFollows ==
  StoreAtRest /\ Published /\ Current(cluster).state = "Ready" => Current(store) = "Ready"

\* Applications learn of the leaders and followers: the configuration catches up with
\* the groups, past conflicts, stale reads, restarts and comparisons by length and
\* membership, unless a pod stays away, for want of which the cluster's runs end
\* before they come to reconcileStatus, or the last run judged the configuration
\* by an old DataStore, whose later versions nobody watches.
ConfigCatchesUp ==
  \/ []<>(/\ Len(Current(dataStore)) = NumGroups
          /\ \A g \in Group :
               /\ Current(dataStore)[g].leader = LeaderAddress(Current(groups[g]))
               /\ Current(dataStore)[g].followers = FollowerAddresses(Current(groups[g])))
  \/ <>[]podMissing
  \/ <>[]misjudged

----------------------------------------------------------------------------
(* The inductive invariant.                                                *)

\* No version takes back what one before it says.
VersionsForward ==
  /\ \A g \in Group : \A i, j \in DOMAIN groups[g] : i <= j => groups[g][i].n <= groups[g][j].n
  /\ \A g \in Group : \A i, j \in DOMAIN cluster : i <= j =>
       NumberOf(cluster[i].partitions)[g] <= NumberOf(cluster[j].partitions)[g]

\* The cluster's status says what the cache has of the groups, or less, and what a run
\* has read of them lies in between. A status that can be written starts from the
\* current one.
ClusterFollows ==
  /\ \A i \in DOMAIN cluster : cluster[i].state = "absent" => cluster[i].partitions = NoPartitions
  /\ clusterPc # "idle" => clusterCopy.status.state # "absent"
  /\ clusterCopy.latest => clusterPc # "idle" /\ clusterCopy.status = Current(cluster)
  /\ \A g \in Group : NumberOf(Current(cluster).partitions)[g] <= Cached(groups[g]).n
  /\ \A g \in DOMAIN partitions :
       partitions[g].n \in NumberOf(Current(cluster).partitions)[g]..Cached(groups[g]).n

\* So it is with the configuration and the cluster.
StoreFollows ==
  \A g \in Group :
    /\ NumberOf(Current(dataStore))[g] <= NumberOf(Cached(cluster).partitions)[g]
    /\ storePc = "dataStore" =>
         NumberOf(source.partitions)[g]
           \in NumberOf(Current(dataStore))[g]..NumberOf(Cached(cluster).partitions)[g]

\* What a run of the store controller has found still holds, unless another run is
\* requested or will be by a version that the cache does not have yet.
StoreFindings ==
  ~storePending /\ IsCurrent(cluster) /\ IsCurrent(store) =>
    /\ storePc # "idle" => storeCopy.state = Current(store)
    /\ storePc = "dataStore" =>
         source = Current(cluster) /\ ~BecomesNotReady(storeCopy.state, source)
    /\ storePc = "idle" /\ Published /\ Current(cluster).state = "NotReady" =>
         Current(store) = "NotReady"

IInv ==
  /\ TypeOK
  /\ VersionsForward
  /\ ClusterFollows
  /\ StoreFollows
  /\ StoreFindings
=============================================================================
