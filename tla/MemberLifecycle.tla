--------------------------- MODULE MemberLifecycle ---------------------------
(***************************************************************************)
(* How the members of a Raft group are started and reported ready: the       *)
(* cluster reconciler (MultiRaftClusterReconciler.Reconcile), which creates   *)
(* the group and its members, bootstraps a member's node once per container  *)
(* and derives the group's and the cluster's state; the nodes, which         *)
(* announce that a member is ready once and again to each new Watch; and the *)
(* goroutines of PodReconciler.watch, which record it in the RaftMember.      *)
(*                                                                          *)
(* Kubernetes is external: pods are replaced and their containers restarted, *)
(* reads are served by a cache that lags behind, a write is refused unless it *)
(* was computed from the latest version, and a change of a resource that the *)
(* reconciler watches puts the cluster in its work queue once the cache has  *)
(* it. A read of the cache and the decision on it are one step, as is each   *)
(* call to the API server or to a node.                                      *)
(***************************************************************************)
EXTENDS Naturals, Sequences, FiniteSets

CONSTANTS
  NumMembers,  \* getNumMembers: the members of the group, each on its own pod
  MaxFailures, \* bound: restarts, replacements, broken streams, failed calls,
               \* and updates of the same resources by others
  MaxLag       \* bound: the versions the cache is behind

ASSUME MemberLifecycleAssumption ==
  /\ NumMembers \in Nat \ {0}
  /\ MaxFailures \in Nat /\ MaxLag \in Nat

Member == 1..NumMembers

\* A pod: its UID (0: there is none) and its container's RestartCount.
Pod == [uid : Nat, restarts : Nat]
NoPod == [uid |-> 0, restarts |-> 0]

\* RaftMemberStatus: podRef is the UID in PodRef (0: nil), version is Version (0:
\* nil; a container's version is its RestartCount + 1), state is State ("": unset).
MemberStatus == [exists : BOOLEAN, podRef : Nat, version : Nat, state : {"", "NotReady", "Ready"}]
NoMember == [exists |-> FALSE, podRef |-> 0, version |-> 0, state |-> ""]
NewMember == [NoMember EXCEPT !.exists = TRUE]

\* The state of the RaftGroup and of the MultiRaftCluster, which is there.
OwnerStatus == [exists : BOOLEAN, state : {"", "NotReady", "Ready"}]
NoOwner == [exists |-> FALSE, state |-> ""]
NewOwner == [NoOwner EXCEPT !.exists = TRUE]

VARIABLES
  \* the nodes
  pod,       \* each member's pod and the container in it
  node,      \* the member in the container's process: "stopped", "started", "ready"
  connected, \* whether the watch goroutine's stream is up
  stream,    \* the MemberReady events on it
  failures,
  \* the API server and the manager's cache of it: versions from the cached to the
  \* current one
  cachedPod, members, group, cluster,
  \* the reconciler
  pending,   \* whether the cluster is in the work queue
  rpc,       \* where Reconcile is
  run,       \* its local variables
  \* the watch goroutines
  watchPc, watchCopy,
  \* history
  repeated   \* the members whose process was told again to bootstrap them

nodeVars == <<pod, node, connected, stream, failures>>
kubeVars == <<cachedPod, members, group, cluster>>
reconcilerVars == <<pending, rpc, run>>
watchVars == <<watchPc, watchCopy>>
vars == <<nodeVars, kubeVars, reconcilerVars, watchVars, repeated>>

\* A copy that a client reads and works on, and whether it is still up to date.
Read(versions) == [status |-> Head(versions), latest |-> Len(versions) = 1]
Stale(c) == [c EXCEPT !.latest = FALSE]
NoMemberCopy == [status |-> NoMember, latest |-> FALSE]
NoOwnerCopy == [status |-> NoOwner, latest |-> FALSE]

Now(versions) == versions[Len(versions)]

\* Reconcile's local variables: the member at hand (0: none), what was read, and
\* whether a member before it is not ready.
NoRun == [at |-> 0, member |-> NoMemberCopy, pod |-> NoPod, group |-> NoOwnerCopy,
          cluster |-> NoOwnerCopy, notReady |-> FALSE]

Init ==
  /\ pod = [m \in Member |-> [uid |-> 1, restarts |-> 0]]
  /\ node = [m \in Member |-> "stopped"]
  /\ connected = [m \in Member |-> FALSE]
  /\ stream = [m \in Member |-> 0]
  /\ failures = 0
  /\ cachedPod = [m \in Member |-> NoPod]
  /\ members = [m \in Member |-> <<NoMember>>]
  /\ group = <<NoOwner>>
  /\ cluster = <<NewOwner>>
  /\ pending = TRUE
  /\ rpc = "idle"
  /\ run = NoRun
  /\ watchPc = [m \in Member |-> "receiving"]
  /\ watchCopy = [m \in Member |-> NoMemberCopy]
  /\ repeated = {}

----------------------------------------------------------------------------
(* The nodes. Each failure is one of a bounded number.                     *)

Failure ==
  /\ failures < MaxFailures
  /\ failures' = failures + 1

\* The process is gone, with the member it ran and the events on their way.
ProcessLost(m) ==
  /\ repeated' = repeated \ {m}
  /\ node' = [node EXCEPT ![m] = "stopped"]
  /\ connected' = [connected EXCEPT ![m] = FALSE]
  /\ stream' = [stream EXCEPT ![m] = 0]

RestartContainer(m) ==
  /\ Failure
  /\ pod' = [pod EXCEPT ![m].restarts = @ + 1]
  /\ ProcessLost(m)
  /\ UNCHANGED <<kubeVars, reconcilerVars, watchVars>>

ReplacePod(m) ==
  /\ Failure
  /\ pod' = [pod EXCEPT ![m] = [uid |-> @.uid + 1, restarts |-> 0]]
  /\ ProcessLost(m)
  /\ UNCHANGED <<kubeVars, reconcilerVars, watchVars>>

\* eventListener.NodeReady. An event that no Watch is there for is not lost: the
\* Partition remembers it.
NodeReady(m) ==
  /\ node[m] = "started"
  /\ node' = [node EXCEPT ![m] = "ready"]
  /\ stream' = IF connected[m] THEN [stream EXCEPT ![m] = @ + 1] ELSE stream
  /\ UNCHANGED <<pod, connected, failures, kubeVars, reconcilerVars, watchVars, repeated>>

\* A variant of Watch that replays nothing.
NothingReplayed(m) == 0

\* The MemberReady events that Protocol.Watch replays.
Replayed(m) == IF node[m] = "ready" THEN 1 ELSE 0

Connect(m) ==
  /\ ~connected[m]
  /\ connected' = [connected EXCEPT ![m] = TRUE]
  /\ stream' = [stream EXCEPT ![m] = Replayed(m)]
  /\ UNCHANGED <<pod, node, failures, kubeVars, reconcilerVars, watchVars, repeated>>

BreakStream(m) ==
  /\ connected[m]
  /\ Failure
  /\ connected' = [connected EXCEPT ![m] = FALSE]
  /\ stream' = [stream EXCEPT ![m] = 0]
  /\ UNCHANGED <<pod, node, kubeVars, reconcilerVars, watchVars, repeated>>

----------------------------------------------------------------------------
(* Kubernetes.                                                             *)

\* The controller's watch on pods maps them by an annotation that the StatefulSet's
\* pods do not carry: a pod's own change requests nothing. Its readiness does, by way
\* of the StatefulSet's status: that is one of the causes of Request.
SyncPod(m) ==
  /\ cachedPod[m] # pod[m]
  /\ cachedPod' = [cachedPod EXCEPT ![m] = pod[m]]
  /\ UNCHANGED <<nodeVars, members, group, cluster, reconcilerVars, watchVars, repeated>>

\* The watches on RaftMembers, RaftGroups and the cluster itself request it.
SyncMember(m) ==
  /\ Len(members[m]) > 1
  /\ members' = [members EXCEPT ![m] = Tail(@)]
  /\ pending' = TRUE
  /\ UNCHANGED <<nodeVars, cachedPod, group, cluster, rpc, run, watchVars, repeated>>

SyncGroup ==
  /\ Len(group) > 1
  /\ group' = Tail(group)
  /\ pending' = TRUE
  /\ UNCHANGED <<nodeVars, cachedPod, members, cluster, rpc, run, watchVars, repeated>>

SyncCluster ==
  /\ Len(cluster) > 1
  /\ cluster' = Tail(cluster)
  /\ pending' = TRUE
  /\ UNCHANGED <<nodeVars, cachedPod, members, group, rpc, run, watchVars, repeated>>

\* A request that no write modelled here causes, at any time: by the informers'
\* periodic resync, or by the watch on the cluster's StatefulSet, whose status counts
\* the pods that are ready (ClusterRequests says when).
Request ==
  /\ ~pending
  /\ pending' = TRUE
  /\ UNCHANGED <<nodeVars, kubeVars, rpc, run, watchVars, repeated>>

\* A variant of the API server's check that takes every write.
AnyVersion(c) == TRUE

\* Whether the API server takes an update computed from this copy.
Accepted(c) == c.latest

WriteMember(m, status) ==
  /\ Len(members[m]) <= MaxLag
  /\ members' = [members EXCEPT ![m] = Append(@, status)]

WriteGroup(status) ==
  /\ Len(group) <= MaxLag
  /\ group' = Append(group, status)

\* A watch goroutine records another event (a leader, a snapshot), which leaves
\* the fields modelled here alone.
TouchMember(m) ==
  /\ Failure
  /\ Now(members[m]).exists
  /\ WriteMember(m, Now(members[m]))
  /\ watchCopy' = [watchCopy EXCEPT ![m] = Stale(@)]
  /\ run' = IF run.at = m THEN [run EXCEPT !.member = Stale(@)] ELSE run
  /\ UNCHANGED <<pod, node, connected, stream, cachedPod, group, cluster, pending, rpc, watchPc, repeated>>

TouchGroup ==
  /\ Failure
  /\ Now(group).exists
  /\ WriteGroup(Now(group))
  /\ run' = [run EXCEPT !.group = Stale(@)]
  /\ UNCHANGED <<pod, node, connected, stream, cachedPod, members, cluster, pending, rpc, watchVars, repeated>>

----------------------------------------------------------------------------
(* MultiRaftClusterReconciler.Reconcile. It ends after its first change, whose *)
(* own event requests it again; an error puts it back in the work queue.      *)

Goto(step, locals) == rpc' = step /\ run' = locals /\ UNCHANGED pending
Return == rpc' = "idle" /\ run' = NoRun /\ UNCHANGED pending
ReturnError == rpc' = "idle" /\ run' = NoRun /\ pending' = TRUE

StartReconcile ==
  /\ rpc = "idle"
  /\ pending
  /\ pending' = FALSE
  /\ rpc' = "group"
  /\ run' = [NoRun EXCEPT !.cluster = Read(cluster)]
  /\ UNCHANGED <<nodeVars, kubeVars, watchVars, repeated>>

\* reconcileGroup: the group is read or created.
ReconcileGroup ==
  /\ rpc = "group"
  /\ \/ /\ Head(group).exists
        /\ Goto("member", [run EXCEPT !.group = Read(group), !.at = 1])
        /\ UNCHANGED group
     \/ /\ ~Head(group).exists /\ ~Now(group).exists
        /\ WriteGroup(NewOwner)
        /\ Return
     \/ /\ ~Head(group).exists /\ Now(group).exists
        /\ ReturnError
        /\ UNCHANGED group
  /\ UNCHANGED <<nodeVars, cachedPod, members, cluster, watchVars, repeated>>

\* A variant that takes the container's RestartCount for its version.
RestartsAsVersion(status, p) == status.version = 0 \/ p.restarts > status.version

\* Whether the container is one that the member's status does not know of.
IsNewContainer(status, p) == status.version = 0 \/ p.restarts + 1 > status.version

\* What reconcileMember does next about the member it has read.
Decision(status, p) ==
  CASE status.podRef # p.uid -> "podRef"
    [] status.podRef = p.uid /\ IsNewContainer(status, p) ->
         IF status.state # "NotReady" THEN "notReady" ELSE "bootstrap"
    [] OTHER -> "upToDate"

\* reconcileMember: the member and its pod are read, or the member is created.
ReconcileMember ==
  LET m == run.at
      c == Read(members[m])
      p == cachedPod[m]
  IN /\ rpc = "member"
     /\ \/ /\ c.status.exists /\ p # NoPod
           /\ Goto(Decision(c.status, p), [run EXCEPT !.member = c, !.pod = p])
           /\ UNCHANGED members
        \/ /\ c.status.exists /\ p = NoPod
           /\ ReturnError
           /\ UNCHANGED members
        \/ /\ ~c.status.exists /\ ~Now(members[m]).exists
           /\ WriteMember(m, NewMember)
           /\ Return
        \/ /\ ~c.status.exists /\ Now(members[m]).exists
           /\ ReturnError
           /\ UNCHANGED members
     /\ UNCHANGED <<nodeVars, cachedPod, group, cluster, watchVars, repeated>>

\* Status().Update of the member, then return: with the conflict, if it is one.
UpdateMember(status) ==
  /\ \/ /\ Accepted(run.member)
        /\ WriteMember(run.at, status)
        /\ watchCopy' = [watchCopy EXCEPT ![run.at] = Stale(@)]
        /\ Return
     \/ /\ ~Accepted(run.member)
        /\ ReturnError
        /\ UNCHANGED <<members, watchCopy>>
  /\ UNCHANGED <<nodeVars, cachedPod, group, cluster, watchPc, repeated>>

\* The status of a member that has moved to pod p; a variant keeps the version.
VersionKept(status, p) == [status EXCEPT !.podRef = p.uid]
MovedTo(status, p) == [status EXCEPT !.podRef = p.uid, !.version = 0]

SetPodRef == rpc = "podRef" /\ UpdateMember(MovedTo(run.member.status, run.pod))

SetNotReady ==
  rpc = "notReady" /\ UpdateMember([run.member.status EXCEPT !.state = "NotReady"])

\* The node at the pod's address is told to bootstrap the member. That changes
\* nothing if the member runs (ErrClusterAlreadyExist is no error).
Bootstrapped(m) ==
  /\ node' = [node EXCEPT ![m] = IF @ = "stopped" THEN "started" ELSE @]
  /\ repeated' = IF node[m] = "stopped" THEN repeated ELSE repeated \cup {m}

Bootstrap ==
  LET m == run.at
      reachable == run.pod.uid = pod[m].uid
  IN /\ rpc = "bootstrap"
     /\ \/ /\ reachable
           /\ Bootstrapped(m)
           /\ Goto("version", run)
           /\ UNCHANGED failures
        \/ /\ ~reachable
           /\ ReturnError
           /\ UNCHANGED <<node, failures, repeated>>
        \/ /\ Failure
           /\ \/ reachable /\ Bootstrapped(m)
              \/ UNCHANGED <<node, repeated>>
           /\ ReturnError
     /\ UNCHANGED <<pod, connected, stream, kubeVars, watchVars>>

SetVersion ==
  /\ rpc = "version"
  /\ UpdateMember([run.member.status EXCEPT !.version = run.pod.restarts + 1])

\* Variants of what reconcileMembers remembers of the members before the next one.
LastMemberOnly(before, status) == status.state = "NotReady"
AnyNotReady(before, status) == before \/ status.state = "NotReady"

\* A variant of the loop that runs once too often.
OneTooMany(k) == k <= NumMembers
HasNext(k) == k < NumMembers

\* The member needs no change: reconcileMembers turns to the next one.
NextMember ==
  LET seen == [run EXCEPT !.notReady = AnyNotReady(@, run.member.status)]
  IN /\ rpc = "upToDate"
     /\ IF HasNext(run.at)
        THEN Goto("member", [seen EXCEPT !.at = @ + 1])
        ELSE Goto("groupState", seen)
     /\ UNCHANGED <<nodeVars, kubeVars, watchVars, repeated>>

Derived(notReady) == IF notReady THEN "NotReady" ELSE "Ready"

\* reconcileMembers: the state of the group follows its members'.
SetGroupState ==
  LET state == Derived(run.notReady)
  IN /\ rpc = "groupState"
     /\ \/ /\ run.group.status.state = state
           /\ Goto("clusterState", run)
           /\ UNCHANGED group
        \/ /\ run.group.status.state # state /\ Accepted(run.group)
           /\ WriteGroup([run.group.status EXCEPT !.state = state])
           /\ Return
        \/ /\ run.group.status.state # state /\ ~Accepted(run.group)
           /\ ReturnError
           /\ UNCHANGED group
     /\ UNCHANGED <<nodeVars, cachedPod, members, cluster, watchVars, repeated>>

\* reconcileGroups: the state of the cluster follows its groups'.
SetClusterState ==
  LET state == Derived(run.group.status.state = "NotReady")
  IN /\ rpc = "clusterState"
     /\ \/ /\ run.cluster.status.state = state
           /\ Return
           /\ UNCHANGED cluster
        \/ /\ run.cluster.status.state # state /\ Accepted(run.cluster)
           /\ Len(cluster) <= MaxLag
           /\ cluster' = Append(cluster, [run.cluster.status EXCEPT !.state = state])
           /\ Return
        \/ /\ run.cluster.status.state # state /\ ~Accepted(run.cluster)
           /\ ReturnError
           /\ UNCHANGED cluster
     /\ UNCHANGED <<nodeVars, cachedPod, members, group, watchVars, repeated>>

----------------------------------------------------------------------------
(* PodReconciler.watch: recordMemberEvent for MemberReady.                 *)

Receive(m) ==
  /\ watchPc[m] = "receiving"
  /\ stream[m] > 0
  /\ stream' = [stream EXCEPT ![m] = @ - 1]
  /\ watchPc' = [watchPc EXCEPT ![m] = "get"]
  /\ UNCHANGED <<pod, node, connected, failures, kubeVars, reconcilerVars, watchCopy,
                 repeated>>

\* tryRecordMemberEvent: an event for a member that is not there, or is Ready by
\* the cache, is dropped.
GetMember(m) ==
  LET c == Read(members[m])
  IN /\ watchPc[m] = "get"
     /\ IF c.status.exists /\ c.status.state # "Ready"
        THEN /\ watchPc' = [watchPc EXCEPT ![m] = "update"]
             /\ watchCopy' = [watchCopy EXCEPT ![m] = c]
        ELSE /\ watchPc' = [watchPc EXCEPT ![m] = "receiving"]
             /\ UNCHANGED watchCopy
     /\ UNCHANGED <<nodeVars, kubeVars, reconcilerVars, repeated>>

SetReady(m) ==
  /\ watchPc[m] = "update"
  /\ Accepted(watchCopy[m])
  /\ WriteMember(m, [watchCopy[m].status EXCEPT !.state = "Ready"])
  /\ run' = IF run.at = m THEN [run EXCEPT !.member = Stale(@)] ELSE run
  /\ watchPc' = [watchPc EXCEPT ![m] = "receiving"]
  /\ watchCopy' = [watchCopy EXCEPT ![m] = NoMemberCopy]
  /\ UNCHANGED <<nodeVars, cachedPod, group, cluster, pending, rpc, repeated>>

\* backoff.Retry tries again after a conflict.
RetryReady(m) ==
  /\ watchPc[m] = "update"
  /\ ~Accepted(watchCopy[m])
  /\ watchPc' = [watchPc EXCEPT ![m] = "get"]
  /\ watchCopy' = [watchCopy EXCEPT ![m] = NoMemberCopy]
  /\ UNCHANGED <<nodeVars, kubeVars, reconcilerVars, repeated>>

----------------------------------------------------------------------------
ReconcileStep ==
  \/ StartReconcile
  \/ ReconcileGroup
  \/ ReconcileMember
  \/ SetPodRef
  \/ SetNotReady
  \/ Bootstrap
  \/ SetVersion
  \/ NextMember
  \/ SetGroupState
  \/ SetClusterState

WatchStep(m) ==
  \/ Connect(m)
  \/ Receive(m)
  \/ GetMember(m)
  \/ SetReady(m)
  \/ RetryReady(m)

SyncStep ==
  \/ \E m \in Member : SyncPod(m) \/ SyncMember(m)
  \/ SyncGroup
  \/ SyncCluster

Next ==
  \/ \E m \in Member : RestartContainer(m)
  \/ \E m \in Member : ReplacePod(m)
  \/ \E m \in Member : NodeReady(m)
  \/ \E m \in Member : BreakStream(m)
  \/ \E m \in Member : TouchMember(m)
  \/ TouchGroup
  \/ Request
  \/ SyncStep
  \/ ReconcileStep
  \/ \E m \in Member : WatchStep(m)

Spec == Init /\ [][Next]_vars

----------------------------------------------------------------------------
(* Properties.                                                             *)

MemberCopy == [status : MemberStatus, latest : BOOLEAN]
OwnerCopy == [status : OwnerStatus, latest : BOOLEAN]
Steps == {"group", "member", "podRef", "notReady", "bootstrap", "version", "upToDate",
          "groupState", "clusterState"}
Run == [at : 0..NumMembers, member : MemberCopy, pod : Pod, group : OwnerCopy,
        cluster : OwnerCopy, notReady : BOOLEAN]

TypeOK ==
  /\ pod \in [Member -> Pod]
  /\ node \in [Member -> {"stopped", "started", "ready"}]
  /\ connected \in [Member -> BOOLEAN]
  /\ stream \in [Member -> Nat]
  /\ failures \in 0..MaxFailures
  /\ cachedPod \in [Member -> Pod]
  /\ members \in [Member -> Seq(MemberStatus)] /\ \A m \in Member : members[m] # <<>>
  /\ group \in Seq(OwnerStatus) /\ group # <<>>
  /\ cluster \in Seq(OwnerStatus) /\ cluster # <<>>
  /\ pending \in BOOLEAN
  /\ rpc \in {"idle"} \cup Steps
  /\ run \in Run
  /\ watchPc \in [Member -> {"receiving", "get", "update"}]
  /\ watchCopy \in [Member -> MemberCopy]
  /\ repeated \subseteq Member

\* The status names the container that m's pod runs now.
IsCurrent(m) ==
  LET status == Now(members[m])
  IN status.podRef = pod[m].uid /\ status.version = pod[m].restarts + 1

\* A restart is never masked: a status that names the running container means
\* that this container was told to run the member, whatever the container did
\* between the reconciler's read of the pod, its call and its write.
CurrentIsBootstrapped ==
  \A m \in Member : IsCurrent(m) => node[m] # "stopped"

\* The status moves through pods and their containers in order: no write, of the
\* reconciler or of a watch, takes it back to an earlier one.
ContainersInOrder ==
  [][\A m \in Member :
       LET old == Now(members[m])
           new == Now(members'[m])
       IN \/ new.podRef > old.podRef
          \/ new.podRef = old.podRef /\ new.version >= old.version]_vars

\* No run is in progress or requested, and the cache shows the current version of
\* every resource that the reconciler writes: nothing but a Request starts a run.
Settled ==
  /\ rpc = "idle" /\ ~pending
  /\ Len(group) = 1 /\ Len(cluster) = 1
  /\ \A m \in Member : Len(members[m]) = 1

\* The reconciler comes to rest only when the group's state has followed its
\* members' and the cluster's state the group's, although each of its runs stops
\* at its first change or error.
StatesFollow ==
  Settled =>
    /\ Now(group).state = Derived(\E m \in Member : Now(members[m]).state = "NotReady")
    /\ Now(cluster).state = Now(group).state

\* RaftMemberNotReady "indicates a RaftMember is not ready": a member that is
\* ready, was put on record for its container and whose events have all been
\* recorded is not NotReady once the reconciler has come to rest.
NotReadyMeansNotReady ==
  \A m \in Member :
    /\ Settled
    /\ node[m] = "ready" /\ IsCurrent(m)
    /\ connected[m] /\ stream[m] = 0 /\ watchPc[m] = "receiving"
    => Now(members[m]).state # "NotReady"

\* A member's readiness is never missed: when it is ready, on record for its
\* container and its events have all been taken, it is not recorded as NotReady, past
\* restarts, broken streams, failed calls, conflicts and stale reads, unless its
\* process was told twice to bootstrap it: it then announces nothing more.
ReadinessRecorded ==
  \A m \in Member \ repeated :
    /\ node[m] = "ready" /\ IsCurrent(m)
    /\ connected[m] /\ stream[m] = 0 /\ watchPc[m] = "receiving"
    => Now(members[m]).state = "Ready"

----------------------------------------------------------------------------
(* The inductive invariant.                                                *)

\* Container p is container q, or one before it.
UpTo(p, q) == p.uid < q.uid \/ (p.uid = q.uid /\ p.restarts <= q.restarts)

\* A status names no pod and no container that is later than p.
NamesUpTo(status, p) ==
  /\ status.podRef <= p.uid
  /\ status.podRef = p.uid => status.version <= p.restarts + 1

\* The cache is behind the pods, and what is on record behind the cache.
ContainersFollow ==
  \A m \in Member :
    /\ UpTo(cachedPod[m], pod[m])
    /\ \A j \in DOMAIN members[m] :
         /\ NamesUpTo(members[m][j], cachedPod[m])
         /\ ~members[m][j].exists => members[m][j] = NoMember

\* The copy is the only version there is to read.
IsLatest(copy, versions) == copy.status = Now(versions) /\ Len(versions) = 1

CopiesCurrent ==
  \A m \in Member : watchCopy[m].latest =>
    watchCopy[m].status.exists /\ IsLatest(watchCopy[m], members[m])

\* reconcileMember does what follows from the member and the pod it has read.
Changing == {"podRef", "notReady", "bootstrap", "version"}
RunFollows ==
  /\ rpc \in Changing \cup {"member", "upToDate"} => run.at \in Member
  /\ rpc = "groupState" => run.at = NumMembers
  /\ rpc \in Changing =>
       /\ run.member.status.exists
       /\ run.member.status.podRef <= run.pod.uid
       /\ UpTo(run.pod, cachedPod[run.at])
       /\ Decision(run.member.status, run.pod) = IF rpc = "version" THEN "bootstrap" ELSE rpc
       /\ run.member.latest => IsLatest(run.member, members[run.at])

\* A process whose container is on record, or about to be, was told to run the member.
RecordedWasTold ==
  /\ CurrentIsBootstrapped
  /\ rpc = "version" /\ run.pod = pod[run.at] => node[run.at] # "stopped"

\* Once a container is on record, no version says Ready but for the ones that stay.
ReadyStays ==
  \A m \in Member : IsCurrent(m) =>
    \A j \in DOMAIN members[m] :
      /\ members[m][j].exists
      /\ members[m][j].state = "Ready" => Now(members[m]).state = "Ready"

\* The readiness of a member told once is on record or on its way, from before the
\* time that its container is put on record.
Recording(m) == rpc = "version" /\ run.at = m /\ run.member.latest
ReadinessFollows ==
  \A m \in Member \ repeated :
    node[m] = "ready" /\ (IsCurrent(m) \/ Recording(m)) =>
      \/ Now(members[m]).state = "Ready"
      \/ ~connected[m] \/ stream[m] > 0 \/ watchPc[m] # "receiving"

\* What a run has found still holds, unless another run is requested or will be by
\* a version that the cache does not have yet.
CacheCurrent == Len(group) = 1 /\ Len(cluster) = 1 /\ \A m \in Member : Len(members[m]) = 1
FindingsHold ==
  ~pending /\ CacheCurrent =>
    /\ rpc # "idle" => run.cluster.status = Now(cluster)
    /\ rpc = "group" => ~run.notReady
    /\ rpc \notin {"idle", "group"} => run.group.status = Now(group)
    /\ rpc \in Changing \cup {"member", "upToDate"} =>
         (run.notReady <=> \E m \in 1..(run.at - 1) : Now(members[m]).state = "NotReady")
    /\ rpc = "upToDate" => run.member.status = Now(members[run.at])
    /\ rpc \in {"groupState", "clusterState"} =>
         (run.notReady <=> \E m \in Member : Now(members[m]).state = "NotReady")
    /\ rpc = "clusterState" => run.group.status.state = Derived(run.notReady)

IInv ==
  /\ TypeOK
  /\ ContainersFollow
  /\ CopiesCurrent
  /\ RunFollows
  /\ RecordedWasTold
  /\ ReadyStays
  /\ ReadinessFollows
  /\ FindingsHold
  /\ StatesFollow
=============================================================================
