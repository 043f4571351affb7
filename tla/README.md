# Verification of the consensus storage

TLA+ models of the multi-Raft storage in this repository, checked with TLC, and
theorems about them, checked with TLAPS. File names below are relative to
`node/pkg/consensus` (N), `controller/pkg/controller/consensus/v1beta1` (C) and
`controller/pkg/apis/consensus/v1beta1` (A).

## The system

A *node* is a process in a pod that hosts one member of each of several Raft
groups (dragonboat's `NodeHost`). A *controller* creates the pods, tells the nodes
which members to run, watches their events and reports them in the status of
Kubernetes resources. A *driver* connects applications to the nodes.

| Component | State | Operations | Interacts with | Hard |
|---|---|---|---|---|
| Proposal path (N `partition.go`, `context.go`, `statemachine.go`, `protocol.go`) | `Partition.term/leader`, `protocolContext.streams/sequenceNum`, `n.partitions` | `Propose`, `setLeader`/`getLeader`, `addStream`/`getStream`/`removeStream`, `Update`, `RecoverFromSnapshot`, `Bootstrap`, `Join`, `Leave` | clients; dragonboat's log and leader events | non-atomic pair of term and leader; commands that commit after a timeout; replay on every member; restarts in one process |
| Event fan-out (N `protocol.go` `publish`, `Watch`; `server.go`; `events.go`) | `watchers`, `watcherID`, channels, `mu` | `publish`, `Watch` (replay, closing goroutine), `nodeServer.Watch` | dragonboat's listener threads; gRPC streams | sends to bounded channels under a lock; close against send; identifiers drawn outside the lock |
| Group and member status (C `watcher.go`) | `RaftGroupStatus`, `RaftMemberStatus` | recording of `LeaderUpdated`, `MemberReady`, ... | nodes' streams; Kubernetes; the cluster reconciler | several writers, stale reads, conflicts, retries that give up |
| Members' lifecycle (C `cluster.go`) | `RaftMember` PodRef, Version, State; group and cluster state | `reconcileGroups` .. `reconcileMember`, `Bootstrap` call | pods, nodes, the watch goroutines, its own work queue | container restarts between read, call and write; conflict with the watch; lost requests |
| Partition status and store (C `cluster.go` `reconcileStatus`, `store.go`) | `MultiRaftClusterStatus.Partitions`, `ConsensusStore` state, `DataStore` config | `reconcileStatus`, store `Reconcile` | the groups' status; applications' configuration | chain of derived copies, each stale; errors that cut it |
| Pod watches (C `watcher.go`) | `watchers` by address, pod finalizer | `watch`, `unwatch`, `reconcileCreate/Delete` | pods; goroutines | registry entry outlives its goroutine's use |
| Placement and bootstrap (C `cluster.go` `getPodName`, `getNum*`, `reconcileMember`; N `getRaftConfig`, `Bootstrap`) | `RaftMember` pod, type, version; the ConfigMap's and StatefulSet's copies of the specification; `NodeHost`'s replicas | pure functions, `addConfigMap`, `addStatefulSet`, `Bootstrap` | nodes, the specification's editors | more members than replicas; a specification that is edited under what was made from it; a heartbeat period that rounds to zero |
| Configuration (N `config.go`, `options.go`) | none | defaults, setters | placement and bootstrap | zero |
| Messages (N `protocol.pb.go`, `protocol.proto`, `events.go`) | none | `Marshal`, `Size`, `Unmarshal`; the listener's events | controller, nodes, the Raft log | widths, lengths and skipped fields at their edges; writers newer than the reader |
| Kubernetes objects, API types, driver, command lines, charts | none of their own | create if absent; declarations; delegation | - | - |

What makes each correct:

* Proposal path: the outputs of a command reach the stream of the call that made
  it and no other; `nil` means answered; streams are released.
* Fan-out: no send on a closed channel; a watcher knows each group's leader from
  its registration on, in order; the node does not get stuck.
* Status: the recorded (term, leader) only moves forward and names a leader that
  was elected; members are listed once and never dropped; the status catches up.
* Lifecycle: a restart is never masked; records move forward; the state of the
  group and cluster follows its members'; a readiness is not missed.
* Store: the `DataStore` catches up with the groups' leaders and followers.
* Pod watches: one watch per address; every pod that stays is watched; a pod that is
  deleted goes; a snapshot on record is never taken back.
* Placement and bootstrap: members of a group are on different pods; what is recorded
  as bootstrapped runs; replicas find each other; timeouts are kept.
* Messages: what is read is what was written, by old and new writers.

## Modules

| Module | Models |
|---|---|
| `Proposals`, `MCProposals` | the proposal path of every member of one group |
| `ProposalsProofs` | theorems about it |
| `EventFanout`, `MCEventFanout` | the events of one node, its lock, channels and Watch calls |
| `EventFanoutProofs` | theorems about it |
| `LeaderRegister` | abstract: a register of (term, leader) that only moves forward |
| `GroupStatus`, `MCGroupStatus` | one group's status under all of its writers; implements `LeaderRegister` |
| `GroupStatusProofs` | theorems about it |
| `MemberLifecycle`, `MCMemberLifecycle` | the reconciler, the nodes and the watches of one group's members |
| `ClusterRequests`, `MCClusterRequests` | extends it with what requests the cluster: the StatefulSet's status and the resync |
| `MemberLifecycleProofs` | theorems about both |
| `Placement` | pure functions: pods, types and peers of members, the Raft configuration |
| `GroupBootstrap` | from the specification to running replicas, under edits, restarts and failing calls |
| `GroupBootstrapProofs` | theorems about it |
| `Messages` | every message of the protocol as bytes: writers, sizes, readers |
| `NodeProtocol`, `MCNodeProtocol` | composes the two: bootstrap by encoded requests, then events, proposals and requests |
| `NodeProtocolProofs` | theorems about both |
| `PodWatch`, `MCPodWatch` | finalizers, the registry of watches, the goroutines and the snapshots they record |
| `PodWatchProofs` | theorems about it |
| `Publication` | abstract: a chain of copies, each of which says only what the one before it has said, in order |
| `StorePipeline`, `MCStorePipeline` | groups' status to cluster's status to `DataStore`; implements `Publication` |
| `StorePipelineProofs` | theorems about it |

`PROJECT.json` maps each definition to the lines it models.

### Proposals

State and code: `term`, `leader` are a `Partition`'s two words, `setting` is what
`setLeader` has stored half of, `streams` and `sequenceNum` are the
`protocolContext`, `held` the streams the primitives' state machine has been
handed, `partition` is `n.partitions`, `starts` counts the runs of
`newStateMachine`; `pc`, `inst`, `tag`, `via` are the local state of a call to
`Propose`. An *instance* is one life of a Partition with its context and state
machine. `outputs` is history: which stream each execution of `Update` was handed.

Each load and store that races is an action: `SetTerm`, `SetLeader` (publish and
`setLeader`), `GetTerm`, `GetLeader`, `Refuse`, `AddStream`, `SyncPropose`,
`ReturnOk`, `ReturnError` (`Propose`), `Update`, `RecoverFromSnapshot`,
`CloseStream`; `StartCluster`, `Leave`, `Crash` restart members. Raft is external:
one leader per term (`Elect`), announcements in order (`Observe`), one log for
all members (`Commit`). A call that is refused leaves nothing behind and may be made
again. What the node needs of Raft is nothing more: no property
depends on when a command commits.

* `MisdeliveryNeedsStaleTag`: `Update` gives a command's outputs to another call's
  stream only if one of the two calls has a *stale tag*, a term that its instance
  did not win. The two ways to a stale tag are the torn read and an announcement
  made to an earlier instance.
* `OutputsToOwnStream`, the promise without the exception, is violated
  (`proposals_own_stream`): two members pass the leader check, one of them with the
  other's term, both draw sequence number 1, and one's `Update` finds the other
  call's stream.
* `OkMeansAnswered`: `nil` means that the outputs went to the call's own stream,
  unless the group was restarted under the call or the call shares its tag with
  one whose tag is stale.
* `StreamsReleased`: executed commands leave no stream behind that the state
  machine does not hold.

Bounds: two calls are what a clash needs; two members with two terms give a
handover in both directions, with one announcement under way (`proposals`); a leader
steps down within its term in the first one, since another can follow only there; one
member with two starts, two terms, two announcements and snapshots at both log
indexes gives every restart (`proposals_restart`).

### EventFanout

`writer`, `readers`, `queued` are the `sync.RWMutex` (external), with Go's rule that
a waiting writer keeps new readers out. `pubPc`, `event`, `todo` are a `publish` in
progress, `watchPc`, `id`, `replay` a `Protocol.Watch`, `handler`, `done`, `chan`,
`closed` an `nodeServer.Watch` and its channel. The increment of `watcherID` is a
data race: load, store and the second load are separate, and the second may be
replaced by the value stored.

* `NoSendOnClosed`: no goroutine can send on a closed channel.
* `WatcherCurrent`: a registered watcher has been told of each Partition's leader,
  or its replay or a publish under way is about to; `InOrder`: and of all leaders
  after the first, in order.
* `LostOnlyByClash`: a watch loses its registration only to another one that has
  drawn its identifier.
* `PublishEnds`, `LeaderDelivered` under fairness of the goroutines: a publish ends
  and a staying client catches up, unless a handler that returned after a failed
  `Send` has left a full channel behind. That exception is a defect: the publisher
  holds the read lock for good and the closing goroutine waits for the write lock.

Bounds: two watchers clash and race; a channel of one event is full at once
(the code has 100, and only full and not full matter); two leader events give one
that is replayed and one that races with the replay.

Fairness: weak for goroutines' steps, strong for entering the lock's line, since
Go's mutex does not starve a writer. Nothing is assumed of clients, of
Raft or of a `Send`'s outcome, but that it returns.

### GroupStatus and LeaderRegister

`stream` is the events on their way to a member's watch goroutine, `pc`, `event`,
`copy` the goroutine; `group` is the RaftGroup's versions from the cached to the
current one; `info` and `role` are the RaftMember's; `marking` and `marked` are
`reconcileMembers` about to write the group's state. `lost` is history: the members
of which an announcement was lost for good. A write is accepted only from the latest version, as by the API server;
a copy that is out of date leads to a conflict whatever is in it, and its content
is not kept.

* `GroupImplementsRegister`: (term, leader) in the group's status is a
  `LeaderRegister`: terms never go back, the leader of a term never changes.
* `LeaderWasElected`: the leader on record won the term on record.
* `ListedOnce`, `ListingsKept`: a member is listed once, as leader or follower,
  and never dropped.
* `StatusCaughtUp`: when no event of a member is under way and its goroutine waits for
  the next one, the group's status knows of what the member has announced last, its
  leader and its readiness, or of something later, unless an announcement was lost
  with its node or given up on: decisions rest on stale reads, writes conflict, and
  what a broken stream loses, the replay of the next one brings. It is an invariant of
  states at rest and needs no fairness; that a goroutine comes to rest is
  `backoff.Retry`'s and the scheduler's part.

Bounds: two members, two terms, one event under way, one cached version behind:
each run of a retry against another writer occurs. One disturbance is a state
write of the reconciler, a broken stream, a restarted node, a failed member write
or an event given up on.

### MemberLifecycle

`pod` is a pod's UID and RestartCount, `node` the member in its process, `members`,
`group`, `cluster` are versions from the cached to the current one, `pending`, `rpc`,
`run` are the work queue and a run of `Reconcile`, `watchPc`, `watchCopy` the
recording of `MemberReady`. `repeated` is history: members whose process was told
twice to bootstrap them. A run stops at its first change or error, as in the
code, and goes on only if it is requested again. A request comes with each version of what
the reconciler writes that reaches the cache, and, since the controller also watches the
StatefulSet, whose status changes with its pods' readiness, and informers resync, at any
other time (`Request`). A pod's own change requests nothing: pods do not carry the annotation
that the watch on them looks for.

* `CurrentIsBootstrapped`: a status that names the running container means that
  this container was told to run the member.
* `ContainersInOrder`: the status moves forward through pods and containers.
* `StatesFollow`: the reconciler rests only when the group's and the cluster's
  state have followed the members'.
* `ReadinessRecorded`: a member that is ready, on record for its container and whose
  events have all been taken is recorded Ready, unless its process was told twice to
  bootstrap it: then it announces nothing more.
* `NotReadyMeansNotReady` is violated (`member_lifecycle_ready`), without a failure:
  the watch records Ready between the `Bootstrap` call and the write of the
  version; the write conflicts; the next run resets the state and bootstraps a
  member that runs, which announces nothing.

Bounds: two members give the early returns between members, with one failure (a
restart, a replaced pod, a broken stream, a failed call) or one write by others at any
point; one cached version behind gives each conflict. A failure during the recovery from
another is not in these runs.

### ClusterRequests

`MemberLifecycle` with the causes of `Request` told apart. `ready` is whether a container passes
its readiness probe, which connects to the Raft port; `readyReplicas` is the number in the
StatefulSet's status, as the manager's cache has it. `LoseContainer` is a restart or a
replacement, `ProbeSucceeds` the kubelet, `SyncStatefulSet` the update of the status, its way to the cache
and the watch on StatefulSets, `Resync` the informers. The cache of pods is another one, and
nothing orders the two. A pod that is new is counted as not ready before it becomes ready, because
the StatefulSet's controller creates it; a restart may be over before that controller sees it. That
it takes the kubelet five seconds to probe a new container makes this rare, not impossible.
The changes of the status that do not come from readiness are left to `Resync`.

* `RestartRecorded`: whatever container a member's pod runs comes to be on record, or is lost
  to a failure. The runs that lead there may read the pod as it was before, end at another change or
  in a conflict, or not reach the node.

The comment at `cluster.go` 121 ("Watch for changes to secondary resource Pod") says more than the code
does: no pod carries the annotation that the map function looks for (123), since the
StatefulSet gives its pods the annotations of the cluster, which name the store only (350, 952-960). So
if the cache shows a restart only after the runs that the StatefulSet's status requested, those runs read the
earlier container and the pod's change requests no other; the same if the StatefulSet's controller
sees a readiness lost and regained at once. The container is then put on record when something
else requests the cluster, at the latest the resync.

Fairness: weak for the cache of each resource, for the reconciler, whose queue keeps a cluster that was
requested or whose run failed, and for `Resync`: the manager is created without a `SyncPeriod`
(`main.go`), so that its informers resync by default, every ten hours. Without the
resync the property would not hold, for the reason above. Neither nodes nor watches nor failures are
assumed to do anything.

Bounds: one member, since members share nothing here but the run that comes to them in order; one
failure, so that each container that is lost finds the member at any stage of being recorded; two
would make it 1.5 million states and more.

### StorePipeline and Publication

`groups`, `cluster`, `store`, `dataStore` are the versions of the resources from the
cached to the current one. `clusterPc`, `clusterCopy`, `at`, `allReady`, `partitions`
are a run of the cluster's `Reconcile`, from `reconcileGroups` to `reconcileStatus`;
`storePc`, `storeCopy`, `source` a run of the store's `Reconcile`. A run ends at its
first write, as in the code, and `clusterPending`, `storePending` are the
requests for another. `SyncGroup`, `SyncCluster`, `SyncStore`, `SyncDataStore` are the
cache catching up, and the watches: a controller is requested by what it watches and
by nothing else. A group's status carries a number, by which copies are told to be
older or newer; the code compares and copies the contents, which are modelled as they are
published: the address of the leader's pod and a bag of the followers' addresses.

* `PipelineImplementsPublication`: what the cluster and the `DataStore` say of a group
  is something that was said before them, and is never taken back for an older
  one, whatever copies the controllers work from.
* `NotReadyFollows`: the store controller rests only when a cluster that is NotReady
  has its store reported so, though a run stops at its first write.
* `ConfigCatchesUp`, under fairness of the two workers and the cache: the `DataStore`
  names the groups' leaders and followers again and again, with two exceptions that are
  gaps in the code. A pod that stays away ends every run of the cluster controller before
  `reconcileStatus`. And a run that finds the configuration equal to an old
  `DataStore` writes nothing, while the newer version, once it is cached, requests
  nobody (`misjudged`).
* `ReadyFollows` is violated (`store_pipeline_ready`), without a failure: the run that
  updates the `DataStore` ends there, and the watch that should request the next one
  looks for `DataStore`s owned by a `MultiRaftCluster`, of which there are none.

`isPartitionStatusEqual` and `isPartitionConfigEqual` compare lists of followers by
length and membership, which does not tell `<<p1, p1, p2>>` from `<<p1, p2, p2>>`, and
there are such lists where a pod hosts several members of a group. `MCStorePipeline`
assumes `ComparisonIsRight`, which TLC evaluates for four members placed anywhere on
two pods: of two statuses of which the later lists whatever the earlier does
(`ListingsKept` of `GroupStatus`) the comparison judges rightly. Without that it does not.

Bounds: two groups are read at different moments and stop a run between them; two
changes give a leader that is lost again, a member that is listed and then elected, or a
change of a group's state next to one of its leader; a group has one member here,
since TLC takes too long for two; one failure is an edit by someone else, a restart or
a lost pod. Members' reconciliation is left to `MemberLifecycle`: here a group's state may change
whenever `reconcileGroup` comes to it.

### Placement and GroupBootstrap

`Placement` has the pure functions: `getNum*`, `getPodName`, types and roles of
members, the list of peers in a request, `getRaftConfig` and its units. `GroupBootstrap`
puts them to work: `cluster` is the specification, `config` and `replicas` what the
ConfigMap and the StatefulSet were made from, `members` the RaftMembers with pod, type
and version, `container` and `nodes` the process of each pod and the replicas it runs,
`call` the reconciler's `Bootstrap` call. A run of the reconciler is reduced to the one
write or call it ends with; `Reaches` is the order of its loops. The specification may
be edited, processes restart and calls fail at any point. History: each member and
replica remembers the specification it was made from (`spec`).

* `ReplicasApart`: members of a group are on different pods, if one specification placed
  them that has no more members than replicas.
* `RecordedRuns`: a member that is recorded as bootstrapped in the running process runs
  in it, or another one runs there that shares its pod, which takes an edit or more
  members than replicas. In that case the node's answer is a success all the same:
  `ErrClusterAlreadyExist` is taken for one.
* `PeersFindEachOther`: a running replica has the right address of each other running
  one of its group, if its list was made by the specification that placed the other.
* `BootstrapEnds`, under fairness: all members end up recorded, unless the specification
  is edited or the heartbeat period is below a millisecond, by which `getRaftConfig`
  divides as by zero. (The library may refuse such a period earlier; the replica
  does not run either way.)
* `TimeoutKept`, proved only: the election timeout in heartbeats is the configured one
  up to less than a heartbeat.

Fairness: weak for the reconciler, whose work queue goes on; strong for the node's answer
and the write of the version, since failing calls are repeated and do not fail for ever.

### Messages and NodeProtocol

`Messages` translates `protocol.pb.go`, per message the writer (`MarshalX`), the size it
allocates (`SizeX`), and the reader's switch (`XFields`), with one operator each for what
the generated code repeats: reading an integer (`readVarint`), a length and its bytes
(`readDelimited`), a field (`readField`), storing its value (`Stored`), skipping an unknown
field or group (`skip`). A loop is a recursive function of its turns (`GroupTurn`, `SkipTurn`,
`Turn`): the reader of a message takes two bytes at least in each turn, a tag and a value,
unless an error ends it, which bounds its turns (`Turns`). A message of this protocol is at most a part of a part of one, for which there are
three readers, each of which reads its parts with the one before it (`UnmarshalFlat`,
`UnmarshalNested`, `UnmarshalInto`). Bytes are real; the integer types are narrower
than Go's, chosen so that the last group of seven bits is cut as it is there: 22 bits for
64, 18 bits for 32.

`NodeProtocol` composes both: requests to bootstrap are marshalled, sent and read
(`CarriedRequest` is `GroupBootstrap`'s `Carried`), and in a cluster at rest, as it was
first bootstrapped, the events the listener makes of what the library tells it
(`events.go`), proposals in the Raft log, and the other requests are sent one at a time.

* `UnderstoodAsSent`: what is read is what was written, at the edges of the widths and
  lengths and when a newer writer appends a field of any wire type.

Bounds: four specifications, one with more members than replicas, one with fewer
members than replicas, one with a heartbeat below a millisecond; one edit between any two
of them, two processes per pod; numbers 0, 1, 127, 128 and the largest, texts of 0, 127
and 128 bytes in proposals, short ones in events. Contents of messages do not depend on
each other, so that one at a time is enough, and the state of the cluster only says which
replicas announce.

### PodWatch

`pod` is the pod that has an address, one after the other under one name, `ahead` its
versions the cache has not seen, `cached` the one it has, `queued` and `run` the work
queue and `PodReconciler.Reconcile`, `watchers` the registry's entry for the address,
`goroutine` the watch goroutines from `Dial` to the deferred function that frees the
address, `member` a RaftMember with the snapshot index they record, by
`backoff.Retry` from a cached copy. `recorded` is history.

* `OneWatch`: a goroutine that runs is the registered one, so that none frees another's
  registration.
* `CancelledWithItsPod`: a watch is cancelled before its pod is let go, and for no
  other reason: no late version of a pod cancels its successor's watch.
* `NoRecordLost`: a snapshot whose recording succeeded stays on record, or a later one.
* `EveryPodWatched`, under fairness: a pod that stays is watched in the end and from then
  on, unless a stream fails with an error that is neither its end nor a cancellation:
  the loop calls `Recv` again on a stream that may say so for ever, and keeps the
  address (`Failing`).
* `PodsGo`: a pod that is deleted goes.

Bounds: two pods give the handover of an address; one write by another, one failure
(a stream, a call, a restart of the controller) at any point; two events with indices up
to two give one that is late; two goroutines are one more than ever run at once.

Fairness: weak for the processes, the cache and a cancelled `Recv`. `Resync` is the
informer's periodic resync, without which a pod that is skipped while its predecessor's
watch holds the address would not be requested again. `GiveUp` is strongly fair:
`backoff.Retry` gives up after fifteen minutes.

## Runs

| Run | States | Shows |
|---|---|---|
| `proposals` | 1.4 M | misdelivery needs a stale term, under changes of leadership |
| `proposals_restart` | 0.65 M | the routing guarantees under Leave, crashes and snapshots |
| `proposals_own_stream` | violation | misdelivery past the torn read |
| `fanout` | 0.16 M | safety of publish and Watch, and progress outside the abandoned channel |
| `group_status` | 1.5 M | status safety, catching up and refinement under competing writers and one disturbance |
| `member_lifecycle` | 2.9 M | two members, one failure or write by others |
| `member_lifecycle_ready` | violation | a ready member stays NotReady |
| `cluster_requests` | 0.3 M | a restart comes to be on record, with the resync |
| `store_pipeline` | 0.45 M | copies of the groups' status move forward and catch up |
| `store_pipeline_ready` | violation | a store whose cluster is ready is not reported Ready |
| `node_protocol` | 92 k | placement, bootstrap and every message, with encoded requests |
| `pod_watch` | 0.25 M | one watch per pod that stays, none for one that goes |

Deadlock is not checked where the bounds make the model stop: calls, terms and
leader events run out, and the store's controllers come to rest when nothing
changes. `MemberLifecycle` never stops and is checked for it. Members
and calls are symmetric in the safety runs of `Proposals` and `GroupStatus`; runs with
liveness properties use no symmetry.

Definitions introduced as variants (`RepeatedSequenceNum`, `AnyVersion`, ...) are
plausible bugs. No specification uses them: put in the place of the definition
they precede, each makes a property fail, which shows that the property is about
the code.

## Proofs

`ProposalsProofs` proves, for all sets of members and calls and all bounds and
from `ProposalsAssumption` alone:

* `TypeCorrect`: `Spec => [](TypeOK /\ StartInv)`;
* `MisdeliveryCorrect`, `AnsweredCorrect`, `ReleasedCorrect`: the three invariants.

They follow from `IndInv` (`IndInvCorrect`), which TLC also found to hold in the
instance of `proposals_restart`. The invariants are not inductive alone: that an output which
went astray involves a stale tag needs that tags are unique within a context
(`UniqueTags`), that a context holds its own calls' streams only (`StreamsInv`),
that outputs go where the tags agree (`OutputsInv`); two calls of different
instances with one tag then cannot both have won its term. That `nil` means
answered needs that a call's stream stays in its context until `Update` has met
it (`PresentInv`, `AnsweredInv`), and that new instances start empty
(`InstanceInv`). Each action has a lemma for the part it can disturb.

`GroupBootstrapProofs` proves, for any specifications, pods, groups, members and numbers of
edits and processes:

* `InvariantCorrect`: `Spec => []IInv`, the invariant that the run checks, too;
* `ApartCorrect`, `RecordedCorrect`, `PeersCorrect`, `TimeoutCorrect`: the four properties.

`IInv` says what each record was made from: a member's pod is the one its specification
gives it (`MembersFollow`), a replica's configuration and peers are those that the
ConfigMap, its request's specification and the member's type give (`NodesFollow`), a
request under way is for a member of its specification, and an answer for the process
that runs means that it has a replica of the group (`CallFollows`). The properties
follow with two facts of arithmetic: consecutive numbers, fewer than the modulus, have
different remainders (`RemaindersApart`), and a quotient times its divisor falls
short by less than the divisor (`QuotientKept`). The assumptions are
`BootstrapAssumption` and `NilAssumption` (types) and `CodecAssumption`: a node reads the
request that was sent. TLC evaluates the last for the real codec in `node_protocol`, and
`NodeProtocolProofs` proves it of that codec for any values of the constants (`CodecCorrect`).

`PodWatchProofs` proves, for any set of goroutines and any number of pods, failures, writes
by others and events, from `PodWatchAssumption` alone:

* `InvariantCorrect`: `Spec => []IInv`, the invariant that the run checks, too;
* `OneWatchCorrect`, `CancelledCorrect`, `RecordCorrect`: `OneWatch`,
  `CancelledWithItsPod`, `NoRecordLost`.

The reconciler acts on versions of the pod that are out of date, so `IInv` says what is left
of them. They are in order (`AheadInOrder`); a version with a finalizer that is not being
deleted, and one that is, say something of the pod that stays true (`TrueOf`, `ViewsHold`,
`RunFollows`), by every step but one. The removal of the finalizer is the exception: it
succeeds only from the current version, and then nothing is ahead of the cache (`CaughtUp`).
A watch that runs is of a pod the cache had seen when it began, and no later than a copy
that is being worked from (`RunFollows`, `WatchesFollow`). So a late deletion meets the
watch of its own pod or of an earlier one, never of a successor. For the snapshots, the
cache has no higher index than is on record, and an update is under way only for a
higher one than its copy's.

`GroupStatusProofs` proves, for any members, numbers of terms, of versions the cache is behind, of
events under way and of disturbances:

* `InvariantCorrect`: `Spec => []IInv`, the invariant that the run checks, too;
* `LeaderCorrect`, `ListedOnceCorrect`, `CaughtUpCorrect`, `ListingsCorrect`: the four properties;
* `RegisterCorrect`: `Spec` implements `LeaderRegister`, step by step.

The watches decide on versions of the RaftGroup that may be old. `VersionsFollow` says why
that is safe: whatever a version that can still be read says of the term, its leader or a
member's listing, the current one says, too, or it knows of a later term. So an event that
an old version makes superfluous is superfluous, and skipping it loses nothing
(`NothingForgotten`: what a member announced last is in the status, in its stream or with its
goroutine). An event that an old version makes look new is written only if the copy is the
current version after all (`CopiesCurrent`), and then it is new; every write is therefore
a step forward of the register. `TermsWon` carries who won a term from the election through
streams, events and copies to the status. The assumption is `GroupStatusAssumption`.

`EventFanoutProofs` proves, for any groups, calls, capacity and number of leader events:

* `InvariantCorrect`: `Spec => []IInv`, the invariant that the run checks, too;
* `NoSendOnClosedCorrect`, `WatcherCurrentCorrect`, `LostOnlyByClashCorrect`,
  `InOrderCorrect`: the three safety invariants and the action property.

A call's goroutine that replays holds the write lock with no reader in (`LockExcludes`), and a publish
in its loop is a reader whose remaining channels are registered (`PublishersFollow`). So the
map does not change under a loop and the Partitions do not change under a replay: what a loop
still has to send is the next leader of each channel (`EventsFollow`), what a replay still has to
send is what the Partitions are (`ReplaysFollow`), and a channel is closed only when it is in
no map and no loop. `EntriesKept` is about the race for identifiers: an entry
disappears only when its own call or one with the same identifier takes it out. The assumption
is `FanoutAssumption`; that goroutines of calls and of groups are different threads
(`Watcher \cap Group = {}`) is what makes the lock's owner unambiguous.

`MemberLifecycleProofs` proves, for any numbers of members, of failures and of versions the cache is
behind:

* `InvariantCorrect`: `Spec => []IInv`, the invariant that the run checks, too;
* `BootstrappedCorrect`, `StatesCorrect`, `ReadinessCorrect`: the three safety invariants;
* `ContainersCorrect`: the action property, from a lemma (`StatusMoves`) on how a step can
  change a status;
* `RequestsImplement`: `ClusterRequests` implements `MemberLifecycle`, since a change of the
  StatefulSet's status does nothing but request the cluster; so what is proved above holds of it.

The statuses on record name containers no later than the cache's, and the cache's are no later than
the pods' (`ContainersFollow`); a copy that can still be written is the only version there is to
read (`CopiesCurrent`, `RunFollows`). So a write that is accepted starts from what
`reconcileMember` decided on, and a status that names the running container was written by a run that
read this very container, after its process was told to run the member and from a status that
was NotReady (`RecordedWasTold`, `ReadyStays`). The readiness of a member needs a
strengthening in time: it must be on its way not only once the container is on record but from when its
version is about to be written (`Recording`, `ReadinessFollows`), since the goroutine may take
the event in between; what it sees then is NotReady, so that it does not drop the event.
`FindingsHold` is the invariant of the loops: unless another run is requested, or will be by a version the
cache does not have yet, what a run has read of group, cluster and members is what they
are, which TLC showed to need that a run starts with nothing found. The assumption is
`MemberLifecycleAssumption`.

`StorePipelineProofs` proves, for any numbers of groups, of failures and of versions the cache is
behind, any finite set of members and any placement of them:

* `InvariantCorrect`: `Spec => []IInv`, the invariant that the run checks, too;
* `NotReadyCorrect`: the safety invariant;
* `PublicationCorrect`: `Spec` implements `Publication`, step by step.

No version of a group's or of the cluster's status takes back what one before it says
(`VersionsForward`). What is on record at one stage of the chain says no more than the cached version
of the stage before it, since that is what a run reads, and the cache only moves forward; what a run
has read and not yet written lies in between (`ClusterFollows`, `StoreFollows`). That a later run
does not write something older rests on two facts: there is one run of each controller at a time, and
the cluster's status is written only from its latest version, so that a run that was called with an
old one changes nothing. `StoreFindings` is the invariant of the store's runs: unless another run
is requested, or will be by a version the cache does not have yet, what a run has found of store and
cluster is what they are. Every step of the model leaves the latest versions alone
(`Stays`, which a restart of the process does, too) or adds one to a single resource
(`StaysOrWrites`), and that one is a step of `Publication`, by the invariant after it
(`GroupChanges`, `ClusterPublishes`, `DataStorePublishes`). The assumption is
`StorePipelineAssumption`. The numbers that tell versions apart are unbounded in the theorems. The
comparison of followers by length and membership plays no part in them: a comparison that
is wrong publishes nothing, which is a matter of `ConfigCatchesUp` and of `ComparisonIsRight`.

`NodeProtocolProofs` proves, for integers of any widths from nine bits on, the wide ones at least as
wide as the narrow ones, and any numbers, texts, times, specifications, groups and members:

* `EncodedSize`, `VarintRead`: what `encodeVarintProtocol` writes has the length that
  `sovProtocol` counts, and is read again, whatever follows it;
* `RoundTrip`: any message is marshalled without a panic, in exactly the bytes that `Size`
  allocates, and `Unmarshal` of these makes the message again, with or without a field of a newer
  writer behind it;
* `CodecCorrect`: a request to bootstrap is carried unchanged, which `GroupBootstrap` assumes
  of its codec (`CodecAssumption`);
* `ProtocolCorrect`: `ProtocolSpec => []UnderstoodAsSent`, from the invariant that what is on its
  way is a message of its type in its marshalled form (`WireOK`), and from `GroupBootstrap`'s `IInv`
  for the identifiers of the replicas that announce.

The argument follows the code upwards. What a writer's call writes is a field to the reader that has the
tag (`Carries`) and *tells* it the value, or is nothing and the value is zero (`Tells`). A turn of a
reader's loop stores that value and goes on behind it (`FlatStep`, `NestedStep`, `IntoStep`), so that a
new message, in which everything is zero, becomes the message that was written, field by field
(`MemberConfigRead` to `EventRead`). The list of a group's members is written from its end,
counted from its start and read from its start: the lemmas say what the three loops have after as many
turns (`MembersWritten`, `MembersRead`). The fields of a newer writer are taken apart
turn by turn of `skipProtocol` (`UnknownGroup` has six of them, with a group inside a group).

The encoders and loops are recursive functions over numbers, all of which descend. `tlapm` takes such a
definition for its equation. What they do for every number cannot be proved with the library's
induction theorems, which have an operator as a parameter; the module proves induction for a *set* of numbers
instead (`Induction`): of those that do not belong to it there would be a least one
(`LeastNumber`), because the finite sets of numbers are well ordered by inclusion.

The assumptions are `WidthAssumption`, that the values are of their Go types (`ProtocolAssumption`: 32 bits
for identifiers, 64 for terms and indices, 31 for the port), and that messages fit a slice, whose
length is an int (`LengthAssumption`). TLC evaluates them in `node_protocol`.

With these, every safety invariant, action property and refinement that the runs check is proved.
Liveness (`RestartRecorded`, `BootstrapEnds`, `ConfigCatchesUp` and the other properties under fairness) stays with TLC: the
prover does not reason about fairness.

## Not modelled

* Query and Lookup: they change nothing here.
* LogEvent: a message that nothing sends.
* The recording of membership and compaction events: they rewrite the status as it is.
* Services, and what of the ConfigMap and the StatefulSet the nodes do not depend on: data
  that is created once, if absent.
* API types, deep copies, descriptors, accessors and stubs: declarations and generated code.
* The driver, which delegates to a client that is not in this repository; command lines,
  charts and CRDs.

Dragonboat, the primitives' state machine, Kubernetes, controller-runtime and gRPC are
external, modelled from how the code uses them.

Three details are left out because nothing here reaches them: a `NotFound` that ends the
recording of an event (`watcher.go` 409-411; no RaftMember is deleted while its cluster
is there), an update that the API server takes although its answer is lost, in `PodWatch`, and the
bits that a tenth byte of a varint has beyond 64, which no writer produces.

In `MemberLifecycle` each member has its own pod and the watch goroutine always
reconnects; `PodWatch` and `GroupBootstrap` are about when it is not so.

## Plan

1. Done: `Proposals`, `EventFanout`, `GroupStatus` with `LeaderRegister`, `MemberLifecycle` with `ClusterRequests`,
   `StorePipeline` with `Publication`, `GroupBootstrap`, `PodWatch`, and `Messages` with
   `NodeProtocol`, each with proofs.
2. A composition of `MemberLifecycle` and `GroupStatus` for one member, where leader events
   conflict with the reconciler.

The liveness and safety runs of a module share an instance where it stays small, so
that the whole suite can be run after each change; new modules keep to that.
