------------------------------- MODULE PodWatch -------------------------------
(***************************************************************************)
(* The controller's watches on the nodes: PodReconciler gives each pod of a  *)
(* store a finalizer, starts a goroutine that receives the node's events as   *)
(* long as the pod lives, and cancels it before it lets the pod go.  The      *)
(* watches are registered by the pod's address, which its successor in the    *)
(* StatefulSet has too.  A goroutine records the index of the latest snapshot  *)
(* in the status of its RaftMember (watcher.go).                             *)
(*                                                                          *)
(* One address, one RaftMember.  The reconciler reads from a cache that sees  *)
(* every version of the pod, late.  The recording of the other events is      *)
(* GroupStatus's and MemberLifecycle's subject.                              *)
(***************************************************************************)
EXTENDS Integers, Sequences, FiniteSets

CONSTANTS
  Goroutine,    \* identities of goroutines, used again when they have ended
  None,         \* no goroutine
  MaxPods,      \* bound: the pods that have the address, one after the other
  MaxTouches,   \* bound: changes of pod and RaftMember by other writers
  MaxFailures,  \* bound: streams and calls that fail, restarts of the controller
  MaxEvents,    \* bound: snapshot events that are received
  MaxIndex      \* bound: the indices of snapshots

ASSUME PodWatchAssumption ==
  /\ None \notin Goroutine /\ Goroutine # {}
  /\ {MaxPods, MaxTouches, MaxFailures, MaxEvents, MaxIndex} \subseteq Nat

VARIABLES
  pod,           \* the pod that has the address
  ahead,         \* its versions that the cache has not seen
  cached,        \* the version the cache has
  queued,        \* whether the work queue holds the pod
  run,           \* the reconciliation under way
  watchers,      \* the registered goroutine, or None
  goroutine,     \* the goroutines
  member,        \* the RaftMember: its version and LastSnapshotIndex, 0 for nil
  cachedMember,  \* the version the cache has
  recorded,      \* (history) the highest index whose recording has returned nil
  spent          \* what is spent of the bounds

podVars == <<pod, ahead, cached>>
watchVars == <<watchers, goroutine>>
memberVars == <<member, cachedMember, recorded>>
vars == <<podVars, queued, run, watchVars, memberVars, spent>>

Pod == [uid : 0..MaxPods, exists : BOOLEAN, finalizer : BOOLEAN, deleting : BOOLEAN, version : Nat]
Member == [version : Nat, index : 0..MaxIndex]

Idle == [stage |-> "idle"]
Stopped == [stage |-> "stopped"]
Run == {Idle} \cup [stage : {"add", "watch", "unwatch", "remove"}, copy : Pod]
GoroutineState ==
  {Stopped}
  \cup [stage : {"open", "receive", "fail", "end"}, uid : 1..MaxPods, cancelled : BOOLEAN]
  \cup [stage : {"get", "retry"}, uid : 1..MaxPods, cancelled : BOOLEAN, index : 0..MaxIndex]
  \cup [stage : {"update"}, uid : 1..MaxPods, cancelled : BOOLEAN, index : 0..MaxIndex, copy : Member]

Init ==
  /\ pod = [uid |-> 0, exists |-> FALSE, finalizer |-> FALSE, deleting |-> FALSE, version |-> 0]
  /\ ahead = <<>>
  /\ cached = pod
  /\ queued = FALSE
  /\ run = Idle
  /\ watchers = None
  /\ goroutine = [i \in Goroutine |-> Stopped]
  /\ member = [version |-> 0, index |-> 0]
  /\ cachedMember = member
  /\ recorded = 0
  /\ spent = [touches |-> 0, failures |-> 0, events |-> 0]

Spend(bound, max) == spent[bound] < max /\ spent' = [spent EXCEPT ![bound] = @ + 1]

-----------------------------------------------------------------------------
\* The pods, the API server and the cache

WritePod(new) ==
  /\ pod' = [new EXCEPT !.version = pod.version + 1]
  /\ ahead' = Append(ahead, pod')
  /\ UNCHANGED cached

CreatePod ==
  /\ ~pod.exists /\ pod.uid < MaxPods
  /\ WritePod([uid |-> pod.uid + 1, exists |-> TRUE, finalizer |-> FALSE, deleting |-> FALSE,
               version |-> pod.version])
  /\ UNCHANGED <<queued, run, watchVars, memberVars, spent>>

TouchPod ==
  /\ pod.exists
  /\ Spend("touches", MaxTouches)
  /\ WritePod(pod)
  /\ UNCHANGED <<queued, run, watchVars, memberVars>>

DeletePod ==
  /\ pod.exists /\ ~pod.deleting
  /\ WritePod([pod EXCEPT !.deleting = TRUE])
  /\ UNCHANGED <<queued, run, watchVars, memberVars, spent>>

\* A pod goes when nothing holds it.
Vanish ==
  /\ pod.exists /\ pod.deleting /\ ~pod.finalizer
  /\ WritePod([pod EXCEPT !.exists = FALSE])
  /\ UNCHANGED <<queued, run, watchVars, memberVars, spent>>

\* Every version the cache sees is an event that queues the pod.
SyncPod ==
  /\ ahead # <<>>
  /\ cached' = Head(ahead)
  /\ ahead' = Tail(ahead)
  /\ queued' = TRUE
  /\ UNCHANGED <<pod, run, watchVars, memberVars, spent>>

\* The informer's periodic resync.
Resync ==
  /\ cached.exists
  /\ queued' = TRUE
  /\ UNCHANGED <<podVars, run, watchVars, memberVars, spent>>

\* Another writer of the RaftMember's status.
TouchMember ==
  /\ Spend("touches", MaxTouches)
  /\ member' = [member EXCEPT !.version = @ + 1]
  /\ UNCHANGED <<podVars, queued, run, watchVars, cachedMember, recorded>>

SyncMember ==
  /\ cachedMember # member
  /\ cachedMember' = member
  /\ UNCHANGED <<podVars, queued, run, watchVars, member, recorded, spent>>

\* A new controller has an up-to-date cache, every pod queued, and no watches.
Restart ==
  /\ Spend("failures", MaxFailures)
  /\ cached' = pod /\ ahead' = <<>>
  /\ cachedMember' = member
  /\ queued' = pod.exists
  /\ run' = Idle
  /\ watchers' = None
  /\ goroutine' = [i \in Goroutine |-> Stopped]
  /\ UNCHANGED <<pod, member, recorded>>

-----------------------------------------------------------------------------
\* The reconciler

\* Variants that overlook the deletion, or let the pod go with its watch.
DeletionIgnored(p) ==
  CASE ~p.exists -> "idle"
    [] p.exists /\ ~p.finalizer -> "add"
    [] p.exists /\ p.finalizer -> "watch"
WatchKept(p) ==
  CASE ~p.exists -> "idle"
    [] p.exists /\ ~p.deleting /\ ~p.finalizer -> "add"
    [] p.exists /\ ~p.deleting /\ p.finalizer -> "watch"
    [] p.exists /\ p.deleting /\ p.finalizer -> "remove"
    [] p.exists /\ p.deleting /\ ~p.finalizer -> "idle"

\* Reconcile, reconcileCreate, reconcileDelete: what a run does for a version.
Stage(p) ==
  CASE ~p.exists -> "idle"
    [] p.exists /\ ~p.deleting /\ ~p.finalizer -> "add"
    [] p.exists /\ ~p.deleting /\ p.finalizer -> "watch"
    [] p.exists /\ p.deleting /\ p.finalizer -> "unwatch"
    [] p.exists /\ p.deleting /\ ~p.finalizer -> "idle"

Reconcile ==
  /\ queued /\ run = Idle
  /\ queued' = FALSE
  /\ run' = IF Stage(cached) = "idle" THEN Idle ELSE [stage |-> Stage(cached), copy |-> cached]
  /\ UNCHANGED <<podVars, watchVars, memberVars, spent>>

\* An Update succeeds for the current version; an error queues the pod again.
Update(finalizer) ==
  /\ run' = Idle
  /\ \/ /\ run.copy = pod
        /\ WritePod([pod EXCEPT !.finalizer = finalizer])
        /\ UNCHANGED <<queued, spent>>
     \/ /\ run.copy # pod
        /\ queued' = TRUE
        /\ UNCHANGED <<podVars, spent>>
     \/ /\ Spend("failures", MaxFailures)
        /\ queued' = TRUE
        /\ UNCHANGED podVars
  /\ UNCHANGED <<watchVars, memberVars>>

AddFinalizer == run.stage = "add" /\ Update(TRUE)
RemoveFinalizer == run.stage = "remove" /\ Update(FALSE)

Goes(i, new) == goroutine' = [goroutine EXCEPT ![i] = new]

watch ==
  /\ run.stage = "watch"
  /\ run' = Idle
  /\ \/ /\ watchers # None
        /\ UNCHANGED watchVars
     \/ /\ watchers = None
        /\ LET i == CHOOSE i \in Goroutine : goroutine[i] = Stopped
           IN /\ watchers' = i
              /\ Goes(i, [stage |-> "open", uid |-> run.copy.uid, cancelled |-> FALSE])
  /\ UNCHANGED <<podVars, queued, memberVars, spent>>

\* The registered goroutine is cancelled; the registration is its own to end.
Cancelled == IF watchers = None THEN goroutine ELSE [goroutine EXCEPT ![watchers].cancelled = TRUE]

\* A variant that frees the address at once.
UnwatchFrees ==
  /\ run.stage = "unwatch"
  /\ run' = [run EXCEPT !.stage = "remove"]
  /\ goroutine' = Cancelled
  /\ watchers' = None
  /\ UNCHANGED <<podVars, queued, memberVars, spent>>

unwatch ==
  /\ run.stage = "unwatch"
  /\ run' = [run EXCEPT !.stage = "remove"]
  /\ goroutine' = Cancelled
  /\ UNCHANGED <<podVars, queued, watchers, memberVars, spent>>

-----------------------------------------------------------------------------
\* A goroutine

To(i, stage) == [stage |-> stage, uid |-> goroutine[i].uid, cancelled |-> goroutine[i].cancelled]
otherVars == <<podVars, queued, run, watchers>>

\* Dial and client.Watch, which fail with a cancelled context.
Open(i) ==
  /\ goroutine[i].stage = "open"
  /\ \/ ~goroutine[i].cancelled /\ Goes(i, To(i, "receive")) /\ UNCHANGED spent
     \/ goroutine[i].cancelled /\ Goes(i, To(i, "end")) /\ UNCHANGED spent
     \/ Spend("failures", MaxFailures) /\ Goes(i, To(i, "end"))
  /\ UNCHANGED <<otherVars, memberVars>>

\* Recv: a snapshot event of any kind.  While the stream is broken and retried
\* events are lost, and not received here.
Receive(i) ==
  /\ goroutine[i].stage = "receive"
  /\ Spend("events", MaxEvents)
  /\ \E index \in 0..MaxIndex :
       Goes(i, [stage |-> "get", uid |-> goroutine[i].uid, cancelled |-> goroutine[i].cancelled, index |-> index])
  /\ UNCHANGED <<otherVars, memberVars>>

\* Recv: the end of the stream, or a cancellation.
ReceiveEnd(i) ==
  /\ goroutine[i].stage \in {"receive", "fail"}
  /\ \/ goroutine[i].cancelled /\ UNCHANGED spent
     \/ Spend("failures", MaxFailures)
  /\ Goes(i, To(i, "end"))
  /\ UNCHANGED <<otherVars, memberVars>>

\* Recv: any other error.  The loop goes on on a stream that has failed, which
\* may say so for ever, even to a cancelled caller.
ReceiveError(i) ==
  /\ goroutine[i].stage = "receive"
  /\ Spend("failures", MaxFailures)
  /\ Goes(i, To(i, "fail"))
  /\ UNCHANGED <<otherVars, memberVars>>

\* tryRecordMemberEvent: a copy from the cache, and what the updater makes of it.
Newer(index, status) == index > 0 /\ index > status.index

Higher(a, b) == IF a > b THEN a ELSE b

Get(i) ==
  /\ goroutine[i].stage = "get"
  /\ LET index == goroutine[i].index
     IN IF Newer(index, cachedMember)
        THEN /\ Goes(i, [stage |-> "update", uid |-> goroutine[i].uid, cancelled |-> goroutine[i].cancelled,
                         index |-> index, copy |-> cachedMember])
             /\ UNCHANGED recorded
        ELSE /\ Goes(i, To(i, "receive"))
             /\ recorded' = Higher(recorded, index)
  /\ UNCHANGED <<otherVars, member, cachedMember, spent>>

\* A variant without the API server's check of the version.
AnyVersion(i) == ~goroutine[i].cancelled

\* Status().Update, which fails with a stale copy or a cancelled context.
Accepted(i) == goroutine[i].copy = member /\ ~goroutine[i].cancelled

UpdateMember(i) ==
  /\ goroutine[i].stage = "update"
  /\ Accepted(i)
  /\ member' = [version |-> goroutine[i].copy.version + 1, index |-> goroutine[i].index]
  /\ recorded' = Higher(recorded, goroutine[i].index)
  /\ Goes(i, To(i, "receive"))
  /\ UNCHANGED <<otherVars, cachedMember, spent>>

\* backoff.Retry calls again on an error, until it gives up after fifteen minutes.
UpdateFails(i) ==
  /\ goroutine[i].stage = "update"
  /\ \/ ~Accepted(i) /\ UNCHANGED spent
     \/ Spend("failures", MaxFailures)
  /\ Goes(i, [stage |-> "retry", uid |-> goroutine[i].uid, cancelled |-> goroutine[i].cancelled,
              index |-> goroutine[i].index])
  /\ UNCHANGED <<otherVars, memberVars>>

Retry(i) ==
  /\ goroutine[i].stage = "retry"
  /\ Goes(i, [goroutine[i] EXCEPT !.stage = "get"])
  /\ UNCHANGED <<otherVars, memberVars, spent>>

GiveUp(i) ==
  /\ goroutine[i].stage = "retry"
  /\ Goes(i, To(i, "receive"))
  /\ UNCHANGED <<otherVars, memberVars, spent>>

\* A variant that does not free the address.
EndRegistered(i) ==
  /\ goroutine[i].stage = "end"
  /\ Goes(i, Stopped)
  /\ UNCHANGED <<otherVars, memberVars, spent>>

\* The deferred function: the address is free again, whoever registered it.
End(i) ==
  /\ goroutine[i].stage = "end"
  /\ Goes(i, Stopped)
  /\ watchers' = None
  /\ UNCHANGED <<podVars, queued, run, memberVars, spent>>

Works(i) == Open(i) \/ Get(i) \/ UpdateMember(i) \/ UpdateFails(i) \/ Retry(i) \/ End(i)

Next ==
  \/ CreatePod \/ TouchPod \/ DeletePod \/ Vanish \/ SyncPod \/ Resync
  \/ TouchMember \/ SyncMember \/ Restart
  \/ Reconcile \/ AddFinalizer \/ RemoveFinalizer \/ watch \/ unwatch
  \/ \E i \in Goroutine :
       \/ Works(i) \/ GiveUp(i)
       \/ Receive(i) \/ ReceiveEnd(i) \/ ReceiveError(i)

Spec == Init /\ [][Next]_vars

\* Processes go on and caches catch up.  A cancelled stream that has not failed
\* says so.  A retry that goes on gives up in the end.
Fairness ==
  /\ WF_vars(Vanish) /\ WF_vars(SyncPod) /\ WF_vars(Resync) /\ WF_vars(SyncMember)
  /\ WF_vars(Reconcile \/ AddFinalizer \/ RemoveFinalizer \/ watch \/ unwatch)
  /\ WF_vars(\E i \in Goroutine : Works(i))
  /\ SF_vars(\E i \in Goroutine : GiveUp(i))
  /\ WF_vars(\E i \in Goroutine : goroutine[i].stage = "receive" /\ goroutine[i].cancelled /\ ReceiveEnd(i))

FairSpec == Spec /\ Fairness

-----------------------------------------------------------------------------
\* Properties

Running(i) == goroutine[i] # Stopped

TypeOK ==
  /\ {pod, cached} \subseteq Pod
  /\ ahead \in Seq(Pod)
  /\ queued \in BOOLEAN
  /\ run \in Run
  /\ watchers \in Goroutine \cup {None}
  /\ goroutine \in [Goroutine -> GoroutineState]
  /\ {member, cachedMember} \subseteq Member
  /\ recorded \in 0..MaxIndex

\* A goroutine that runs is the registered one, so that no two record the same
\* events, and none ends the registration of another when it ends.
OneWatch == \A i \in Goroutine : Running(i) => watchers = i

\* A pod is let go only after its watch was cancelled: none goes on for a pod that
\* is gone.  And it is cancelled for no other reason: late views of a pod never
\* cancel its successor's watch.
CancelledWithItsPod ==
  \A i \in Goroutine :
    Running(i) =>
      IF goroutine[i].cancelled
      THEN goroutine[i].uid < pod.uid \/ ~pod.exists \/ pod.deleting
      ELSE pod.exists /\ goroutine[i].uid = pod.uid /\ pod.finalizer

\* A snapshot whose recording returned nil is on record, or a later one is, and
\* stays so, past stale reads, conflicts, other writers and events out of order.
NoRecordLost == member.index >= recorded

\* The inductive invariant of these.  The cache is behind, but in order; of a
\* version it has, something stays true of the pod.
InOrder(v, w) == v.version < w.version /\ v.uid <= w.uid
AheadInOrder ==
  /\ IF ahead = <<>> THEN cached = pod ELSE ahead[Len(ahead)] = pod
  /\ \A j \in DOMAIN ahead : InOrder(cached, ahead[j])
  /\ \A j, k \in DOMAIN ahead : j < k => InOrder(ahead[j], ahead[k])

TrueOf(v, p) ==
  /\ v.uid <= p.uid
  /\ v.exists => v.uid > 0
  /\ v.exists /\ v.finalizer /\ ~v.deleting => p.exists /\ p.uid = v.uid /\ p.finalizer
  /\ v.deleting /\ p.uid = v.uid => p.deleting
ViewsHold == TrueOf(cached, pod) /\ \A j \in DOMAIN ahead : TrueOf(ahead[j], pod)

\* A run's copy is one the cache has had, no later than which the watches began.
RunFollows ==
  run # Idle =>
    /\ run.copy.version <= cached.version /\ run.copy.uid <= cached.uid
    /\ TrueOf(run.copy, pod)
    /\ run.copy.exists
    /\ run.copy.finalizer <=> run.stage # "add"
    /\ run.copy.deleting <=> run.stage \in {"unwatch", "remove"}
    /\ \A i \in Goroutine :
         Running(i) => /\ goroutine[i].uid <= run.copy.uid
                       /\ run.stage = "remove" => goroutine[i].cancelled

WatchesFollow ==
  /\ watchers # None => Running(watchers)
  /\ \A i \in Goroutine : Running(i) => goroutine[i].uid <= cached.uid
  /\ \A i \in Goroutine : goroutine[i].stage = "update" => goroutine[i].index > goroutine[i].copy.index
  /\ cachedMember.index <= member.index

IInv == TypeOK /\ OneWatch /\ CancelledWithItsPod /\ NoRecordLost
        /\ AheadInOrder /\ ViewsHold /\ RunFollows /\ WatchesFollow

\* A pod that stays is watched in the end and from then on, past streams that
\* end, a predecessor's watch that still holds the address, and restarts, unless
\* a stream fails in a way that keeps the goroutine in its loop.
Watched ==
  \E i \in Goroutine :
    Running(i) /\ goroutine[i].uid = pod.uid /\ ~goroutine[i].cancelled /\ goroutine[i].stage # "end"
Failing == \E i \in Goroutine : goroutine[i].stage = "fail"
EveryPodWatched == <>[](pod.exists /\ ~pod.deleting) => <>[]Watched \/ <>[]Failing

\* The finalizer does not keep a pod that is deleted.
PodsGo == pod.exists /\ pod.deleting ~> ~pod.exists
=============================================================================
