--------------------------- MODULE PodWatchProofs ---------------------------
(***************************************************************************)
(* Proofs about PodWatch, for any set of goroutines and all bounds.  IInv is *)
(* the inductive invariant.  What a cached version says of the pod outlives   *)
(* it as far as TrueOf goes; the steps that write the pod keep that, as does   *)
(* the reconciler's removal of the finalizer, which only succeeds when the     *)
(* cache has caught up.                                                       *)
(***************************************************************************)
EXTENDS PodWatch, TLAPS

-----------------------------------------------------------------------------
\* Types

\* What the state of a goroutine has in each stage.
LEMMA StateFields ==
  ASSUME NEW w \in GoroutineState
  PROVE /\ w.stage = "stopped" <=> w = Stopped
        /\ w # Stopped => w.uid \in 1..MaxPods /\ w.cancelled \in BOOLEAN
        /\ w.stage \in {"get", "retry", "update"} => w.index \in 0..MaxIndex
        /\ w.stage = "update" => w.copy \in Member
BY DEF GoroutineState, Stopped

\* A run that is under way has a copy.
LEMMA RunFields ==
  ASSUME NEW r \in Run
  PROVE /\ r.stage = "idle" <=> r = Idle
        /\ r # Idle => r.copy \in Pod /\ r = [stage |-> r.stage, copy |-> r.copy]
BY DEF Run, Idle

-----------------------------------------------------------------------------
\* Versions of the pod

\* A write of the pod keeps the views in order, if what they say stays true.
LEMMA WriteStep ==
  ASSUME TypeOK, AheadInOrder, NEW new, WritePod(new),
         pod' \in Pod, InOrder(pod, pod'),
         TrueOf(cached, pod'), TrueOf(pod', pod'),
         \A j \in DOMAIN ahead : TrueOf(ahead[j], pod')
  PROVE /\ cached' = cached /\ ahead' \in Seq(Pod) /\ cached' \in Pod
        /\ AheadInOrder' /\ ViewsHold'
<1> DEFINE n == Len(ahead)
<1>1. /\ cached \in Pod /\ ahead \in Seq(Pod) /\ pod \in Pod
      /\ n \in Nat /\ DOMAIN ahead = 1..n /\ \A j \in 1..n : ahead[j] \in Pod
      BY DEF TypeOK
<1>2. cached' = cached /\ ahead' = Append(ahead, pod')
      BY DEF WritePod
<1>3. /\ ahead' \in Seq(Pod) /\ Len(ahead') = n + 1 /\ DOMAIN ahead' = 1..(n + 1)
      /\ ahead' # <<>>
      /\ ahead'[n + 1] = pod' /\ \A j \in 1..n : ahead'[j] = ahead[j]
      BY <1>1, <1>2
<1>4. \A v, w, x \in Pod : InOrder(v, w) /\ InOrder(w, x) => InOrder(v, x)
      BY DEF InOrder, Pod
<1>5. InOrder(cached, pod')
  <2>1. CASE ahead = <<>>
        BY <2>1 DEF AheadInOrder
  <2>2. CASE ahead # <<>>
        BY <2>2, <1>1, <1>4 DEF AheadInOrder
  <2> QED
      BY <2>1, <2>2
<1>6. \A j \in 1..n : InOrder(ahead[j], pod')
  <2> SUFFICES ASSUME NEW j \in 1..n PROVE InOrder(ahead[j], pod')
      OBVIOUS
  <2>1. n \in 1..n /\ ahead # <<>> /\ ahead[n] = pod
        BY <1>1 DEF AheadInOrder
  <2>2. CASE j = n
        BY <2>1, <2>2
  <2>3. CASE j < n
        BY <2>1, <2>3, <1>1, <1>4 DEF AheadInOrder
  <2>4. n \in Nat
        BY <1>1
  <2>5. j = n \/ j < n
    <3> HIDE DEF n
    <3> QED
        BY <2>4
  <2> QED
      BY <2>2, <2>3, <2>5
<1> HIDE DEF n
<1>7. AheadInOrder'
  <2>1. \A j \in DOMAIN ahead' : InOrder(cached', ahead'[j])
    <3> SUFFICES ASSUME NEW j \in 1..(n + 1) PROVE InOrder(cached, ahead'[j])
        BY <1>2, <1>3
    <3>1. CASE j \in 1..n
          BY <3>1, <1>1, <1>3 DEF AheadInOrder
    <3>2. CASE j = n + 1
          BY <3>2, <1>3, <1>5
    <3> QED
        BY <1>1, <3>1, <3>2
  <2>2. \A j, k \in DOMAIN ahead' : j < k => InOrder(ahead'[j], ahead'[k])
    <3> SUFFICES ASSUME NEW j \in 1..(n + 1), NEW k \in 1..(n + 1), j < k
                 PROVE InOrder(ahead'[j], ahead'[k])
        BY <1>3
    <3>1. j \in 1..n
          BY <1>1
    <3>2. CASE k \in 1..n
          BY <3>1, <3>2, <1>1, <1>3 DEF AheadInOrder
    <3>3. CASE k = n + 1
          BY <3>1, <3>3, <1>3, <1>6
    <3> QED
        BY <1>1, <3>2, <3>3
  <2>3. ahead'[Len(ahead')] = pod'
        BY <1>3
  <2> QED
      BY <1>3, <2>1, <2>2, <2>3 DEF AheadInOrder
<1>8. ViewsHold'
  <2> SUFFICES ASSUME NEW j \in 1..(n + 1) PROVE TrueOf(ahead'[j], pod')
      BY <1>2, <1>3 DEF ViewsHold
  <2>1. CASE j \in 1..n
        BY <2>1, <1>1, <1>3
  <2>2. CASE j = n + 1
        BY <2>2, <1>3
  <2> QED
      BY <1>1, <2>1, <2>2
<1> QED
    BY <1>1, <1>2, <1>3, <1>7, <1>8

\* A copy that is the current version was the last one: the cache has it, too.
LEMMA CaughtUp ==
  ASSUME TypeOK, AheadInOrder, RunFollows, run # Idle, run.copy = pod
  PROVE cached = pod /\ ahead = <<>>
<1>1. cached \in Pod /\ ahead \in Seq(Pod) /\ pod \in Pod /\ pod.version <= cached.version
      BY DEF TypeOK, RunFollows
<1>2. ahead # <<>> => FALSE
  <2> SUFFICES ASSUME ahead # <<>> PROVE FALSE
      OBVIOUS
  <2>1. Len(ahead) \in DOMAIN ahead
        BY <1>1
  <2>2. cached.version < pod.version
        BY <2>1 DEF AheadInOrder, InOrder
  <2> QED
      BY <1>1, <2>2 DEF Pod
<1> QED
    BY <1>2 DEF AheadInOrder

\* The cache takes the next version.
LEMMA SyncStep ==
  ASSUME TypeOK, AheadInOrder, ViewsHold, ahead # <<>>,
         cached' = Head(ahead), ahead' = Tail(ahead), UNCHANGED pod
  PROVE /\ cached' \in Pod /\ ahead' \in Seq(Pod)
        /\ InOrder(cached, cached')
        /\ AheadInOrder' /\ ViewsHold'
<1> DEFINE n == Len(ahead)
<1>1. /\ ahead \in Seq(Pod) /\ n \in Nat \ {0} /\ DOMAIN ahead = 1..n
      /\ \A j \in 1..n : ahead[j] \in Pod
      BY DEF TypeOK
<1>2. /\ cached' = ahead[1] /\ ahead' \in Seq(Pod) /\ Len(ahead') = n - 1
      /\ DOMAIN ahead' = 1..(n - 1)
      /\ \A j \in 1..(n - 1) : ahead'[j] = ahead[j + 1]
      BY <1>1
<1>3. n \in Nat \ {0}
      BY <1>1
<1>4. n \in 1..n /\ ahead[n] = pod
      BY <1>1 DEF AheadInOrder
<1>5. ahead' = <<>> <=> n = 1
      BY <1>1, <1>2
<1>6. \A j, k \in 1..n : j < k => InOrder(ahead[j], ahead[k])
      BY <1>1 DEF AheadInOrder
<1>7. \A j \in 1..n : InOrder(cached, ahead[j]) /\ TrueOf(ahead[j], pod)
      BY <1>1 DEF AheadInOrder, ViewsHold
<1>8. 1 \in 1..n /\ cached' \in Pod
      BY <1>1, <1>2
<1> HIDE DEF n
<1>9. AheadInOrder'
  <2>1. IF ahead' = <<>> THEN cached' = pod' ELSE ahead'[Len(ahead')] = pod'
    <3>1. CASE n = 1
          BY <3>1, <1>2, <1>4, <1>5
    <3>2. CASE n # 1
      <4>1. n - 1 \in 1..(n - 1) /\ (n - 1) + 1 = n
            BY <3>2, <1>3
      <4> QED
          BY <3>2, <4>1, <1>2, <1>4, <1>5
    <3> QED
        BY <3>1, <3>2
  <2>2. \A j \in DOMAIN ahead' : InOrder(cached', ahead'[j])
    <3> SUFFICES ASSUME NEW j \in 1..(n - 1) PROVE InOrder(ahead[1], ahead[j + 1])
        BY <1>2
    <3> QED
        BY <1>3, <1>6
  <2>3. \A j, k \in DOMAIN ahead' : j < k => InOrder(ahead'[j], ahead'[k])
    <3> SUFFICES ASSUME NEW j \in 1..(n - 1), NEW k \in 1..(n - 1), j < k
                 PROVE InOrder(ahead[j + 1], ahead[k + 1])
        BY <1>2
    <3> QED
        BY <1>3, <1>6
  <2> QED
      BY <2>1, <2>2, <2>3 DEF AheadInOrder
<1>10. ViewsHold'
  <2> SUFFICES ASSUME NEW j \in 1..(n - 1) PROVE TrueOf(ahead[j + 1], pod)
      BY <1>2, <1>7, <1>8 DEF ViewsHold
  <2>1. j + 1 \in 1..n
        BY <1>3
  <2> QED
      BY <1>7, <2>1
<1> QED
    BY <1>2, <1>7, <1>8, <1>9, <1>10

\* What a write leaves of the version that is written.
LEMMA Written ==
  ASSUME pod \in Pod, NEW new \in Pod, WritePod(new)
  PROVE /\ pod' \in Pod /\ pod'.version = pod.version + 1
        /\ pod'.uid = new.uid /\ pod'.exists = new.exists
        /\ pod'.finalizer = new.finalizer /\ pod'.deleting = new.deleting
BY DEF Pod, WritePod

\* The pod is one of its views.
LEMMA PodTrue ==
  ASSUME TypeOK, AheadInOrder, ViewsHold
  PROVE pod \in Pod /\ TrueOf(pod, pod)
<1>1. CASE ahead = <<>>
      BY <1>1 DEF TypeOK, AheadInOrder, ViewsHold
<1>2. CASE ahead # <<>>
  <2>1. Len(ahead) \in DOMAIN ahead
        BY <1>2 DEF TypeOK
  <2> QED
      BY <1>2, <2>1 DEF TypeOK, AheadInOrder, ViewsHold
<1> QED
    BY <1>1, <1>2

-----------------------------------------------------------------------------
\* The invariant

LEMMA InitIInv == Init => IInv
<1> SUFFICES ASSUME Init PROVE IInv
    OBVIOUS
<1>1. /\ pod \in Pod /\ cached = pod /\ ahead = <<>> /\ pod.uid = 0 /\ ~pod.exists /\ ~pod.deleting
      /\ member \in Member /\ cachedMember = member /\ member.index = 0
      BY PodWatchAssumption DEF Init, Pod, Member
<1>2. \A i \in Goroutine : goroutine[i] = Stopped /\ goroutine[i].stage = "stopped"
      BY DEF Init, Stopped
<1>3. TypeOK
  <2>1. goroutine \in [Goroutine -> GoroutineState]
        BY DEF Init, GoroutineState
  <2>2. ahead \in Seq(Pod) /\ recorded \in 0..MaxIndex /\ run \in Run
        BY <1>1, PodWatchAssumption DEF Init, Run
  <2> QED
      BY <1>1, <2>1, <2>2 DEF Init, TypeOK
<1>4. OneWatch /\ CancelledWithItsPod /\ WatchesFollow
      BY <1>1, <1>2 DEF Init, OneWatch, CancelledWithItsPod, WatchesFollow, Running
<1>5. NoRecordLost /\ RunFollows
      BY <1>1 DEF Init, NoRecordLost, RunFollows
<1>6. AheadInOrder /\ ViewsHold
      BY <1>1 DEF AheadInOrder, ViewsHold, TrueOf
<1> QED
    BY <1>3, <1>4, <1>5, <1>6 DEF IInv

\* What of the invariant does not speak of the pod's versions, or of a run that
\* goes on or ends, stays as it is.
LEMMA PodStep ==
  ASSUME IInv, NEW new \in Pod, WritePod(new),
         new.uid >= pod.uid, new.exists => new.uid > 0,
         \A v \in Pod : TrueOf(v, pod) => TrueOf(v, new),
         run' = run \/ run' = Idle, queued' \in BOOLEAN,
         UNCHANGED <<watchVars, memberVars>>,
         CancelledWithItsPod'
  PROVE IInv'
<1>1. pod \in Pod /\ pod' \in Pod /\ InOrder(pod, pod') /\ TrueOf(pod', pod')
      BY Written DEF IInv, TypeOK, InOrder, TrueOf, Pod
<1>2. \A v \in Pod : TrueOf(v, pod) => TrueOf(v, pod')
      BY Written DEF IInv, TypeOK, TrueOf
<1>3. TrueOf(cached, pod') /\ \A j \in DOMAIN ahead : TrueOf(ahead[j], pod')
  <2>1. cached \in Pod /\ \A j \in DOMAIN ahead : ahead[j] \in Pod
        BY DEF IInv, TypeOK
  <2> QED
      BY <1>2, <2>1 DEF IInv, ViewsHold
<1>4. cached' = cached /\ ahead' \in Seq(Pod) /\ AheadInOrder' /\ ViewsHold'
      BY <1>1, <1>3, WriteStep DEF IInv
<1>5. TypeOK'
      BY <1>1, <1>4 DEF IInv, TypeOK, Run, watchVars, memberVars
<1>6. OneWatch' /\ WatchesFollow' /\ NoRecordLost'
      BY <1>4 DEF IInv, OneWatch, WatchesFollow, NoRecordLost, Running, watchVars, memberVars
<1>7. RunFollows'
  <2> SUFFICES ASSUME run' = run, run # Idle PROVE RunFollows'
      BY DEF RunFollows
  <2>1. run.copy \in Pod
        BY RunFields DEF IInv, TypeOK
  <2>2. TrueOf(run.copy, pod')
        BY <1>2, <2>1 DEF IInv, RunFollows
  <2> QED
      BY <1>4, <2>2 DEF IInv, RunFollows, Running, watchVars
<1> QED
    BY <1>4, <1>5, <1>6, <1>7 DEF IInv

LEMMA CreatePodStep == ASSUME IInv, CreatePod PROVE IInv'
<1> DEFINE new == [uid |-> pod.uid + 1, exists |-> TRUE, finalizer |-> FALSE, deleting |-> FALSE,
                   version |-> pod.version]
<1>1. pod \in Pod /\ pod.uid \in 0..MaxPods /\ ~pod.exists /\ pod.uid < MaxPods /\ WritePod(new)
      BY DEF IInv, TypeOK, CreatePod, Pod
<1>2. new \in Pod /\ new.uid = pod.uid + 1 /\ new.exists /\ ~new.deleting
  <2>1. pod.uid + 1 \in 0..MaxPods
        BY <1>1, PodWatchAssumption
  <2> QED
      BY <1>1, <2>1 DEF Pod
<1>3. pod'.uid = pod.uid + 1 /\ pod'.exists /\ ~pod'.deleting
      BY <1>1, <1>2, Written
<1> HIDE DEF new
<1>4. \A v \in Pod : TrueOf(v, pod) => TrueOf(v, new)
      BY <1>1, <1>2 DEF TrueOf, Pod
<1>5. CancelledWithItsPod'
  <2> SUFFICES ASSUME NEW i \in Goroutine, Running(i)
               PROVE goroutine[i].cancelled /\ goroutine[i].uid < pod'.uid
      BY DEF CreatePod, CancelledWithItsPod, Running, watchVars
  <2>1. goroutine[i].cancelled
        BY <1>1 DEF IInv, CancelledWithItsPod
  <2>2. goroutine[i].uid \in Nat /\ cached.uid \in Nat /\ goroutine[i].uid <= cached.uid /\ cached.uid <= pod.uid
        BY StateFields, PodWatchAssumption DEF IInv, TypeOK, Pod, Running, WatchesFollow, ViewsHold, TrueOf
  <2> QED
      BY <1>1, <1>3, <2>1, <2>2
<1> QED
    BY <1>1, <1>2, <1>4, <1>5, PodStep DEF CreatePod, IInv, TypeOK

LEMMA TouchPodStep == ASSUME IInv, TouchPod PROVE IInv'
<1>1. pod \in Pod /\ TrueOf(pod, pod) /\ pod.uid \in Nat
      BY PodTrue DEF IInv, Pod
<1>2. CancelledWithItsPod'
      BY <1>1, Written DEF IInv, TouchPod, CancelledWithItsPod, Running, watchVars
<1> QED
    BY <1>1, <1>2, PodStep DEF TouchPod, TrueOf, IInv, TypeOK

LEMMA DeletePodStep == ASSUME IInv, DeletePod PROVE IInv'
<1> DEFINE new == [pod EXCEPT !.deleting = TRUE]
<1>1. pod \in Pod /\ TrueOf(pod, pod) /\ pod.uid \in Nat /\ pod.exists
      BY PodTrue DEF IInv, DeletePod, Pod
<1>2. /\ new \in Pod /\ new.uid = pod.uid /\ new.exists = pod.exists /\ new.deleting
      /\ new.finalizer = pod.finalizer
      BY <1>1 DEF Pod
<1> HIDE DEF new
<1>3. \A v \in Pod : TrueOf(v, pod) => TrueOf(v, new)
      BY <1>1, <1>2 DEF TrueOf
<1>4. WritePod(new)
      BY DEF DeletePod, new
<1>5. CancelledWithItsPod'
      BY <1>1, <1>2, <1>4, Written DEF IInv, DeletePod, CancelledWithItsPod, Running, watchVars
<1> QED
    BY <1>1, <1>2, <1>3, <1>4, <1>5, PodStep DEF DeletePod, TrueOf, IInv, TypeOK

\* No pod that goes has a finalizer, so that none of its watches is alive.
LEMMA VanishStep == ASSUME IInv, Vanish PROVE IInv'
<1> DEFINE new == [pod EXCEPT !.exists = FALSE]
<1>1. pod \in Pod /\ pod.uid \in Nat /\ ~pod.finalizer
      BY DEF IInv, TypeOK, Vanish, Pod
<1>2. /\ new \in Pod /\ new.uid = pod.uid /\ ~new.exists /\ new.deleting = pod.deleting
      BY <1>1 DEF Pod
<1> HIDE DEF new
<1>3. \A v \in Pod : TrueOf(v, pod) => TrueOf(v, new)
      BY <1>1, <1>2 DEF TrueOf
<1>4. WritePod(new)
      BY DEF Vanish, new
<1>5. CancelledWithItsPod'
      BY <1>1, <1>2, <1>4, Written DEF IInv, Vanish, CancelledWithItsPod, Running, watchVars
<1> QED
    BY <1>1, <1>2, <1>3, <1>4, <1>5, PodStep DEF Vanish, IInv, TypeOK

\* Steps that move neither the pod nor the watches.
LEMMA QueueStep ==
  ASSUME IInv, UNCHANGED <<podVars, watchVars, memberVars>>, queued' \in BOOLEAN,
         run' = run \/ run' = Idle
  PROVE IInv'
<1>1. TypeOK'
      BY DEF IInv, TypeOK, Run, podVars, watchVars, memberVars
<1>2. OneWatch' /\ CancelledWithItsPod' /\ NoRecordLost' /\ WatchesFollow'
      BY DEF IInv, OneWatch, CancelledWithItsPod, NoRecordLost, WatchesFollow, Running,
             podVars, watchVars, memberVars
<1>3. AheadInOrder' /\ ViewsHold'
      BY DEF IInv, AheadInOrder, ViewsHold, podVars
<1>4. RunFollows'
      BY DEF IInv, RunFollows, Running, podVars, watchVars
<1> QED
    BY <1>1, <1>2, <1>3, <1>4 DEF IInv

LEMMA SyncPodStep == ASSUME IInv, SyncPod PROVE IInv'
<1>1. /\ cached' \in Pod /\ ahead' \in Seq(Pod) /\ AheadInOrder' /\ ViewsHold'
      /\ InOrder(cached, cached')
      BY SyncStep DEF IInv, SyncPod
<1>2. TypeOK'
      BY <1>1 DEF IInv, TypeOK, SyncPod, watchVars, memberVars
<1>3. /\ cached \in Pod /\ cached.version <= cached'.version /\ cached.uid <= cached'.uid
      /\ \A n \in Nat : /\ n <= cached.version => n <= cached'.version
                        /\ n <= cached.uid => n <= cached'.uid
      BY <1>1 DEF InOrder, IInv, TypeOK, Pod
<1>4. OneWatch' /\ CancelledWithItsPod' /\ NoRecordLost'
      BY DEF IInv, OneWatch, CancelledWithItsPod, NoRecordLost, Running, SyncPod,
             watchVars, memberVars
<1>5. WatchesFollow'
  <2>1. \A i \in Goroutine : Running(i) => goroutine[i].uid \in Nat
        BY StateFields DEF IInv, TypeOK, Running
  <2> QED
      BY <1>3, <2>1 DEF IInv, WatchesFollow, Running, SyncPod, watchVars, memberVars
<1>6. RunFollows'
  <2>1. run # Idle => run.copy.version \in Nat /\ run.copy.uid \in Nat
        BY RunFields DEF IInv, TypeOK, Pod
  <2> QED
      BY <1>3, <2>1 DEF IInv, RunFollows, Running, SyncPod, watchVars
<1> QED
    BY <1>1, <1>2, <1>4, <1>5, <1>6 DEF IInv

LEMMA TouchMemberStep == ASSUME IInv, TouchMember \/ SyncMember PROVE IInv'
<1>1. {member', cachedMember'} \subseteq Member /\ cachedMember'.index <= member'.index
      /\ member'.index = member.index /\ recorded' = recorded
      BY DEF IInv, TypeOK, WatchesFollow, TouchMember, SyncMember, Member
<1>2. UNCHANGED <<podVars, queued, run, watchVars>>
      BY DEF TouchMember, SyncMember
<1>3. TypeOK'
      BY <1>1, <1>2 DEF IInv, TypeOK, podVars, watchVars
<1>4. OneWatch' /\ CancelledWithItsPod' /\ NoRecordLost' /\ WatchesFollow'
      BY <1>1, <1>2 DEF IInv, OneWatch, CancelledWithItsPod, NoRecordLost, WatchesFollow,
                        Running, podVars, watchVars
<1>5. AheadInOrder' /\ ViewsHold'
      BY <1>2 DEF IInv, AheadInOrder, ViewsHold, podVars
<1>6. RunFollows'
      BY <1>2 DEF IInv, RunFollows, Running, podVars, watchVars
<1> QED
    BY <1>3, <1>4, <1>5, <1>6 DEF IInv

LEMMA RestartStep == ASSUME IInv, Restart PROVE IInv'
<1>1. /\ pod \in Pod /\ pod' = pod /\ cached' = pod /\ ahead' = <<>> /\ run' = Idle /\ TrueOf(pod, pod)
      /\ watchers' = None /\ member \in Member /\ member' = member /\ cachedMember' = member
      /\ recorded' = recorded
      BY PodTrue DEF IInv, TypeOK, Restart
<1>2. /\ goroutine' \in [Goroutine -> GoroutineState]
      /\ \A i \in Goroutine : goroutine'[i] = Stopped /\ goroutine'[i].stage = "stopped"
      BY DEF Restart, GoroutineState, Stopped
<1>3. TypeOK'
      BY <1>1, <1>2 DEF IInv, TypeOK, Run, Restart, Pod
<1>4. OneWatch' /\ CancelledWithItsPod' /\ NoRecordLost' /\ WatchesFollow'
      BY <1>1, <1>2 DEF IInv, OneWatch, CancelledWithItsPod, NoRecordLost, WatchesFollow,
                        Running, Member
<1>5. AheadInOrder' /\ ViewsHold' /\ RunFollows'
      BY <1>1 DEF AheadInOrder, ViewsHold, RunFollows
<1> QED
    BY <1>3, <1>4, <1>5 DEF IInv

-----------------------------------------------------------------------------
\* The reconciler

LEMMA ReconcileStep == ASSUME IInv, Reconcile PROVE IInv'
<1>1. CASE Stage(cached) = "idle"
      BY <1>1, QueueStep DEF Reconcile
<1>2. CASE Stage(cached) # "idle"
  <2>1. /\ cached \in Pod /\ run' = [stage |-> Stage(cached), copy |-> cached] /\ run' # Idle
        /\ run'.stage = Stage(cached) /\ run'.copy = cached
        BY <1>2 DEF Reconcile, IInv, TypeOK, Idle
  <2>2. /\ cached.exists /\ Stage(cached) \in {"add", "watch", "unwatch"}
        /\ cached.finalizer <=> Stage(cached) # "add"
        /\ cached.deleting <=> Stage(cached) = "unwatch"
        BY <1>2, <2>1 DEF Stage, Pod
  <2>3. TypeOK'
        BY <2>1, <2>2 DEF IInv, TypeOK, Run, Reconcile, podVars, watchVars, memberVars
  <2>4. OneWatch' /\ CancelledWithItsPod' /\ NoRecordLost' /\ WatchesFollow'
        BY DEF IInv, OneWatch, CancelledWithItsPod, NoRecordLost, WatchesFollow, Running,
               Reconcile, podVars, watchVars, memberVars
  <2>5. AheadInOrder' /\ ViewsHold'
        BY DEF IInv, AheadInOrder, ViewsHold, Reconcile, podVars
  <2>6. RunFollows'
    <3>1. cached' = cached /\ pod' = pod /\ goroutine' = goroutine
          BY DEF Reconcile, podVars, watchVars
    <3>2. cached.version <= cached.version /\ cached.uid <= cached.uid
          BY <2>1 DEF Pod
    <3>3. TrueOf(cached, pod)
          BY DEF IInv, ViewsHold
    <3>4. \A i \in Goroutine : Running(i) => goroutine[i].uid <= cached.uid
          BY DEF IInv, WatchesFollow
    <3> QED
        BY <2>1, <2>2, <3>1, <3>2, <3>3, <3>4 DEF RunFollows, Running
  <2> QED
      BY <2>3, <2>4, <2>5, <2>6 DEF IInv
<1> QED
    BY <1>1, <1>2

LEMMA AddFinalizerStep == ASSUME IInv, AddFinalizer PROVE IInv'
<1> DEFINE new == [pod EXCEPT !.finalizer = TRUE]
<1>1. CASE run.copy = pod /\ WritePod(new) /\ UNCHANGED <<queued, spent>>
  <2>1. run # Idle
        BY DEF AddFinalizer, Idle
  <2>2. pod \in Pod /\ pod.uid \in Nat /\ pod.exists /\ TrueOf(pod, pod)
        BY <1>1, <2>1, PodTrue DEF IInv, RunFollows, Pod
  <2>3. /\ new \in Pod /\ new.uid = pod.uid /\ new.exists = pod.exists /\ new.finalizer
        /\ new.deleting = pod.deleting
        BY <2>2 DEF Pod
  <2> HIDE DEF new
  <2>4. \A v \in Pod : TrueOf(v, pod) => TrueOf(v, new)
        BY <2>3 DEF TrueOf
  <2>5. CancelledWithItsPod'
        BY <1>1, <2>2, <2>3, Written
           DEF IInv, AddFinalizer, Update, CancelledWithItsPod, Running, watchVars
  <2> QED
      BY <1>1, <2>2, <2>3, <2>4, <2>5, PodStep DEF AddFinalizer, Update, TrueOf, IInv, TypeOK
<1>2. CASE UNCHANGED podVars
      BY <1>2, QueueStep DEF AddFinalizer, Update, IInv, TypeOK
<1> QED
    BY <1>1, <1>2 DEF AddFinalizer, Update

\* The finalizer goes only from the version the cache has, whose watch was cancelled.
LEMMA RemoveFinalizerStep == ASSUME IInv, RemoveFinalizer PROVE IInv'
<1> DEFINE new == [pod EXCEPT !.finalizer = FALSE]
<1>1. CASE run.copy = pod /\ WritePod(new) /\ UNCHANGED <<queued, spent>>
  <2>1. run # Idle /\ run.stage = "remove"
        BY DEF RemoveFinalizer, Idle
  <2>2. /\ pod \in Pod /\ pod.uid \in Nat /\ pod.exists /\ pod.deleting /\ TrueOf(pod, pod)
        /\ cached = pod /\ ahead = <<>>
        BY <1>1, <2>1, PodTrue, CaughtUp DEF IInv, RunFollows, Pod
  <2>3. /\ new \in Pod /\ new.uid = pod.uid /\ new.exists = pod.exists /\ ~new.finalizer
        /\ new.deleting = pod.deleting
        BY <2>2 DEF Pod
  <2> HIDE DEF new
  <2>4. /\ pod' \in Pod /\ InOrder(pod, pod') /\ TrueOf(pod', pod') /\ TrueOf(cached, pod')
        /\ pod'.uid = pod.uid /\ pod'.deleting
    <3>1. /\ pod' \in Pod /\ pod'.version = pod.version + 1 /\ pod'.uid = pod.uid
          /\ ~pod'.finalizer /\ pod'.deleting
          BY <1>1, <2>2, <2>3, Written
    <3>2. pod.version \in Nat
          BY <2>2 DEF Pod
    <3> QED
        BY <2>2, <3>1, <3>2 DEF InOrder, TrueOf
  <2>5. cached' = cached /\ ahead' \in Seq(Pod) /\ AheadInOrder' /\ ViewsHold'
    <3>1. \A j \in DOMAIN ahead : TrueOf(ahead[j], pod')
          BY <2>2
    <3> QED
        BY <1>1, <2>4, <3>1, WriteStep DEF IInv
  <2>6. run' = Idle /\ UNCHANGED <<queued, watchers, goroutine, member, cachedMember, recorded>>
        BY <1>1 DEF RemoveFinalizer, Update, watchVars, memberVars
  <2>7. TypeOK'
        BY <2>4, <2>5, <2>6 DEF IInv, TypeOK, Run
  <2>8. OneWatch' /\ WatchesFollow' /\ NoRecordLost'
        BY <2>5, <2>6 DEF IInv, OneWatch, WatchesFollow, NoRecordLost, Running
  <2>9. CancelledWithItsPod'
        BY <2>1, <2>4, <2>6 DEF IInv, RunFollows, CancelledWithItsPod, Running
  <2>10. RunFollows'
         BY <2>6 DEF RunFollows
  <2> QED
      BY <2>5, <2>7, <2>8, <2>9, <2>10 DEF IInv
<1>2. CASE UNCHANGED podVars
      BY <1>2, QueueStep DEF RemoveFinalizer, Update, IInv, TypeOK
<1> QED
    BY <1>1, <1>2 DEF RemoveFinalizer, Update

\* A goroutine is started only where none runs, for a pod that is there.
LEMMA WatchStep == ASSUME IInv, watch PROVE IInv'
<1>1. CASE watchers # None
      BY <1>1, QueueStep DEF watch, IInv, TypeOK
<1>2. CASE watchers = None
  <2> DEFINE w == CHOOSE i \in Goroutine : goroutine[i] = Stopped
             new == [stage |-> "open", uid |-> run.copy.uid, cancelled |-> FALSE]
  <2>1. \A i \in Goroutine : goroutine[i] = Stopped
        BY <1>2, PodWatchAssumption DEF IInv, OneWatch, Running
  <2>2. w \in Goroutine
        BY <2>1, PodWatchAssumption
  <2>3. /\ watchers' = w /\ goroutine' = [goroutine EXCEPT ![w] = new] /\ run' = Idle
        /\ UNCHANGED <<podVars, queued, memberVars>>
        BY <1>2 DEF watch, Goes
  <2> HIDE DEF w
  <2>4. run # Idle /\ run.stage = "watch"
        BY DEF watch, Idle
  <2>5. /\ run.copy.uid \in 1..MaxPods /\ run.copy.uid <= cached.uid
        /\ pod.exists /\ pod.uid = run.copy.uid /\ pod.finalizer
    <3>1. run.copy \in Pod
          BY <2>4, RunFields DEF IInv, TypeOK
    <3>2. run.copy.exists /\ run.copy.finalizer /\ ~run.copy.deleting /\ TrueOf(run.copy, pod)
          BY <2>4 DEF IInv, RunFollows
    <3> QED
        BY <2>4, <3>1, <3>2, PodWatchAssumption DEF IInv, RunFollows, TrueOf, Pod
  <2>6. /\ new \in GoroutineState /\ new # Stopped /\ new.stage = "open"
        /\ new.uid = run.copy.uid /\ ~new.cancelled
        BY <2>5 DEF GoroutineState, Stopped
  <2> HIDE DEF new
  <2>7. /\ goroutine' \in [Goroutine -> GoroutineState] /\ goroutine'[w] = new
        /\ \A i \in Goroutine \ {w} : goroutine'[i] = Stopped /\ goroutine'[i].stage = "stopped"
        BY <2>1, <2>2, <2>3, <2>6 DEF IInv, TypeOK, Stopped
  <2>8. TypeOK'
        BY <2>2, <2>3, <2>7 DEF IInv, TypeOK, Run, podVars, memberVars
  <2>9. OneWatch' /\ NoRecordLost'
        BY <2>3, <2>7 DEF IInv, OneWatch, NoRecordLost, Running, memberVars
  <2>10. CancelledWithItsPod'
         BY <2>3, <2>5, <2>6, <2>7 DEF CancelledWithItsPod, Running, podVars
  <2>11. WatchesFollow'
         BY <2>2, <2>3, <2>5, <2>6, <2>7 DEF IInv, WatchesFollow, Running, podVars, memberVars
  <2>12. AheadInOrder' /\ ViewsHold' /\ RunFollows'
         BY <2>3 DEF IInv, AheadInOrder, ViewsHold, RunFollows, podVars
  <2> QED
      BY <2>8, <2>9, <2>10, <2>11, <2>12 DEF IInv
<1> QED
    BY <1>1, <1>2

\* What a cancellation leaves of a goroutine.
LEMMA CancelState ==
  ASSUME NEW w \in GoroutineState, w # Stopped
  PROVE LET c == [w EXCEPT !.cancelled = TRUE]
        IN /\ c \in GoroutineState /\ c # Stopped /\ c.cancelled
           /\ c.stage = w.stage /\ c.uid = w.uid
           /\ w.stage = "update" => c.index = w.index /\ c.copy = w.copy
BY DEF GoroutineState, Stopped

\* A late deletion finds no watch of the pod's successor: where one runs, the
\* copy is of its pod or a later one.
LEMMA UnwatchStep == ASSUME IInv, unwatch PROVE IInv'
<1>1. /\ run # Idle /\ run.stage = "unwatch" /\ run.copy \in Pod
      /\ run' = [stage |-> "remove", copy |-> run.copy]
      BY RunFields DEF IInv, TypeOK, unwatch, Idle
<1>2. run' \in Run /\ run'.stage = "remove" /\ run'.copy = run.copy /\ run' # Idle
      BY <1>1 DEF Run, Idle
<1>3. goroutine' = Cancelled /\ UNCHANGED <<podVars, queued, watchers, memberVars>>
      BY DEF unwatch
<1>4. /\ goroutine' \in [Goroutine -> GoroutineState]
      /\ \A i \in Goroutine :
           /\ Running(i)' <=> Running(i)
           /\ Running(i) => goroutine'[i].cancelled
           /\ goroutine'[i].stage = goroutine[i].stage
           /\ Running(i) => goroutine'[i].uid = goroutine[i].uid
           /\ goroutine[i].stage = "update" =>
                goroutine'[i].index = goroutine[i].index /\ goroutine'[i].copy = goroutine[i].copy
  <2>1. CASE watchers = None
        BY <2>1, <1>3, PodWatchAssumption DEF Cancelled, IInv, TypeOK, OneWatch, Running
  <2>2. CASE watchers # None
    <3> DEFINE c == [goroutine[watchers] EXCEPT !.cancelled = TRUE]
    <3>1. watchers \in Goroutine /\ goroutine[watchers] \in GoroutineState /\ goroutine[watchers] # Stopped
          BY <2>2 DEF IInv, TypeOK, WatchesFollow, Running
    <3>2. /\ c \in GoroutineState /\ c # Stopped /\ c.cancelled
          /\ c.stage = goroutine[watchers].stage /\ c.uid = goroutine[watchers].uid
          /\ goroutine[watchers].stage = "update" =>
               c.index = goroutine[watchers].index /\ c.copy = goroutine[watchers].copy
          BY <3>1, CancelState
    <3>3. goroutine' = [goroutine EXCEPT ![watchers] = c]
          BY <2>2, <1>3 DEF Cancelled
    <3> HIDE DEF c
    <3>4. /\ goroutine' \in [Goroutine -> GoroutineState] /\ goroutine'[watchers] = c
          /\ \A i \in Goroutine \ {watchers} : goroutine'[i] = goroutine[i]
          BY <3>1, <3>2, <3>3 DEF IInv, TypeOK
    <3>5. \A i \in Goroutine \ {watchers} : ~Running(i)
          BY DEF IInv, OneWatch
    <3>6. \A i \in Goroutine \ {watchers} : goroutine[i].stage = "stopped"
          BY <3>5 DEF Running, Stopped
    <3> QED
        BY <3>1, <3>2, <3>4, <3>5, <3>6 DEF Running
  <2> QED
      BY <2>1, <2>2
<1>5. TypeOK'
      BY <1>2, <1>3, <1>4 DEF IInv, TypeOK, podVars, memberVars
<1>6. OneWatch' /\ NoRecordLost' /\ AheadInOrder' /\ ViewsHold'
      BY <1>3, <1>4 DEF IInv, OneWatch, NoRecordLost, AheadInOrder, ViewsHold, podVars, memberVars
<1>7. CancelledWithItsPod'
  <2> SUFFICES ASSUME NEW i \in Goroutine, Running(i)
               PROVE goroutine[i].uid < pod.uid \/ ~pod.exists \/ pod.deleting
      BY <1>3, <1>4 DEF CancelledWithItsPod, podVars
  <2>1. goroutine[i].uid \in Nat /\ pod.uid \in Nat /\ run.copy.uid \in Nat
        BY <1>1, StateFields DEF IInv, TypeOK, Pod, Running
  <2>2. CASE goroutine[i].cancelled
        BY <2>2 DEF IInv, CancelledWithItsPod
  <2>3. CASE ~goroutine[i].cancelled
    <3>1. goroutine[i].uid = pod.uid /\ goroutine[i].uid <= run.copy.uid /\ run.copy.uid <= pod.uid
          BY <1>1, <2>3 DEF IInv, CancelledWithItsPod, RunFollows, TrueOf
    <3>2. run.copy.deleting /\ run.copy.uid = pod.uid
          BY <1>1, <2>1, <3>1 DEF IInv, RunFollows
    <3> QED
        BY <1>1, <3>2 DEF IInv, RunFollows, TrueOf
  <2> QED
      BY <2>2, <2>3
<1>8. RunFollows'
  <2>1. cached' = cached /\ pod' = pod
        BY <1>3 DEF podVars
  <2>2. /\ run.copy.version <= cached.version /\ run.copy.uid <= cached.uid
        /\ TrueOf(run.copy, pod) /\ run.copy.exists /\ run.copy.finalizer /\ run.copy.deleting
        /\ \A i \in Goroutine : Running(i) => goroutine[i].uid <= run.copy.uid
        BY <1>1 DEF IInv, RunFollows
  <2> QED
      BY <1>2, <1>4, <2>1, <2>2 DEF RunFollows
<1>9. WatchesFollow'
  <2>1. /\ watchers # None => Running(watchers)
        /\ \A i \in Goroutine : Running(i) => goroutine[i].uid <= cached.uid
        /\ \A i \in Goroutine : goroutine[i].stage = "update" => goroutine[i].index > goroutine[i].copy.index
        /\ cachedMember.index <= member.index
        BY DEF IInv, WatchesFollow
  <2>2. UNCHANGED <<cached, watchers, member, cachedMember>> /\ watchers \in Goroutine \cup {None}
        BY <1>3 DEF podVars, memberVars, IInv, TypeOK
  <2> QED
      BY <1>4, <2>1, <2>2 DEF WatchesFollow
<1> QED
    BY <1>5, <1>6, <1>7, <1>8, <1>9 DEF IInv

-----------------------------------------------------------------------------
\* A goroutine

\* A goroutine goes on, for the same pod.
LEMMA WorkStep ==
  ASSUME IInv, NEW i \in Goroutine, Running(i), NEW new \in GoroutineState, Goes(i, new),
         new # Stopped, new.uid = goroutine[i].uid, new.cancelled = goroutine[i].cancelled,
         new.stage = "update" => new.index > new.copy.index,
         UNCHANGED otherVars,
         member' \in Member, cachedMember' \in Member, recorded' \in 0..MaxIndex,
         NoRecordLost', cachedMember'.index <= member'.index
  PROVE IInv'
<1>1. /\ goroutine' \in [Goroutine -> GoroutineState] /\ goroutine'[i] = new
      /\ \A j \in Goroutine \ {i} : goroutine'[j] = goroutine[j]
      BY DEF IInv, TypeOK, Goes
<1>2. /\ watchers' = watchers /\ queued' = queued /\ run' = run
      /\ pod' = pod /\ ahead' = ahead /\ cached' = cached
      BY DEF otherVars, podVars
<1>3. \A j \in Goroutine :
        /\ Running(j)' <=> Running(j)
        /\ Running(j) => /\ goroutine'[j].uid = goroutine[j].uid
                         /\ goroutine'[j].cancelled = goroutine[j].cancelled
      BY <1>1 DEF Running
<1>4. TypeOK'
      BY <1>1, <1>2 DEF IInv, TypeOK
<1>5. OneWatch'
      BY <1>2, <1>3 DEF IInv, OneWatch
<1>6. CancelledWithItsPod'
  <2> SUFFICES ASSUME NEW j \in Goroutine, Running(j)
               PROVE IF goroutine[j].cancelled
                     THEN goroutine[j].uid < pod.uid \/ ~pod.exists \/ pod.deleting
                     ELSE pod.exists /\ goroutine[j].uid = pod.uid /\ pod.finalizer
      BY <1>2, <1>3 DEF CancelledWithItsPod
  <2> QED
      BY DEF IInv, CancelledWithItsPod
<1>7. AheadInOrder' /\ ViewsHold'
      BY <1>2 DEF IInv, AheadInOrder, ViewsHold
<1>8. RunFollows'
      BY <1>2, <1>3 DEF IInv, RunFollows
<1>9. WatchesFollow'
  <2>1. \A j \in Goroutine : goroutine'[j].stage = "update" => goroutine'[j].index > goroutine'[j].copy.index
        BY <1>1 DEF IInv, WatchesFollow
  <2>2. \A j \in Goroutine : Running(j) => goroutine'[j].uid <= cached.uid
        BY <1>3 DEF IInv, WatchesFollow
  <2>3. watchers # None => Running(watchers)'
    <3> SUFFICES ASSUME watchers # None PROVE Running(watchers)'
        OBVIOUS
    <3>1. watchers \in Goroutine /\ Running(watchers)
          BY DEF IInv, TypeOK, WatchesFollow
    <3>2. goroutine'[watchers] # Stopped
          BY <1>3, <3>1 DEF Running
    <3> QED
        BY <1>2, <3>2 DEF Running
  <2> QED
      BY <1>2, <1>3, <2>1, <2>2, <2>3 DEF WatchesFollow
<1> QED
    BY <1>4, <1>5, <1>6, <1>7, <1>8, <1>9 DEF IInv

\* The next stage of a goroutine, when it takes nothing along.
LEMMA ToState ==
  ASSUME TypeOK, NEW i \in Goroutine, Running(i),
         NEW stage \in {"open", "receive", "fail", "end"}
  PROVE /\ To(i, stage) \in GoroutineState /\ To(i, stage) # Stopped
        /\ To(i, stage).stage = stage
        /\ To(i, stage).uid = goroutine[i].uid /\ To(i, stage).cancelled = goroutine[i].cancelled
<1>1. goroutine[i].uid \in 1..MaxPods /\ goroutine[i].cancelled \in BOOLEAN
      BY StateFields DEF TypeOK, Running
<1> QED
    BY <1>1 DEF To, GoroutineState, Stopped

\* ... and with an event.
LEMMA EventState ==
  ASSUME TypeOK, NEW i \in Goroutine, Running(i),
         NEW stage \in {"get", "retry"}, NEW index \in 0..MaxIndex
  PROVE LET new == [stage |-> stage, uid |-> goroutine[i].uid,
                    cancelled |-> goroutine[i].cancelled, index |-> index]
        IN /\ new \in GoroutineState /\ new # Stopped /\ new.stage = stage
           /\ new.uid = goroutine[i].uid /\ new.cancelled = goroutine[i].cancelled
<1>1. goroutine[i].uid \in 1..MaxPods /\ goroutine[i].cancelled \in BOOLEAN
      BY StateFields DEF TypeOK, Running
<1> QED
    BY <1>1 DEF GoroutineState, Stopped

\* Steps that leave the RaftMember alone.
LEMMA StreamStep ==
  ASSUME IInv, NEW i \in Goroutine,
         Open(i) \/ Receive(i) \/ ReceiveEnd(i) \/ ReceiveError(i)
           \/ UpdateFails(i) \/ Retry(i) \/ GiveUp(i)
  PROVE IInv'
<1>1. Running(i)
      BY DEF Open, Receive, ReceiveEnd, ReceiveError, UpdateFails, Retry, GiveUp, Running, Stopped
<1>2. TypeOK /\ UNCHANGED <<otherVars, memberVars>>
      BY DEF IInv, Open, Receive, ReceiveEnd, ReceiveError, UpdateFails, Retry, GiveUp
<1>3. /\ member' \in Member /\ cachedMember' \in Member /\ recorded' \in 0..MaxIndex
      /\ NoRecordLost' /\ cachedMember'.index <= member'.index
      BY <1>2 DEF IInv, TypeOK, NoRecordLost, WatchesFollow, memberVars
<1>4. CASE \E stage \in {"open", "receive", "fail", "end"} : Goes(i, To(i, stage))
  <2> PICK stage \in {"open", "receive", "fail", "end"} : Goes(i, To(i, stage))
      BY <1>4
  <2> DEFINE new == To(i, stage)
  <2>1. /\ new \in GoroutineState /\ new # Stopped /\ new.stage = stage /\ Goes(i, new)
        /\ new.uid = goroutine[i].uid /\ new.cancelled = goroutine[i].cancelled
        BY <1>1, <1>2, ToState
  <2> HIDE DEF new
  <2> QED
      BY <1>1, <1>2, <1>3, <2>1, WorkStep
<1>5. CASE \E stage \in {"get", "retry"}, index \in 0..MaxIndex :
             Goes(i, [stage |-> stage, uid |-> goroutine[i].uid,
                      cancelled |-> goroutine[i].cancelled, index |-> index])
  <2> PICK stage \in {"get", "retry"}, index \in 0..MaxIndex :
             Goes(i, [stage |-> stage, uid |-> goroutine[i].uid,
                      cancelled |-> goroutine[i].cancelled, index |-> index])
      BY <1>5
  <2> DEFINE new == [stage |-> stage, uid |-> goroutine[i].uid,
                     cancelled |-> goroutine[i].cancelled, index |-> index]
  <2>1. /\ new \in GoroutineState /\ new # Stopped /\ new.stage = stage /\ Goes(i, new)
        /\ new.uid = goroutine[i].uid /\ new.cancelled = goroutine[i].cancelled
        BY <1>1, <1>2, EventState
  <2> HIDE DEF new
  <2> QED
      BY <1>1, <1>2, <1>3, <2>1, WorkStep
<1>6. CASE Open(i) \/ ReceiveEnd(i) \/ ReceiveError(i) \/ GiveUp(i)
      BY <1>4, <1>6 DEF Open, ReceiveEnd, ReceiveError, GiveUp
<1>7. CASE Receive(i)
      BY <1>5, <1>7 DEF Receive
<1>8. CASE UpdateFails(i)
  <2>1. goroutine[i].index \in 0..MaxIndex
        BY <1>2, <1>8, StateFields DEF UpdateFails, TypeOK
  <2> QED
      BY <1>5, <1>8, <2>1 DEF UpdateFails
<1>9. CASE Retry(i)
  <2>1. goroutine[i] \in GoroutineState /\ goroutine[i].stage = "retry"
        BY <1>2, <1>9 DEF Retry, TypeOK
  <2>2. /\ goroutine[i].index \in 0..MaxIndex
        /\ [goroutine[i] EXCEPT !.stage = "get"] =
             [stage |-> "get", uid |-> goroutine[i].uid,
              cancelled |-> goroutine[i].cancelled, index |-> goroutine[i].index]
        BY <2>1 DEF GoroutineState, Stopped
  <2> QED
      BY <1>5, <1>9, <2>2 DEF Retry
<1> QED
    BY <1>6, <1>7, <1>8, <1>9

\* What the cache has of the RaftMember is no higher than what is on record.
LEMMA GetStep == ASSUME IInv, NEW i \in Goroutine, Get(i) PROVE IInv'
<1>1. /\ Running(i) /\ TypeOK /\ goroutine[i] \in GoroutineState
      /\ goroutine[i].index \in 0..MaxIndex
      BY StateFields DEF IInv, TypeOK, Get, Running, Stopped
<1>2. goroutine[i].uid \in 1..MaxPods /\ goroutine[i].cancelled \in BOOLEAN
      BY <1>1, StateFields DEF Running
<1>3. /\ UNCHANGED <<otherVars, member, cachedMember>> /\ member \in Member /\ cachedMember \in Member
      /\ cachedMember.index <= member.index /\ recorded \in 0..MaxIndex /\ member.index >= recorded
      /\ member.index \in 0..MaxIndex /\ cachedMember.index \in 0..MaxIndex
      BY DEF IInv, TypeOK, NoRecordLost, WatchesFollow, Get, Member
<1>4. CASE Newer(goroutine[i].index, cachedMember)
  <2> DEFINE new == [stage |-> "update", uid |-> goroutine[i].uid, cancelled |-> goroutine[i].cancelled,
                     index |-> goroutine[i].index, copy |-> cachedMember]
  <2>1. Goes(i, new) /\ recorded' = recorded
        BY <1>4 DEF Get
  <2>2. /\ new \in GoroutineState /\ new # Stopped
        /\ new.uid = goroutine[i].uid /\ new.cancelled = goroutine[i].cancelled
        /\ new.index > new.copy.index
        BY <1>1, <1>2, <1>3, <1>4 DEF GoroutineState, Stopped, Newer
  <2> HIDE DEF new
  <2> QED
      BY <1>1, <1>3, <2>1, <2>2, WorkStep DEF NoRecordLost
<1>5. CASE ~Newer(goroutine[i].index, cachedMember)
  <2> DEFINE new == To(i, "receive")
  <2>1. Goes(i, new) /\ recorded' = Higher(recorded, goroutine[i].index)
        BY <1>5 DEF Get
  <2>2. /\ new \in GoroutineState /\ new # Stopped /\ new.stage = "receive"
        /\ new.uid = goroutine[i].uid /\ new.cancelled = goroutine[i].cancelled
        BY <1>1, ToState
  <2> HIDE DEF new
  <2>3. recorded' \in 0..MaxIndex /\ recorded' <= member.index
        BY <1>1, <1>3, <1>5, <2>1, PodWatchAssumption DEF Newer, Higher
  <2> QED
      BY <1>1, <1>3, <2>1, <2>2, <2>3, WorkStep DEF NoRecordLost
<1> QED
    BY <1>4, <1>5

\* An update is accepted for the current version, whose index is lower.
LEMMA UpdateMemberStep == ASSUME IInv, NEW i \in Goroutine, UpdateMember(i) PROVE IInv'
<1> DEFINE new == To(i, "receive")
<1>1. /\ Running(i) /\ TypeOK /\ goroutine[i].copy = member /\ member \in Member
      /\ goroutine[i].index \in 0..MaxIndex /\ goroutine[i].index > goroutine[i].copy.index
      BY StateFields DEF IInv, TypeOK, WatchesFollow, UpdateMember, Accepted, Running, Stopped
<1>2. /\ new \in GoroutineState /\ new # Stopped /\ new.stage = "receive" /\ Goes(i, new)
      /\ new.uid = goroutine[i].uid /\ new.cancelled = goroutine[i].cancelled
      BY <1>1, ToState DEF UpdateMember
<1> HIDE DEF new
<1>3. /\ member' \in Member /\ member'.index = goroutine[i].index /\ member'.index >= member.index
      /\ cachedMember' = cachedMember /\ cachedMember' \in Member
      /\ cachedMember'.index <= member'.index
      BY <1>1, PodWatchAssumption DEF UpdateMember, Member, IInv, TypeOK, WatchesFollow
<1>4. recorded' \in 0..MaxIndex /\ recorded' <= member'.index
  <2>1. recorded \in 0..MaxIndex /\ recorded <= member.index /\ member.index \in 0..MaxIndex
        BY DEF IInv, TypeOK, NoRecordLost, Member
  <2>2. recorded' = Higher(recorded, goroutine[i].index)
        BY DEF UpdateMember
  <2> QED
      BY <1>1, <1>3, <2>1, <2>2, PodWatchAssumption DEF Higher
<1>5. NoRecordLost'
      BY <1>3, <1>4, PodWatchAssumption DEF NoRecordLost, Member
<1>6. UNCHANGED otherVars
      BY DEF UpdateMember
<1> QED
    BY <1>1, <1>2, <1>3, <1>4, <1>5, <1>6, WorkStep

\* The address that a goroutine frees is its own.
LEMMA EndStep == ASSUME IInv, NEW i \in Goroutine, End(i) PROVE IInv'
<1>1. /\ \A j \in Goroutine \ {i} : goroutine[j] = Stopped
      /\ goroutine' = [goroutine EXCEPT ![i] = Stopped] /\ watchers' = None
      /\ UNCHANGED <<podVars, queued, run, memberVars>>
  <2>1. Running(i)
        BY DEF End, Running, Stopped
  <2> QED
      BY <2>1 DEF IInv, OneWatch, Running, End, Goes
<1>2. /\ goroutine' \in [Goroutine -> GoroutineState]
      /\ \A j \in Goroutine : goroutine'[j] = Stopped /\ goroutine'[j].stage = "stopped"
      BY <1>1 DEF IInv, TypeOK, GoroutineState, Stopped
<1>3. TypeOK'
      BY <1>1, <1>2 DEF IInv, TypeOK, podVars, memberVars
<1>4. OneWatch' /\ CancelledWithItsPod' /\ NoRecordLost' /\ WatchesFollow'
      BY <1>1, <1>2 DEF IInv, OneWatch, CancelledWithItsPod, NoRecordLost, WatchesFollow,
                        Running, memberVars
<1>5. AheadInOrder' /\ ViewsHold'
      BY <1>1 DEF IInv, AheadInOrder, ViewsHold, podVars
<1>6. RunFollows'
      BY <1>1, <1>2 DEF IInv, RunFollows, Running, podVars
<1> QED
    BY <1>3, <1>4, <1>5, <1>6 DEF IInv

-----------------------------------------------------------------------------
\* Theorems

LEMMA NextIInv == IInv /\ [Next]_vars => IInv'
<1> SUFFICES ASSUME IInv, [Next]_vars PROVE IInv'
    OBVIOUS
<1>1. CASE UNCHANGED vars
      BY <1>1, QueueStep DEF vars, IInv, TypeOK
<1>2. CASE CreatePod \/ TouchPod \/ DeletePod \/ Vanish
      BY <1>2, CreatePodStep, TouchPodStep, DeletePodStep, VanishStep
<1>3. CASE SyncPod \/ TouchMember \/ SyncMember \/ Restart
      BY <1>3, SyncPodStep, TouchMemberStep, RestartStep
<1>4. CASE Resync
      BY <1>4, QueueStep DEF Resync
<1>5. CASE Reconcile \/ AddFinalizer \/ RemoveFinalizer \/ watch \/ unwatch
      BY <1>5, ReconcileStep, AddFinalizerStep, RemoveFinalizerStep, WatchStep, UnwatchStep
<1>6. ASSUME NEW i \in Goroutine,
             Works(i) \/ GiveUp(i) \/ Receive(i) \/ ReceiveEnd(i) \/ ReceiveError(i)
      PROVE IInv'
      BY <1>6, StreamStep, GetStep, UpdateMemberStep, EndStep DEF Works
<1> QED
    BY <1>1, <1>2, <1>3, <1>4, <1>5, <1>6 DEF Next

\* The invariant holds in every state: every version the reconciler can have read
\* says something that is still true of the pod, and every goroutine belongs to
\* the pod it was started for (watcher.go, Reconcile, watch, unwatch).
THEOREM InvariantCorrect == Spec => []IInv
<1>1. Init => IInv
      BY InitIInv
<1>2. IInv /\ [Next]_vars => IInv'
      BY NextIInv
<1> QED
    BY <1>1, <1>2, PTL DEF Spec

\* At most one goroutine receives a node's events, the registered one, however
\* runs of the reconciler and ends of goroutines interleave: the deferred function
\* of watch never frees an address that a later goroutine has registered.
THEOREM OneWatchCorrect == Spec => []OneWatch
<1>1. IInv => OneWatch
      BY DEF IInv
<1> QED
    BY <1>1, InvariantCorrect, PTL

\* A pod whose finalizer reconcileDelete has removed has no watch that goes on, and
\* unwatch, which finds a watch by the address alone, cancels only watches of pods
\* that are deleted, however late the cache is.
THEOREM CancelledCorrect == Spec => []CancelledWithItsPod
<1>1. IInv => CancelledWithItsPod
      BY DEF IInv
<1> QED
    BY <1>1, InvariantCorrect, PTL

\* What tryRecordMemberEvent has reported recorded is on record, or a later index
\* is, with any order of events, stale copies and other writers.
THEOREM RecordCorrect == Spec => []NoRecordLost
<1>1. IInv => NoRecordLost
      BY DEF IInv
<1> QED
    BY <1>1, InvariantCorrect, PTL
=============================================================================
