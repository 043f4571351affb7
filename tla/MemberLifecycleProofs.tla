----------------------- MODULE MemberLifecycleProofs -----------------------
(***************************************************************************)
(* Proofs about MemberLifecycle, for any number of members and all bounds.   *)
(* IInv is the inductive invariant.  The statuses on record name containers  *)
(* no later than the cache's, the cache's are no later than the pods', and a *)
(* copy that can still be written is all there is to read.  So a status that *)
(* names the container that runs was written by a run that read this         *)
(* container, after it had told its process to bootstrap the member.         *)
(***************************************************************************)
EXTENDS ClusterRequests, SequenceTheorems, TLAPS

-----------------------------------------------------------------------------
\* Versions of a resource

LEMMA Reading ==
  ASSUME NEW S, NEW s \in Seq(S), s # <<>>
  PROVE /\ 1 \in DOMAIN s /\ Len(s) \in Nat \ {0} /\ s[1] \in S /\ Now(s) \in S
        /\ Read(s).status = s[1] /\ Read(s).latest \in BOOLEAN
        /\ Read(s).latest <=> Len(s) = 1
        /\ Len(s) = 1 => Read(s).status = Now(s)
<1>1. 1 \in DOMAIN s /\ Len(s) \in Nat \ {0} /\ s[1] \in S /\ s[Len(s)] \in S
      OBVIOUS
<1>2. Read(s).status = s[1] /\ Read(s).latest = (Len(s) = 1)
      BY <1>1 DEF Read
<1>3. Read(s).latest \in BOOLEAN
      BY DEF Read
<1> QED
    BY <1>1, <1>2, <1>3 DEF Now

LEMMA Writing ==
  ASSUME NEW S, NEW s \in Seq(S), s # <<>>, NEW x \in S
  PROVE LET t == Append(s, x)
        IN /\ t \in Seq(S) /\ t # <<>> /\ Len(t) # 1 /\ Now(t) = x
           /\ \A j \in DOMAIN t : t[j] = x \/ (j \in DOMAIN s /\ t[j] = s[j])
BY DEF Now

LEMMA Syncing ==
  ASSUME NEW S, NEW s \in Seq(S), Len(s) > 1
  PROVE LET t == Tail(s)
        IN /\ t \in Seq(S) /\ t # <<>> /\ Now(t) = Now(s)
           /\ \A j \in DOMAIN t : (j + 1) \in DOMAIN s /\ t[j] = s[j + 1]
<1> DEFINE t == Tail(s)
<1>1. Len(s) \in Nat /\ s # <<>>
      OBVIOUS
<1>2. t \in Seq(S) /\ Len(t) = Len(s) - 1
      BY <1>1, HeadTailProperties
<1>3. \A j \in 1..Len(t) : t[j] = s[j + 1]
      BY <1>1, HeadTailProperties
<1>4. Now(t) = Now(s)
  <2>1. t[Len(t)] = s[Len(t) + 1] /\ Len(t) + 1 = Len(s)
        BY <1>1, <1>2, <1>3
  <2> QED
      BY <2>1 DEF Now
<1> QED
  <2>1. \A j \in DOMAIN t : j \in 1..Len(t) /\ (j + 1) \in DOMAIN s
        BY <1>1, <1>2
  <2>2. t # <<>>
    <3>1. Len(t) # 0
          BY <1>1, <1>2
    <3> QED
        BY <1>2, <3>1, EmptySeq
  <2> HIDE DEF t
  <2>3. \A j \in DOMAIN t : (j + 1) \in DOMAIN s /\ t[j] = s[j + 1]
        BY <1>3, <2>1
  <2> QED
      BY <1>2, <1>4, <2>2, <2>3 DEF t

LEMMA First ==
  ASSUME NEW S, NEW x \in S
  PROVE /\ <<x>> \in Seq(S) /\ <<x>> # <<>> /\ Now(<<x>>) = x
        /\ \A j \in DOMAIN <<x>> : <<x>>[j] = x
BY DEF Now

LEMMA NowIsVersion == ASSUME NEW S, NEW s \in Seq(S), s # <<>> PROVE Now(s) = s[Len(s)] /\ Len(s) \in DOMAIN s
BY DEF Now

-----------------------------------------------------------------------------
\* Records

LEMMA RecordTypes ==
  /\ NoPod \in Pod /\ NoMember \in MemberStatus /\ NewMember \in MemberStatus
  /\ NewMember.exists /\ NewMember.podRef = 0 /\ NewMember.version = 0 /\ NewMember.state = ""
  /\ NoOwner \in OwnerStatus /\ NewOwner \in OwnerStatus
  /\ NoMemberCopy \in MemberCopy /\ ~NoMemberCopy.latest
  /\ NoOwnerCopy \in OwnerCopy
  /\ NoRun \in Run /\ NoRun.at = 0 /\ ~NoRun.notReady
<1>1. NoPod \in Pod /\ NoMember \in MemberStatus /\ NoOwner \in OwnerStatus
      BY DEF NoPod, Pod, NoMember, MemberStatus, NoOwner, OwnerStatus
<1>2. /\ NewMember \in MemberStatus /\ NewMember.exists /\ NewMember.podRef = 0
      /\ NewMember.version = 0 /\ NewMember.state = ""
      BY DEF NewMember, NoMember, MemberStatus
<1>3. NewOwner \in OwnerStatus
      BY DEF NewOwner, NoOwner, OwnerStatus
<1>4. NoMemberCopy \in MemberCopy /\ ~NoMemberCopy.latest /\ NoOwnerCopy \in OwnerCopy
      BY <1>1 DEF NoMemberCopy, MemberCopy, NoOwnerCopy, OwnerCopy
<1>5. NoRun \in Run /\ NoRun.at = 0 /\ ~NoRun.notReady
      BY <1>1, <1>4, MemberLifecycleAssumption DEF NoRun, Run
<1> QED
    BY <1>1, <1>2, <1>3, <1>4, <1>5

LEMMA StaleCopies ==
  /\ \A c \in MemberCopy : Stale(c) \in MemberCopy /\ Stale(c).status = c.status /\ ~Stale(c).latest
  /\ \A c \in OwnerCopy : Stale(c) \in OwnerCopy /\ Stale(c).status = c.status
BY DEF Stale, MemberCopy, OwnerCopy

LEMMA UpToTransitive ==
  ASSUME NEW p \in Pod, NEW q \in Pod, NEW r \in Pod, UpTo(p, q), UpTo(q, r)
  PROVE UpTo(p, r)
BY DEF UpTo, Pod

LEMMA NamesTransitive ==
  ASSUME NEW s \in MemberStatus, NEW p \in Pod, NEW q \in Pod, NamesUpTo(s, p), UpTo(p, q)
  PROVE NamesUpTo(s, q)
<1>1. /\ s.podRef \in Nat /\ s.version \in Nat /\ p.uid \in Nat /\ p.restarts \in Nat
      /\ q.uid \in Nat /\ q.restarts \in Nat
      BY DEF Pod, MemberStatus
<1>2. CASE p.uid < q.uid
      BY <1>1, <1>2 DEF NamesUpTo
<1>3. CASE p.uid = q.uid /\ p.restarts <= q.restarts
      BY <1>1, <1>3 DEF NamesUpTo
<1> QED
    BY <1>2, <1>3 DEF UpTo

LEMMA Decided ==
  ASSUME NEW s \in MemberStatus, NEW p \in Pod
  PROVE /\ Decision(s, p) \in {"podRef", "notReady", "bootstrap", "upToDate"}
        /\ Decision(s, p) = "podRef" <=> s.podRef # p.uid
        /\ Decision(s, p) = "notReady" <=>
             s.podRef = p.uid /\ IsNewContainer(s, p) /\ s.state # "NotReady"
        /\ Decision(s, p) = "bootstrap" <=>
             s.podRef = p.uid /\ IsNewContainer(s, p) /\ s.state = "NotReady"
BY DEF Decision

\* The reconciler changes a member only if its status does not name the container
\* that runs, provided that its copy of the status is up to date.
LEMMA ChangingNotCurrent ==
  ASSUME IInv, rpc \in Changing, run.member.latest
  PROVE ~IsCurrent(run.at)
<1>1. /\ run.at \in Member /\ run.member.status.podRef <= run.pod.uid
      /\ UpTo(run.pod, cachedPod[run.at])
      /\ Decision(run.member.status, run.pod) \in {"podRef", "notReady", "bootstrap"}
      /\ run.member.status = Now(members[run.at])
      BY DEF IInv, RunFollows, Changing, IsLatest
<1>2. /\ run.member.status \in MemberStatus /\ run.pod \in Pod
      /\ cachedPod[run.at] \in Pod /\ pod[run.at] \in Pod
      BY <1>1 DEF IInv, TypeOK, Run, MemberCopy
<1>3. UpTo(run.pod, pod[run.at])
      BY <1>1, <1>2, UpToTransitive DEF IInv, ContainersFollow
<1>4. run.member.status.podRef # run.pod.uid \/ IsNewContainer(run.member.status, run.pod)
      BY <1>1, <1>2, Decided
<1> SUFFICES ASSUME IsCurrent(run.at) PROVE FALSE
    OBVIOUS
<1>5. /\ run.member.status.podRef = pod[run.at].uid
      /\ run.member.status.version = pod[run.at].restarts + 1
      BY <1>1 DEF IsCurrent
<1> DEFINE s == run.member.status
           p == run.pod
           q == pod[run.at]
<1>6. /\ s.podRef \in Nat /\ s.version \in Nat /\ p.uid \in Nat /\ p.restarts \in Nat
      /\ q.uid \in Nat /\ q.restarts \in Nat
      BY <1>2 DEF Pod, MemberStatus
<1>7. /\ s.podRef <= p.uid /\ UpTo(p, q) /\ s.podRef = q.uid /\ s.version = q.restarts + 1
      /\ s.podRef # p.uid \/ s.version = 0 \/ p.restarts + 1 > s.version
      BY <1>1, <1>3, <1>4, <1>5 DEF IsNewContainer
<1> HIDE DEF s, p, q
<1>8. p.uid = q.uid /\ p.restarts <= q.restarts
      BY <1>6, <1>7 DEF UpTo
<1> QED
    BY <1>6, <1>7, <1>8

-----------------------------------------------------------------------------
\* Init

LEMMA InitIInv == Init => IInv
<1> SUFFICES ASSUME Init PROVE IInv
    OBVIOUS
<1> DEFINE first == <<NoMember>>
<1>1. /\ \A m \in Member : members[m] = first
      /\ first \in Seq(MemberStatus) /\ first # <<>> /\ Now(first) = NoMember
      /\ \A j \in DOMAIN first : first[j] = NoMember
  <2>1. \A m \in Member : members[m] = first
        BY DEF Init
  <2> QED
      BY <2>1, First, RecordTypes
<1> HIDE DEF first
<1>2. TypeOK
  <2>1. pod \in [Member -> Pod] /\ cachedPod \in [Member -> Pod]
    <3>1. [uid |-> 1, restarts |-> 0] \in Pod
          BY DEF Pod
    <3> QED
        BY <3>1, RecordTypes DEF Init
  <2>2. members \in [Member -> Seq(MemberStatus)] /\ \A m \in Member : members[m] # <<>>
        BY <1>1 DEF Init
  <2>3. failures \in 0..MaxFailures /\ stream \in [Member -> Nat]
        BY MemberLifecycleAssumption DEF Init
  <2>4. /\ group \in Seq(OwnerStatus) /\ group # <<>>
        /\ cluster \in Seq(OwnerStatus) /\ cluster # <<>>
        BY First, RecordTypes DEF Init
  <2> QED
      BY <2>1, <2>2, <2>3, <2>4, RecordTypes DEF Init, TypeOK
<1>3. ContainersFollow
  <2>1. UpTo(NoPod, [uid |-> 1, restarts |-> 0]) /\ NamesUpTo(NoMember, NoPod)
        BY DEF NamesUpTo, UpTo, NoMember, NoPod
  <2> QED
      BY <1>1, <2>1 DEF Init, ContainersFollow
<1>4. CopiesCurrent
      BY RecordTypes DEF Init, CopiesCurrent
<1>5. RunFollows
      BY DEF Init, RunFollows, Changing
<1>6. \A m \in Member : ~IsCurrent(m)
  <2>1. \A m \in Member : Now(members[m]) = NoMember /\ pod[m].uid = 1
        BY <1>1 DEF Init
  <2>2. NoMember.podRef = 0
        BY DEF NoMember
  <2> QED
      BY <2>1, <2>2 DEF IsCurrent
<1>7. RecordedWasTold /\ ReadyStays /\ ReadinessFollows
      BY <1>6 DEF Init, RecordedWasTold, CurrentIsBootstrapped, ReadyStays, ReadinessFollows, Recording
<1>8. FindingsHold /\ StatesFollow
      BY DEF Init, FindingsHold, StatesFollow, Settled
<1> QED
    BY <1>2, <1>3, <1>4, <1>5, <1>7, <1>8 DEF IInv

-----------------------------------------------------------------------------
\* What a step leaves alone

LEMMA SameRecords ==
  ASSUME IInv, UNCHANGED <<pod, cachedPod, members, watchCopy, rpc, run>>
  PROVE ContainersFollow' /\ CopiesCurrent' /\ RunFollows' /\ ReadyStays'
BY DEF IInv, ContainersFollow, CopiesCurrent, RunFollows, ReadyStays, IsCurrent

LEMMA SameFindings ==
  ASSUME IInv, UNCHANGED <<group, cluster, members, rpc, run, pending>>
  PROVE FindingsHold' /\ StatesFollow'
BY DEF IInv, FindingsHold, CacheCurrent, StatesFollow, Settled

\* A run that is requested will find what the last one has not.
LEMMA Requested ==
  ASSUME pending' = TRUE \/ ~CacheCurrent'
  PROVE FindingsHold' /\ StatesFollow'
BY DEF FindingsHold, StatesFollow, Settled, CacheCurrent

-----------------------------------------------------------------------------
\* The nodes

LEMMA ProcessLostStep ==
  ASSUME IInv, NEW m \in Member, RestartContainer(m) \/ ReplacePod(m)
  PROVE IInv'
<1>1. /\ node' = [node EXCEPT ![m] = "stopped"] /\ connected' = [connected EXCEPT ![m] = FALSE]
      /\ stream' = [stream EXCEPT ![m] = 0] /\ repeated' = repeated \ {m}
      /\ failures < MaxFailures /\ failures' = failures + 1
      /\ UNCHANGED <<cachedPod, members, group, cluster, pending, rpc, run, watchPc, watchCopy>>
      BY DEF RestartContainer, ReplacePod, ProcessLost, Failure, kubeVars, reconcilerVars, watchVars
<1>2. /\ pod' \in [Member -> Pod] /\ \A n \in Member \ {m} : pod'[n] = pod[n]
      /\ \/ pod'[m].uid = pod[m].uid /\ pod'[m].restarts = pod[m].restarts + 1
         \/ pod'[m].uid = pod[m].uid + 1
  <2>1. pod \in [Member -> Pod]
        BY DEF IInv, TypeOK
  <2>2. CASE RestartContainer(m)
    <3>1. pod' = [pod EXCEPT ![m] = [pod[m] EXCEPT !.restarts = pod[m].restarts + 1]]
          BY <2>2 DEF RestartContainer
    <3>2. /\ [pod[m] EXCEPT !.restarts = pod[m].restarts + 1] \in Pod
          /\ [pod[m] EXCEPT !.restarts = pod[m].restarts + 1].uid = pod[m].uid
          /\ [pod[m] EXCEPT !.restarts = pod[m].restarts + 1].restarts = pod[m].restarts + 1
          BY <2>1 DEF Pod
    <3> QED
        BY <2>1, <3>1, <3>2
  <2>3. CASE ReplacePod(m)
    <3>1. pod' = [pod EXCEPT ![m] = [uid |-> pod[m].uid + 1, restarts |-> 0]]
          BY <2>3 DEF ReplacePod
    <3>2. [uid |-> pod[m].uid + 1, restarts |-> 0] \in Pod
          BY <2>1 DEF Pod
    <3> QED
        BY <2>1, <3>1, <3>2
  <2> QED
      BY <2>2, <2>3
<1>3. /\ pod \in [Member -> Pod] /\ cachedPod \in [Member -> Pod]
      /\ members \in [Member -> Seq(MemberStatus)] /\ \A n \in Member : members[n] # <<>>
      BY DEF IInv, TypeOK
<1>4. TypeOK'
  <2>1. failures' \in 0..MaxFailures
        BY <1>1, MemberLifecycleAssumption DEF IInv, TypeOK
  <2> QED
      BY <1>1, <1>2, <2>1 DEF IInv, TypeOK
<1>5. pod[m] \in Pod /\ pod'[m] \in Pod /\ cachedPod[m] \in Pod /\ UpTo(cachedPod[m], pod[m])
      BY <1>2, <1>3 DEF IInv, ContainersFollow
<1>6. UpTo(pod[m], pod'[m]) /\ ~UpTo(pod'[m], pod[m])
      BY <1>2, <1>5 DEF UpTo, Pod
<1>7. ContainersFollow'
  <2>1. UpTo(cachedPod[m], pod'[m])
        BY <1>5, <1>6, UpToTransitive
  <2> QED
      BY <1>1, <1>2, <2>1 DEF IInv, ContainersFollow
<1>8. CopiesCurrent' /\ RunFollows' /\ FindingsHold' /\ StatesFollow'
  <2>1. CopiesCurrent' /\ RunFollows'
        BY <1>1 DEF IInv, CopiesCurrent, RunFollows
  <2> QED
      BY <1>1, <2>1, SameFindings
<1>9. \A n \in Member : IsCurrent(n)' => n # m /\ IsCurrent(n)
  <2>1. /\ Now(members[m]) \in MemberStatus
        /\ NamesUpTo(Now(members[m]), pod[m])
    <3>1. Now(members[m]) \in MemberStatus /\ NamesUpTo(Now(members[m]), cachedPod[m])
          BY <1>3, NowIsVersion, Reading DEF IInv, ContainersFollow
    <3> QED
        BY <1>5, <3>1, NamesTransitive
  <2>2. ~(Now(members[m]).podRef = pod'[m].uid /\ Now(members[m]).version = pod'[m].restarts + 1)
    <3>1. PICK s : s = Now(members[m])
          OBVIOUS
    <3>2. /\ s.podRef \in Nat /\ s.version \in Nat
          /\ pod[m].uid \in Nat /\ pod[m].restarts \in Nat
          /\ pod'[m].uid \in Nat /\ pod'[m].restarts \in Nat
          BY <1>5, <2>1, <3>1 DEF Pod, MemberStatus
    <3>3. s.podRef <= pod[m].uid /\ (s.podRef = pod[m].uid => s.version <= pod[m].restarts + 1)
          BY <2>1, <3>1 DEF NamesUpTo
    <3> QED
        BY <1>2, <3>1, <3>2, <3>3
  <2> QED
      BY <1>1, <1>2, <2>2 DEF IsCurrent
<1>10. ReadyStays'
      BY <1>1, <1>9 DEF IInv, ReadyStays
<1>11. \A n \in Member \ {m} :
          node'[n] = node[n] /\ connected'[n] = connected[n] /\ stream'[n] = stream[n]
      BY <1>1 DEF IInv, TypeOK
<1>12. node'[m] = "stopped"
      BY <1>1 DEF IInv, TypeOK
<1>13. RecordedWasTold'
  <2>1. rpc = "version" /\ run.at = m => run.pod # pod'[m]
    <3> SUFFICES ASSUME rpc = "version", run.at = m, run.pod = pod'[m] PROVE FALSE
        OBVIOUS
    <3>1. UpTo(run.pod, cachedPod[m])
          BY DEF IInv, RunFollows, Changing
    <3> QED
        BY <1>5, <1>6, <3>1, UpToTransitive
  <2>2. rpc = "version" => run.at \in Member
        BY DEF IInv, RunFollows, Changing
  <2>3. CurrentIsBootstrapped'
        BY <1>9, <1>11 DEF IInv, RecordedWasTold, CurrentIsBootstrapped
  <2> QED
      BY <1>1, <1>2, <1>11, <2>1, <2>2, <2>3 DEF IInv, RecordedWasTold
<1>14. ReadinessFollows'
      BY <1>1, <1>9, <1>11, <1>12 DEF IInv, ReadinessFollows, Recording
<1> QED
    BY <1>4, <1>7, <1>8, <1>10, <1>13, <1>14 DEF IInv

\* A stream carries the readiness that the node tells of or that its Watch replays.
LEMMA StreamStep ==
  ASSUME IInv, NEW m \in Member, NodeReady(m) \/ Connect(m) \/ BreakStream(m)
  PROVE IInv'
<1>1. UNCHANGED <<pod, cachedPod, members, group, cluster, pending, rpc, run, watchPc, watchCopy, repeated>>
      BY DEF NodeReady, Connect, BreakStream, kubeVars, reconcilerVars, watchVars
<1>2. /\ node \in [Member -> {"stopped", "started", "ready"}]
      /\ connected \in [Member -> BOOLEAN] /\ stream \in [Member -> Nat]
      BY DEF IInv, TypeOK
<1>3. /\ node' \in [Member -> {"stopped", "started", "ready"}]
      /\ connected' \in [Member -> BOOLEAN] /\ stream' \in [Member -> Nat]
      /\ \A n \in Member : node[n] # "stopped" => node'[n] # "stopped"
      /\ \A n \in Member \ {m} :
           node'[n] = node[n] /\ connected'[n] = connected[n] /\ stream'[n] = stream[n]
      /\ node'[m] = "ready" => ~connected'[m] \/ stream'[m] > 0
      /\ failures' \in 0..MaxFailures
  <2>1. CASE NodeReady(m)
    <3>1. CASE connected[m]
          BY <1>2, <2>1, <3>1 DEF NodeReady, IInv, TypeOK
    <3>2. CASE ~connected[m]
          BY <1>2, <2>1, <3>2 DEF NodeReady, IInv, TypeOK
    <3> QED
        BY <3>1, <3>2
  <2>2. CASE Connect(m)
        BY <1>2, <2>2 DEF Connect, Replayed, IInv, TypeOK
  <2>3. CASE BreakStream(m)
        BY <1>2, <2>3, MemberLifecycleAssumption DEF BreakStream, Failure, IInv, TypeOK
  <2> QED
      BY <2>1, <2>2, <2>3
<1>4. TypeOK'
      BY <1>1, <1>3 DEF IInv, TypeOK
<1>5. RecordedWasTold'
  <2>1. rpc = "version" => run.at \in Member
        BY DEF IInv, RunFollows, Changing
  <2> QED
      BY <1>1, <1>3, <2>1 DEF IInv, RecordedWasTold, CurrentIsBootstrapped, IsCurrent
<1>6. ReadinessFollows'
  <2>1. \A n \in Member : (IsCurrent(n)' <=> IsCurrent(n)) /\ (Recording(n)' <=> Recording(n))
        BY <1>1 DEF IsCurrent, Recording
  <2> SUFFICES ASSUME NEW n \in Member \ repeated, node'[n] = "ready",
                      IsCurrent(n) \/ Recording(n), Now(members[n]).state # "Ready"
               PROVE ~connected'[n] \/ stream'[n] > 0 \/ watchPc[n] # "receiving"
      BY <1>1, <2>1 DEF ReadinessFollows
  <2>2. CASE n = m
        BY <1>3, <2>2
  <2>3. CASE n # m
        BY <1>3, <2>3 DEF IInv, ReadinessFollows
  <2> QED
      BY <2>2, <2>3
<1> QED
    BY <1>1, <1>4, <1>5, <1>6, SameRecords, SameFindings DEF IInv

LEMMA SameNodes ==
  ASSUME IInv, UNCHANGED <<pod, members, node, rpc, run, connected, stream, watchPc, repeated>>
  PROVE RecordedWasTold' /\ ReadinessFollows'
BY DEF IInv, RecordedWasTold, CurrentIsBootstrapped, ReadinessFollows, IsCurrent, Recording

-----------------------------------------------------------------------------
\* Kubernetes

LEMMA SyncPodStep == ASSUME IInv, NEW m \in Member, SyncPod(m) PROVE IInv'
<1>1. /\ cachedPod' = [cachedPod EXCEPT ![m] = pod[m]]
      /\ UNCHANGED <<pod, node, connected, stream, failures, members, group, cluster, pending, rpc, run,
                     watchPc, watchCopy, repeated>>
      BY DEF SyncPod, nodeVars, reconcilerVars, watchVars
<1>2. /\ pod \in [Member -> Pod] /\ cachedPod \in [Member -> Pod]
      /\ members \in [Member -> Seq(MemberStatus)]
      BY DEF IInv, TypeOK
<1>3. /\ cachedPod' \in [Member -> Pod] /\ cachedPod'[m] = pod[m]
      /\ \A n \in Member \ {m} : cachedPod'[n] = cachedPod[n]
      BY <1>1, <1>2
<1>4. TypeOK'
      BY <1>1, <1>3 DEF IInv, TypeOK
<1>5. \A n \in Member : UpTo(cachedPod[n], cachedPod'[n]) /\ UpTo(cachedPod'[n], pod[n])
  <2>1. \A p \in Pod : UpTo(p, p)
        BY DEF UpTo, Pod
  <2> QED
      BY <1>2, <1>3, <2>1 DEF IInv, ContainersFollow
<1>6. ContainersFollow'
  <2> SUFFICES ASSUME NEW n \in Member, NEW j \in DOMAIN members[n]
               PROVE NamesUpTo(members[n][j], cachedPod'[n])
      BY <1>1, <1>5 DEF IInv, ContainersFollow
  <2>1. members[n][j] \in MemberStatus /\ NamesUpTo(members[n][j], cachedPod[n])
        BY <1>2 DEF IInv, ContainersFollow
  <2> QED
      BY <1>2, <1>3, <1>5, <2>1, NamesTransitive
<1>7. RunFollows'
  <2>1. rpc \in Changing => UpTo(run.pod, cachedPod'[run.at])
    <3> SUFFICES ASSUME rpc \in Changing PROVE UpTo(run.pod, cachedPod'[run.at])
        OBVIOUS
    <3>1. run.at \in Member /\ UpTo(run.pod, cachedPod[run.at]) /\ run.pod \in Pod
          BY DEF IInv, RunFollows, TypeOK, Run
    <3> QED
        BY <1>2, <1>3, <1>5, <3>1, UpToTransitive
  <2> QED
      BY <1>1, <2>1 DEF IInv, RunFollows
<1>8. CopiesCurrent' /\ ReadyStays'
      BY <1>1 DEF IInv, CopiesCurrent, ReadyStays, IsCurrent
<1> QED
    BY <1>1, <1>4, <1>6, <1>7, <1>8, SameFindings, SameNodes DEF IInv

LEMMA SyncMemberStep == ASSUME IInv, NEW m \in Member, SyncMember(m) PROVE IInv'
<1>1. /\ Len(members[m]) > 1 /\ members' = [members EXCEPT ![m] = Tail(members[m])] /\ pending' = TRUE
      /\ UNCHANGED <<pod, node, connected, stream, failures, cachedPod, group, cluster, rpc, run,
                     watchPc, watchCopy, repeated>>
      BY DEF SyncMember, nodeVars, watchVars
<1>2. members \in [Member -> Seq(MemberStatus)]
      BY DEF IInv, TypeOK
<1>3. members'[m] = Tail(members[m]) /\ \A n \in Member \ {m} : members'[n] = members[n]
      BY <1>1, <1>2
<1>4. /\ members'[m] \in Seq(MemberStatus) /\ members'[m] # <<>>
      /\ Now(members'[m]) = Now(members[m])
      /\ \A j \in DOMAIN members'[m] :
           (j + 1) \in DOMAIN members[m] /\ members'[m][j] = members[m][j + 1]
      BY <1>1, <1>2, <1>3, Syncing
<1>5. /\ \A n \in Member : Now(members'[n]) = Now(members[n])
      /\ \A n \in Member : \A j \in DOMAIN members'[n] :
           \E k \in DOMAIN members[n] : members'[n][j] = members[n][k]
      BY <1>3, <1>4
<1>6. TypeOK'
  <2>1. members' \in [Member -> Seq(MemberStatus)] /\ \A n \in Member : members'[n] # <<>>
    <3>1. members' \in [Member -> Seq(MemberStatus)]
          BY <1>1, <1>2, <1>3, <1>4
    <3> QED
        BY <1>3, <1>4, <3>1 DEF IInv, TypeOK
  <2> QED
      BY <1>1, <2>1 DEF IInv, TypeOK
<1>7. ContainersFollow'
      BY <1>1, <1>5 DEF IInv, ContainersFollow
<1>8. CopiesCurrent'
      BY <1>1, <1>3 DEF IInv, CopiesCurrent, IsLatest
<1>9. RunFollows'
  <2>1. rpc \in Changing /\ run.member.latest => IsLatest(run.member, members'[run.at])
    <3> SUFFICES ASSUME rpc \in Changing, run.member.latest
                 PROVE IsLatest(run.member, members'[run.at])
        OBVIOUS
    <3>1. run.at \in Member /\ IsLatest(run.member, members[run.at])
          BY DEF IInv, RunFollows
    <3>2. ASSUME run.at = m PROVE FALSE
      <4>1. Len(members[m]) = 1
            BY <3>1, <3>2 DEF IsLatest
      <4>2. Len(members[m]) > 1
            BY <1>1
      <4> QED
          BY <4>1, <4>2
    <3> QED
        BY <1>3, <3>1, <3>2
  <2> QED
      BY <1>1, <2>1 DEF IInv, RunFollows
<1>10. \A n \in Member : IsCurrent(n)' <=> IsCurrent(n)
      BY <1>1, <1>5 DEF IsCurrent
<1>11. RecordedWasTold'
      BY <1>1, <1>10 DEF IInv, RecordedWasTold, CurrentIsBootstrapped
<1>12. ReadyStays'
      BY <1>5, <1>10 DEF IInv, ReadyStays
<1>13. ReadinessFollows'
      BY <1>1, <1>5, <1>10 DEF IInv, ReadinessFollows, Recording
<1> QED
    BY <1>1, <1>6, <1>7, <1>8, <1>9, <1>11, <1>12, <1>13, Requested DEF IInv

LEMMA SyncOwnerStep == ASSUME IInv, SyncGroup \/ SyncCluster \/ Request PROVE IInv'
<1>1. /\ pending' = TRUE
      /\ UNCHANGED <<pod, node, connected, stream, failures, cachedPod, members, rpc, run,
                     watchPc, watchCopy, repeated>>
      BY DEF SyncGroup, SyncCluster, Request, nodeVars, kubeVars, watchVars
<1>2. /\ group' \in Seq(OwnerStatus) /\ group' # <<>>
      /\ cluster' \in Seq(OwnerStatus) /\ cluster' # <<>>
  <2>1. CASE SyncGroup
        BY <2>1, Syncing DEF SyncGroup, IInv, TypeOK
  <2>2. CASE SyncCluster
        BY <2>2, Syncing DEF SyncCluster, IInv, TypeOK
  <2>3. CASE Request
        BY <2>3 DEF Request, kubeVars, IInv, TypeOK
  <2> QED
      BY <2>1, <2>2, <2>3
<1>3. TypeOK'
      BY <1>1, <1>2 DEF IInv, TypeOK
<1> QED
    BY <1>1, <1>3, SameRecords, SameNodes, Requested DEF IInv

-----------------------------------------------------------------------------
\* Writes of a member's status

LEMMA VersionsWritten ==
  ASSUME IInv, NEW m \in Member, NEW status \in MemberStatus, WriteMember(m, status)
  PROVE /\ members' \in [Member -> Seq(MemberStatus)] /\ \A n \in Member : members'[n] # <<>>
        /\ Now(members'[m]) = status
        /\ \A n \in Member \ {m} : members'[n] = members[n]
        /\ \A j \in DOMAIN members'[m] :
             members'[m][j] = status \/ (j \in DOMAIN members[m] /\ members'[m][j] = members[m][j])
        /\ ~CacheCurrent'
<1>1. /\ members \in [Member -> Seq(MemberStatus)] /\ \A n \in Member : members[n] # <<>>
      /\ members' = [members EXCEPT ![m] = Append(members[m], status)]
      BY DEF IInv, TypeOK, WriteMember
<1>2. members'[m] = Append(members[m], status) /\ \A n \in Member \ {m} : members'[n] = members[n]
      BY <1>1
<1>3. /\ members'[m] \in Seq(MemberStatus) /\ members'[m] # <<>> /\ Len(members'[m]) # 1
      /\ Now(members'[m]) = status
      /\ \A j \in DOMAIN members'[m] :
           members'[m][j] = status \/ (j \in DOMAIN members[m] /\ members'[m][j] = members[m][j])
      BY <1>1, <1>2, Writing
<1>4. members' \in [Member -> Seq(MemberStatus)] /\ \A n \in Member : members'[n] # <<>>
  <2>1. members' \in [Member -> Seq(MemberStatus)]
        BY <1>1, <1>2, <1>3
  <2> QED
      BY <1>1, <1>2, <1>3, <2>1
<1> QED
    BY <1>2, <1>3, <1>4 DEF CacheCurrent

LEMMA WrittenFollows ==
  ASSUME IInv, NEW m \in Member, NEW status \in MemberStatus, WriteMember(m, status),
         status.exists, NamesUpTo(status, cachedPod[m]), UNCHANGED <<pod, cachedPod>>
  PROVE ContainersFollow'
BY VersionsWritten DEF IInv, ContainersFollow

\* The status of a version of a member, and of the current one.
LEMMA VersionFollows ==
  ASSUME IInv, NEW m \in Member
  PROVE /\ Now(members[m]) \in MemberStatus /\ NamesUpTo(Now(members[m]), cachedPod[m])
        /\ ~Now(members[m]).exists => Now(members[m]) = NoMember
        /\ Read(members[m]).status \in MemberStatus
        /\ NamesUpTo(Read(members[m]).status, cachedPod[m])
        /\ Read(members[m]) \in MemberCopy
        /\ Read(members[m]).latest => IsLatest(Read(members[m]), members[m])
        /\ \E j \in DOMAIN members[m] : Read(members[m]).status = members[m][j]
<1>1. members[m] \in Seq(MemberStatus) /\ members[m] # <<>>
      BY DEF IInv, TypeOK
<1>2. PICK j \in DOMAIN members[m] : Now(members[m]) = members[m][j] /\ members[m][j] \in MemberStatus
      BY <1>1, NowIsVersion, Reading
<1>3. /\ 1 \in DOMAIN members[m] /\ Read(members[m]).status = members[m][1]
      /\ members[m][1] \in MemberStatus /\ Read(members[m]).latest \in BOOLEAN
      /\ Read(members[m]).latest => IsLatest(Read(members[m]), members[m])
      BY <1>1, Reading DEF IsLatest
<1>4. Read(members[m]) \in MemberCopy
      BY <1>3 DEF Read, MemberCopy
<1> QED
    BY <1>2, <1>3, <1>4 DEF IInv, ContainersFollow

LEMMA RunStaled ==
  ASSUME IInv, NEW m \in Member,
         run' = IF run.at = m THEN [run EXCEPT !.member = Stale(run.member)] ELSE run
  PROVE /\ run' \in Run /\ run'.at = run.at /\ run'.pod = run.pod
        /\ run'.member.status = run.member.status
        /\ run'.member.latest => run.at # m /\ run.member.latest
<1>1. run \in Run /\ run.member \in MemberCopy
      BY DEF IInv, TypeOK, Run
<1>2. CASE run.at = m
      BY <1>1, <1>2, StaleCopies DEF Run
<1>3. CASE run.at # m
      BY <1>1, <1>3
<1> QED
    BY <1>2, <1>3

LEMMA WatchStaled ==
  ASSUME IInv, NEW m \in Member, watchCopy' = [watchCopy EXCEPT ![m] = Stale(watchCopy[m])]
  PROVE /\ watchCopy' \in [Member -> MemberCopy]
        /\ \A n \in Member : watchCopy'[n].latest => n # m /\ watchCopy'[n] = watchCopy[n]
<1>1. watchCopy \in [Member -> MemberCopy]
      BY DEF IInv, TypeOK
<1>2. Stale(watchCopy[m]) \in MemberCopy /\ ~Stale(watchCopy[m]).latest
      BY <1>1, StaleCopies
<1> QED
    BY <1>1, <1>2

\* A watch records another event of a member, which leaves what is modelled alone.
LEMMA TouchMemberStep == ASSUME IInv, NEW m \in Member, TouchMember(m) PROVE IInv'
<1> DEFINE status == Now(members[m])
<1>1. /\ failures < MaxFailures /\ failures' = failures + 1 /\ status.exists
      /\ WriteMember(m, status)
      /\ watchCopy' = [watchCopy EXCEPT ![m] = Stale(watchCopy[m])]
      /\ run' = IF run.at = m THEN [run EXCEPT !.member = Stale(run.member)] ELSE run
      /\ UNCHANGED <<pod, node, connected, stream, cachedPod, group, cluster, pending, rpc, watchPc, repeated>>
      BY DEF TouchMember, Failure
<1>2. status \in MemberStatus /\ NamesUpTo(status, cachedPod[m])
      BY VersionFollows
<1>3. /\ members' \in [Member -> Seq(MemberStatus)] /\ \A n \in Member : members'[n] # <<>>
      /\ Now(members'[m]) = status
      /\ \A n \in Member \ {m} : members'[n] = members[n]
      /\ \A j \in DOMAIN members'[m] :
           members'[m][j] = status \/ (j \in DOMAIN members[m] /\ members'[m][j] = members[m][j])
      /\ ~CacheCurrent'
      BY <1>1, <1>2, VersionsWritten
<1>4. /\ run' \in Run /\ run'.at = run.at /\ run'.pod = run.pod
      /\ run'.member.status = run.member.status
      /\ run'.member.latest => run.at # m /\ run.member.latest
      BY <1>1, RunStaled
<1>5. /\ watchCopy' \in [Member -> MemberCopy]
      /\ \A n \in Member : watchCopy'[n].latest => n # m /\ watchCopy'[n] = watchCopy[n]
      BY <1>1, WatchStaled
<1>6. TypeOK'
  <2>1. failures' \in 0..MaxFailures
        BY <1>1, MemberLifecycleAssumption DEF IInv, TypeOK
  <2> QED
      BY <1>1, <1>3, <1>4, <1>5, <2>1 DEF IInv, TypeOK
<1>7. ContainersFollow'
      BY <1>1, <1>2, WrittenFollows
<1>8. CopiesCurrent'
      BY <1>3, <1>5 DEF IInv, CopiesCurrent, IsLatest
<1>9. RunFollows'
      BY <1>1, <1>3, <1>4 DEF IInv, RunFollows, IsLatest
<1>10. \A n \in Member : Now(members'[n]) = Now(members[n])
      BY <1>3
<1> HIDE DEF status
<1>11. \A n \in Member : IsCurrent(n)' <=> IsCurrent(n)
      BY <1>1, <1>10 DEF IsCurrent
<1>12. RecordedWasTold'
      BY <1>1, <1>4, <1>11 DEF IInv, RecordedWasTold, CurrentIsBootstrapped
<1>13. ReadyStays'
  <2> SUFFICES ASSUME NEW n \in Member, IsCurrent(n), NEW j \in DOMAIN members'[n]
               PROVE /\ members'[n][j].exists
                     /\ members'[n][j].state = "Ready" => Now(members[n]).state = "Ready"
      BY <1>10, <1>11 DEF ReadyStays
  <2>1. CASE j \in DOMAIN members[n] /\ members'[n][j] = members[n][j]
        BY <2>1 DEF IInv, ReadyStays
  <2>2. CASE n = m /\ members'[n][j] = status
        BY <1>1, <2>2 DEF status
  <2> QED
      BY <1>3, <2>1, <2>2
<1>14. ReadinessFollows'
      BY <1>1, <1>4, <1>10, <1>11 DEF IInv, ReadinessFollows, Recording
<1> QED
    BY <1>3, <1>6, <1>7, <1>8, <1>9, <1>12, <1>13, <1>14, Requested DEF IInv

\* Someone else writes the group.
LEMMA TouchGroupStep == ASSUME IInv, TouchGroup PROVE IInv'
<1>1. /\ failures < MaxFailures /\ failures' = failures + 1
      /\ group' = Append(group, Now(group))
      /\ run' = [run EXCEPT !.group = Stale(run.group)]
      /\ UNCHANGED <<pod, node, connected, stream, cachedPod, members, cluster, pending, rpc,
                     watchPc, watchCopy, repeated>>
      BY DEF TouchGroup, Failure, WriteGroup, watchVars
<1>2. group' \in Seq(OwnerStatus) /\ group' # <<>> /\ Len(group') # 1
  <2>1. group \in Seq(OwnerStatus) /\ group # <<>> /\ Now(group) \in OwnerStatus
        BY Reading DEF IInv, TypeOK
  <2> QED
      BY <1>1, <2>1, Writing
<1>3. /\ run' \in Run /\ run'.at = run.at /\ run'.member = run.member /\ run'.pod = run.pod
  <2>1. run \in Run /\ run.group \in OwnerCopy
        BY DEF IInv, TypeOK, Run
  <2> QED
      BY <1>1, <2>1, StaleCopies DEF Run
<1>4. TypeOK'
  <2>1. failures' \in 0..MaxFailures
        BY <1>1, MemberLifecycleAssumption DEF IInv, TypeOK
  <2> QED
      BY <1>1, <1>2, <1>3, <2>1 DEF IInv, TypeOK
<1>5. ContainersFollow' /\ CopiesCurrent' /\ RunFollows' /\ ReadyStays'
      BY <1>1, <1>3 DEF IInv, ContainersFollow, CopiesCurrent, RunFollows, ReadyStays, IsCurrent
<1>6. RecordedWasTold' /\ ReadinessFollows'
      BY <1>1, <1>3
      DEF IInv, RecordedWasTold, CurrentIsBootstrapped, ReadinessFollows, IsCurrent, Recording
<1>7. FindingsHold' /\ StatesFollow'
      BY <1>2, Requested DEF CacheCurrent
<1> QED
    BY <1>4, <1>5, <1>6, <1>7 DEF IInv

-----------------------------------------------------------------------------
\* Ends and steps of a run that write nothing or an owner's state

\* The run is over, and whatever it has not found is requested.
LEMMA ReturnStep ==
  ASSUME IInv, rpc' = "idle", run' = NoRun, pending' \in BOOLEAN,
         pending' = TRUE \/ ~CacheCurrent' \/ StatesFollow',
         group' \in Seq(OwnerStatus), group' # <<>>, cluster' \in Seq(OwnerStatus), cluster' # <<>>,
         failures' \in 0..MaxFailures, node' \in [Member -> {"stopped", "started", "ready"}],
         repeated' \subseteq Member,
         \A n \in Member : /\ node[n] # "stopped" => node'[n] # "stopped"
                           /\ node'[n] = "ready" /\ n \notin repeated' => node[n] = "ready" /\ n \notin repeated,
         UNCHANGED <<pod, connected, stream, cachedPod, members, watchPc, watchCopy>>
  PROVE IInv'
<1>1. TypeOK'
      BY RecordTypes DEF IInv, TypeOK
<1>2. ContainersFollow' /\ CopiesCurrent' /\ RunFollows' /\ ReadyStays'
      BY DEF IInv, ContainersFollow, CopiesCurrent, RunFollows, ReadyStays, IsCurrent, Changing
<1>3. RecordedWasTold' /\ ReadinessFollows'
      BY DEF IInv, RecordedWasTold, CurrentIsBootstrapped, ReadinessFollows, IsCurrent, Recording
<1>4. FindingsHold' /\ StatesFollow'
      BY DEF FindingsHold, StatesFollow, Settled, CacheCurrent, Changing
<1> QED
    BY <1>1, <1>2, <1>3, <1>4 DEF IInv

\* The run goes on to a step other than "version".
LEMMA GotoStep ==
  ASSUME IInv, rpc' \in {"group", "member", "podRef", "notReady", "bootstrap", "upToDate", "groupState",
                         "clusterState"},
         run' \in Run, pending' \in BOOLEAN, RunFollows', FindingsHold',
         UNCHANGED <<pod, node, connected, stream, failures, cachedPod, members, group, cluster,
                     watchPc, watchCopy, repeated>>
  PROVE IInv'
<1>1. TypeOK'
      BY DEF IInv, TypeOK, Steps
<1>2. ContainersFollow' /\ CopiesCurrent' /\ ReadyStays'
      BY DEF IInv, ContainersFollow, CopiesCurrent, ReadyStays, IsCurrent
<1>3. RecordedWasTold' /\ ReadinessFollows'
      BY DEF IInv, RecordedWasTold, CurrentIsBootstrapped, ReadinessFollows, IsCurrent, Recording
<1>4. StatesFollow'
      BY DEF StatesFollow, Settled
<1> QED
    BY <1>1, <1>2, <1>3, <1>4 DEF IInv

LEMMA StartReconcileStep == ASSUME IInv, StartReconcile PROVE IInv'
<1>1. /\ rpc' = "group" /\ run' = [NoRun EXCEPT !.cluster = Read(cluster)] /\ pending' = FALSE
      /\ UNCHANGED <<pod, node, connected, stream, failures, cachedPod, members, group, cluster,
                     watchPc, watchCopy, repeated>>
      BY DEF StartReconcile, nodeVars, kubeVars, watchVars
<1>2. Read(cluster) \in OwnerCopy /\ (Len(cluster) = 1 => Read(cluster).status = Now(cluster))
  <2>1. cluster \in Seq(OwnerStatus) /\ cluster # <<>>
        BY DEF IInv, TypeOK
  <2>2. /\ Read(cluster).status \in OwnerStatus /\ Read(cluster).latest \in BOOLEAN
        /\ Len(cluster) = 1 => Read(cluster).status = Now(cluster)
        BY <2>1, Reading
  <2> QED
      BY <2>2 DEF Read, OwnerCopy
<1>3. run' \in Run /\ run'.cluster = Read(cluster) /\ ~run'.notReady
      BY <1>1, <1>2, RecordTypes DEF Run
<1>4. RunFollows'
      BY <1>1 DEF RunFollows, Changing
<1>5. FindingsHold'
      BY <1>1, <1>2, <1>3 DEF FindingsHold, CacheCurrent, Changing
<1> QED
    BY <1>1, <1>3, <1>4, <1>5, GotoStep

LEMMA ReconcileGroupStep == ASSUME IInv, ReconcileGroup PROVE IInv'
<1>1. /\ rpc = "group"
      /\ UNCHANGED <<pod, node, connected, stream, failures, cachedPod, members, cluster,
                     watchPc, watchCopy, repeated>>
      BY DEF ReconcileGroup, nodeVars, watchVars
<1>2. /\ group \in Seq(OwnerStatus) /\ group # <<>>
      /\ cluster \in Seq(OwnerStatus) /\ cluster # <<>>
      /\ run \in Run /\ pending \in BOOLEAN
      BY DEF IInv, TypeOK
<1>3. CASE Goto("member", [run EXCEPT !.group = Read(group), !.at = 1]) /\ group' = group
  <2>1. Read(group) \in OwnerCopy /\ (Len(group) = 1 => Read(group).status = Now(group))
    <3>1. /\ Read(group).status \in OwnerStatus /\ Read(group).latest \in BOOLEAN
          /\ Len(group) = 1 => Read(group).status = Now(group)
          BY <1>2, Reading
    <3> QED
        BY <3>1 DEF Read, OwnerCopy
  <2>2. /\ run' \in Run /\ run'.at = 1 /\ run'.group = Read(group)
        /\ run'.cluster = run.cluster /\ run'.notReady = run.notReady
    <3>1. 1 \in 0..NumMembers
          BY MemberLifecycleAssumption
    <3>2. PICK c \in OwnerCopy : c = Read(group)
          BY <2>1
    <3>3. run' = [run EXCEPT !.group = c, !.at = 1]
          BY <1>3, <3>2 DEF Goto
    <3> QED
        BY <1>2, <3>1, <3>2, <3>3 DEF Run
  <2>3. rpc' = "member" /\ pending' = pending
        BY <1>3 DEF Goto
  <2>4. RunFollows'
        BY <2>2, <2>3, MemberLifecycleAssumption DEF RunFollows, Changing, Member
  <2>5. FindingsHold'
    <3>1. \A m \in 1..(run'.at - 1) : FALSE
          BY <2>2
    <3> QED
        BY <1>1, <1>3, <2>1, <2>2, <2>3, <3>1 DEF IInv, FindingsHold, CacheCurrent, Changing
  <2> QED
      BY <1>1, <1>2, <1>3, <2>2, <2>3, <2>4, <2>5, GotoStep
<1>4. CASE WriteGroup(NewOwner) /\ Return
  <2>1. group' \in Seq(OwnerStatus) /\ group' # <<>> /\ Len(group') # 1
    <3>1. group' = Append(group, NewOwner) /\ NewOwner \in OwnerStatus
          BY <1>4, RecordTypes DEF WriteGroup
    <3> QED
        BY <1>2, <3>1, Writing
  <2>2. ~CacheCurrent'
        BY <2>1 DEF CacheCurrent
  <2> QED
      BY <1>1, <1>2, <1>4, <2>1, <2>2, ReturnStep DEF Return, IInv, TypeOK
<1>5. CASE ReturnError /\ group' = group
      BY <1>1, <1>2, <1>5, ReturnStep DEF ReturnError, IInv, TypeOK
<1> QED
    BY <1>3, <1>4, <1>5 DEF ReconcileGroup

LEMMA NextMemberStep == ASSUME IInv, NextMember PROVE IInv'
<1> DEFINE notReady == AnyNotReady(run.notReady, run.member.status)
           found(k) == \E m \in 1..k : Now(members[m]).state = "NotReady"
<1>1. /\ rpc = "upToDate"
      /\ UNCHANGED <<pod, node, connected, stream, failures, cachedPod, members, group, cluster,
                     watchPc, watchCopy, repeated>>
      BY DEF NextMember, nodeVars, kubeVars, watchVars
<1>2. run \in Run /\ run.at \in Member /\ pending \in BOOLEAN /\ notReady \in BOOLEAN
      BY <1>1 DEF IInv, TypeOK, RunFollows, AnyNotReady
<1>3. ~pending /\ CacheCurrent => (notReady <=> found(run.at))
  <2> SUFFICES ASSUME ~pending, CacheCurrent PROVE notReady <=> found(run.at)
      OBVIOUS
  <2>1. /\ run.notReady <=> \E m \in 1..(run.at - 1) : Now(members[m]).state = "NotReady"
        /\ run.member.status = Now(members[run.at])
        BY <1>1 DEF IInv, FindingsHold
  <2>2. \A m : m \in 1..run.at <=> m \in 1..(run.at - 1) \/ m = run.at
        BY <1>2, MemberLifecycleAssumption DEF Member
  <2> QED
      BY <2>1, <2>2 DEF AnyNotReady
<1>4. PICK seen \in Run : /\ seen = [run EXCEPT !.notReady = notReady]
                          /\ seen.notReady = notReady /\ seen.at = run.at /\ seen.pod = run.pod
                          /\ seen.member = run.member /\ seen.group = run.group
                          /\ seen.cluster = run.cluster
  <2>1. ASSUME NEW r \in Run, NEW b \in BOOLEAN
        PROVE LET t == [r EXCEPT !.notReady = b]
              IN /\ t \in Run /\ t.notReady = b /\ t.at = r.at /\ t.pod = r.pod
                 /\ t.member = r.member /\ t.group = r.group /\ t.cluster = r.cluster
        BY DEF Run
  <2> HIDE DEF notReady
  <2> QED
      BY <1>2, <2>1
<1>5. pending' = pending
      BY DEF NextMember, Goto
<1>6. CASE run.at < NumMembers
  <2>1. rpc' = "member" /\ run' = [seen EXCEPT !.at = seen.at + 1]
        BY <1>4, <1>6 DEF NextMember, HasNext, Goto
  <2>2. run.at + 1 \in Member /\ run.at + 1 \in 0..NumMembers
        BY <1>2, <1>6, MemberLifecycleAssumption DEF Member
  <2>3. /\ run' \in Run /\ run'.at = run.at + 1 /\ run'.notReady = notReady
        /\ run'.group = run.group /\ run'.cluster = run.cluster
        BY <1>4, <2>1, <2>2 DEF Run
  <2>4. RunFollows'
        BY <2>1, <2>2, <2>3 DEF RunFollows, Changing
  <2>5. run'.at - 1 = run.at
        BY <1>2, <2>3 DEF Member
  <2> HIDE DEF notReady
  <2>6. FindingsHold'
        BY <1>1, <1>3, <1>5, <2>1, <2>3, <2>5 DEF IInv, FindingsHold, CacheCurrent, Changing
  <2> QED
      BY <1>1, <1>2, <1>5, <2>1, <2>3, <2>4, <2>6, GotoStep
<1>7. CASE ~(run.at < NumMembers)
  <2>1. rpc' = "groupState" /\ run' = seen
        BY <1>4, <1>7 DEF NextMember, HasNext, Goto
  <2>2. run.at = NumMembers /\ 1..run.at = Member
        BY <1>2, <1>7, MemberLifecycleAssumption DEF Member
  <2>3. RunFollows'
        BY <1>4, <2>1, <2>2 DEF RunFollows, Changing
  <2> HIDE DEF notReady
  <2>4. FindingsHold'
        BY <1>1, <1>3, <1>4, <1>5, <2>1, <2>2 DEF IInv, FindingsHold, CacheCurrent, Changing
  <2> QED
      BY <1>1, <1>2, <1>4, <1>5, <2>1, <2>3, <2>4, GotoStep
<1> QED
    BY <1>6, <1>7

\* A state that is derived from what was found.
LEMMA StateWritten ==
  ASSUME NEW s \in Seq(OwnerStatus), s # <<>>, NEW o \in OwnerStatus, NEW b \in BOOLEAN
  PROVE LET t == Append(s, [o EXCEPT !.state = Derived(b)])
        IN t \in Seq(OwnerStatus) /\ t # <<>> /\ Len(t) # 1
<1>1. PICK x \in OwnerStatus : x = [o EXCEPT !.state = Derived(b)]
      BY DEF OwnerStatus, Derived
<1> QED
    BY <1>1, Writing

LEMMA SetGroupStateStep == ASSUME IInv, SetGroupState PROVE IInv'
<1> DEFINE state == Derived(run.notReady)
<1>1. /\ rpc = "groupState"
      /\ UNCHANGED <<pod, node, connected, stream, failures, cachedPod, members, cluster,
                     watchPc, watchCopy, repeated>>
      BY DEF SetGroupState, nodeVars, watchVars
<1>2. /\ group \in Seq(OwnerStatus) /\ group # <<>>
      /\ cluster \in Seq(OwnerStatus) /\ cluster # <<>>
      /\ run \in Run /\ run.group.status \in OwnerStatus /\ run.notReady \in BOOLEAN
      /\ pending \in BOOLEAN
      /\ failures \in 0..MaxFailures /\ node \in [Member -> {"stopped", "started", "ready"}]
      /\ repeated \subseteq Member
      BY DEF IInv, TypeOK, Run, OwnerCopy
<1>3. CASE run.group.status.state = state /\ Goto("clusterState", run) /\ group' = group
  <2>1. RunFollows'
        BY <1>3 DEF Goto, RunFollows, Changing
  <2>2. FindingsHold'
        BY <1>1, <1>3 DEF Goto, IInv, FindingsHold, CacheCurrent, Changing
  <2> QED
      BY <1>1, <1>2, <1>3, <2>1, <2>2, GotoStep DEF Goto
<1>4. CASE WriteGroup([run.group.status EXCEPT !.state = state]) /\ Return
  <2>1. group' \in Seq(OwnerStatus) /\ group' # <<>> /\ Len(group') # 1
        BY <1>2, <1>4, StateWritten DEF WriteGroup
  <2>2. ~CacheCurrent'
        BY <2>1 DEF CacheCurrent
  <2> QED
      BY <1>1, <1>2, <1>4, <2>1, <2>2, ReturnStep DEF Return
<1>5. CASE ReturnError /\ group' = group
      BY <1>1, <1>2, <1>5, ReturnStep DEF ReturnError
<1> QED
    BY <1>3, <1>4, <1>5 DEF SetGroupState

LEMMA SetClusterStateStep == ASSUME IInv, SetClusterState PROVE IInv'
<1> DEFINE state == Derived(run.group.status.state = "NotReady")
<1>1. /\ rpc = "clusterState"
      /\ UNCHANGED <<pod, node, connected, stream, failures, cachedPod, members, group,
                     watchPc, watchCopy, repeated>>
      BY DEF SetClusterState, nodeVars, watchVars
<1>2. /\ group \in Seq(OwnerStatus) /\ group # <<>>
      /\ cluster \in Seq(OwnerStatus) /\ cluster # <<>>
      /\ run.cluster.status \in OwnerStatus
      /\ pending \in BOOLEAN
      /\ failures \in 0..MaxFailures /\ node \in [Member -> {"stopped", "started", "ready"}]
      /\ repeated \subseteq Member
      BY DEF IInv, TypeOK, Run, OwnerCopy
<1>3. CASE run.cluster.status.state = state /\ Return /\ cluster' = cluster
  <2>1. StatesFollow'
    <3> SUFFICES ASSUME ~pending, CacheCurrent
                 PROVE /\ Now(group).state = Derived(\E m \in Member : Now(members[m]).state = "NotReady")
                       /\ Now(cluster).state = Now(group).state
        BY <1>1, <1>3 DEF StatesFollow, Settled, CacheCurrent, Return
    <3>1. /\ run.cluster.status = Now(cluster) /\ run.group.status = Now(group)
          /\ run.notReady <=> \E m \in Member : Now(members[m]).state = "NotReady"
          /\ run.group.status.state = Derived(run.notReady)
          BY <1>1 DEF IInv, FindingsHold, Changing
    <3> QED
        BY <1>3, <3>1 DEF Derived
  <2> QED
      BY <1>1, <1>2, <1>3, <2>1, ReturnStep DEF Return
<1>4. CASE cluster' = Append(cluster, [run.cluster.status EXCEPT !.state = state]) /\ Return
  <2>1. cluster' \in Seq(OwnerStatus) /\ cluster' # <<>> /\ Len(cluster') # 1
        BY <1>2, <1>4, StateWritten
  <2>2. ~CacheCurrent'
        BY <2>1 DEF CacheCurrent
  <2> QED
      BY <1>1, <1>2, <1>4, <2>1, <2>2, ReturnStep DEF Return
<1>5. CASE ReturnError /\ cluster' = cluster
      BY <1>1, <1>2, <1>5, ReturnStep DEF ReturnError
<1> QED
    BY <1>3, <1>4, <1>5 DEF SetClusterState

-----------------------------------------------------------------------------
\* Reconciling a member

\* A write of the run, at which it returns. A status that names the container that
\* runs must be the first one to do so, and its process must have been told.
LEMMA WriteReturnStep ==
  ASSUME IInv, NEW m \in Member, NEW status \in MemberStatus, WriteMember(m, status),
         status.exists, NamesUpTo(status, cachedPod[m]),
         rpc' = "idle", run' = NoRun, pending' = pending,
         watchCopy' \in [Member -> MemberCopy],
         \A n \in Member : watchCopy'[n].latest => n # m /\ watchCopy'[n] = watchCopy[n],
         UNCHANGED <<pod, node, connected, stream, failures, cachedPod, group, cluster, watchPc, repeated>>,
         status.podRef = pod[m].uid /\ status.version = pod[m].restarts + 1 =>
           /\ node[m] # "stopped"
           /\ \A j \in DOMAIN members[m] : members[m][j].exists /\ members[m][j].state # "Ready"
           /\ node[m] = "ready" /\ m \notin repeated =>
                ~connected[m] \/ stream[m] > 0 \/ watchPc[m] # "receiving"
  PROVE IInv'
<1>1. /\ members' \in [Member -> Seq(MemberStatus)] /\ \A n \in Member : members'[n] # <<>>
      /\ Now(members'[m]) = status
      /\ \A n \in Member \ {m} : members'[n] = members[n]
      /\ \A j \in DOMAIN members'[m] :
           members'[m][j] = status \/ (j \in DOMAIN members[m] /\ members'[m][j] = members[m][j])
      /\ ~CacheCurrent'
      BY VersionsWritten
<1>2. TypeOK'
      BY <1>1, RecordTypes DEF IInv, TypeOK
<1>3. ContainersFollow'
      BY WrittenFollows
<1>4. CopiesCurrent'
      BY <1>1 DEF IInv, CopiesCurrent, IsLatest
<1>5. RunFollows'
      BY DEF RunFollows, Changing
<1>6. \A n \in Member \ {m} : IsCurrent(n)' <=> IsCurrent(n)
      BY <1>1 DEF IsCurrent
<1>7. IsCurrent(m)' <=> status.podRef = pod[m].uid /\ status.version = pod[m].restarts + 1
      BY <1>1 DEF IsCurrent
<1>8. RecordedWasTold'
      BY <1>6, <1>7 DEF IInv, RecordedWasTold, CurrentIsBootstrapped
<1>9. ReadyStays'
  <2> SUFFICES ASSUME NEW n \in Member, IsCurrent(n)', NEW j \in DOMAIN members'[n]
               PROVE /\ members'[n][j].exists
                     /\ members'[n][j].state = "Ready" => Now(members'[n]).state = "Ready"
      BY DEF ReadyStays
  <2>1. CASE n # m
        BY <1>1, <1>6, <2>1 DEF IInv, ReadyStays
  <2>2. CASE n = m
        BY <1>1, <1>7, <2>2
  <2> QED
      BY <2>1, <2>2
<1>10. ReadinessFollows'
  <2> SUFFICES ASSUME NEW n \in Member \ repeated, node[n] = "ready", IsCurrent(n)',
                      Now(members'[n]).state # "Ready"
               PROVE ~connected[n] \/ stream[n] > 0 \/ watchPc[n] # "receiving"
      BY DEF ReadinessFollows, Recording
  <2>1. CASE n # m
        BY <1>1, <1>6, <2>1 DEF IInv, ReadinessFollows
  <2>2. CASE n = m
        BY <1>7, <2>2
  <2> QED
      BY <2>1, <2>2
<1> QED
    BY <1>1, <1>2, <1>3, <1>4, <1>5, <1>8, <1>9, <1>10, Requested DEF IInv

LEMMA ReconcileMemberStep == ASSUME IInv, ReconcileMember PROVE IInv'
<1> DEFINE m == run.at
           c == Read(members[m])
           p == cachedPod[m]
<1>1. /\ rpc = "member"
      /\ UNCHANGED <<pod, node, connected, stream, failures, cachedPod, group, cluster,
                     watchPc, watchCopy, repeated>>
      BY DEF ReconcileMember, nodeVars, watchVars
<1>2. m \in Member
      BY <1>1 DEF IInv, RunFollows
<1>3. /\ group \in Seq(OwnerStatus) /\ group # <<>>
      /\ cluster \in Seq(OwnerStatus) /\ cluster # <<>>
      /\ run \in Run /\ pending \in BOOLEAN /\ p \in Pod /\ cachedPod[m] = p
      /\ failures \in 0..MaxFailures /\ node \in [Member -> {"stopped", "started", "ready"}]
      /\ repeated \subseteq Member /\ watchCopy \in [Member -> MemberCopy]
      BY <1>2 DEF IInv, TypeOK
<1>4. /\ c \in MemberCopy /\ c.status \in MemberStatus /\ NamesUpTo(c.status, p)
      /\ c.latest => IsLatest(c, members[m])
      BY <1>2, VersionFollows
<1>5. CASE c.status.exists /\ Goto(Decision(c.status, p), [run EXCEPT !.member = c, !.pod = p])
           /\ members' = members
  <2>1. /\ run' \in Run /\ run'.at = m /\ run'.member = c /\ run'.pod = p
        /\ run'.group = run.group /\ run'.cluster = run.cluster /\ run'.notReady = run.notReady
    <3>1. ASSUME NEW x \in MemberCopy, NEW q \in Pod
          PROVE LET t == [run EXCEPT !.member = x, !.pod = q]
                IN /\ t \in Run /\ t.at = run.at /\ t.member = x /\ t.pod = q
                   /\ t.group = run.group /\ t.cluster = run.cluster /\ t.notReady = run.notReady
          BY <1>3 DEF Run
    <3>2. run' = [run EXCEPT !.member = c, !.pod = p]
          BY <1>5 DEF Goto
    <3>3. c \in MemberCopy /\ p \in Pod
          BY <1>3, <1>4
    <3> HIDE DEF c, p
    <3> QED
        BY <3>1, <3>2, <3>3
  <2>2. /\ rpc' = Decision(c.status, p) /\ pending' = pending
        /\ rpc' \in {"podRef", "notReady", "bootstrap", "upToDate"}
        BY <1>3, <1>4, <1>5, Decided DEF Goto
  <2> HIDE DEF c, p
  <2>3. c.status.podRef <= p.uid /\ UpTo(p, p)
        BY <1>3, <1>4 DEF NamesUpTo, UpTo, Pod
  <2>4. RunFollows'
        BY <1>1, <1>2, <1>3, <1>4, <1>5, <2>1, <2>2, <2>3 DEF RunFollows, Changing
  <2>5. FindingsHold'
    <3> SUFFICES ASSUME ~pending, CacheCurrent PROVE FindingsHold'
        BY <1>1, <1>5, <2>2 DEF FindingsHold, CacheCurrent
    <3>1. c.status = Now(members[m])
      <4>1. members[m] \in Seq(MemberStatus) /\ members[m] # <<>> /\ Len(members[m]) = 1
            BY <1>2 DEF IInv, TypeOK, CacheCurrent
      <4> QED
          BY <4>1, Reading DEF c
    <3>2. /\ run.cluster.status = Now(cluster) /\ run.group.status = Now(group)
          /\ run.notReady <=> \E k \in 1..(run.at - 1) : Now(members[k]).state = "NotReady"
          BY <1>1 DEF IInv, FindingsHold
    <3> QED
        BY <1>1, <1>5, <2>1, <2>2, <3>1, <3>2 DEF FindingsHold, Changing
  <2> QED
      BY <1>1, <1>3, <1>5, <2>1, <2>2, <2>4, <2>5, GotoStep
<1>6. CASE ReturnError /\ members' = members
      BY <1>1, <1>3, <1>6, ReturnStep DEF ReturnError
<1>7. CASE ~Now(members[m]).exists /\ WriteMember(m, NewMember) /\ Return
  <2>1. \A n \in Member : watchCopy[n].latest => n # m
        BY <1>7 DEF IInv, CopiesCurrent, IsLatest
  <2>2. NamesUpTo(NewMember, p)
    <3>1. p.uid \in Nat /\ p.restarts \in Nat
          BY <1>3 DEF Pod
    <3>2. NewMember.podRef = 0 /\ NewMember.version = 0
          BY RecordTypes
    <3> HIDE DEF p
    <3> QED
        BY <3>1, <3>2 DEF NamesUpTo
  <2>3. ~(NewMember.version = pod[m].restarts + 1)
    <3>1. pod[m].restarts \in Nat
          BY <1>2 DEF IInv, TypeOK, Pod
    <3>2. NewMember.version = 0
          BY RecordTypes
    <3> QED
        BY <3>1, <3>2
  <2> HIDE DEF p
  <2> QED
      BY <1>1, <1>2, <1>3, <1>7, <2>1, <2>2, <2>3, RecordTypes, WriteReturnStep DEF Return
<1> QED
    BY <1>5, <1>6, <1>7 DEF ReconcileMember

\* UpdateMember's status follows the container that the run has read and, if it names
\* the one that runs, its process has been told.
LEMMA UpdateStep ==
  ASSUME IInv, rpc \in Changing, NEW status \in MemberStatus, UpdateMember(status),
         status.exists, NamesUpTo(status, run.pod),
         run.member.latest /\ status.podRef = pod[run.at].uid
             /\ status.version = pod[run.at].restarts + 1 =>
           /\ node[run.at] # "stopped"
           /\ Now(members[run.at]).exists /\ Now(members[run.at]).state # "Ready"
           /\ node[run.at] = "ready" /\ run.at \notin repeated =>
                ~connected[run.at] \/ stream[run.at] > 0 \/ watchPc[run.at] # "receiving"
  PROVE IInv'
<1>1. PICK m \in Member : m = run.at
      BY DEF IInv, RunFollows, Changing
<1>2. /\ UpTo(run.pod, cachedPod[m]) /\ run.pod \in Pod /\ cachedPod[m] \in Pod
      /\ run.member.latest => IsLatest(run.member, members[m])
      BY <1>1 DEF IInv, RunFollows, TypeOK, Run
<1>3. /\ group \in Seq(OwnerStatus) /\ group # <<>>
      /\ cluster \in Seq(OwnerStatus) /\ cluster # <<>>
      /\ members[m] \in Seq(MemberStatus) /\ members[m] # <<>>
      /\ pending \in BOOLEAN
      /\ failures \in 0..MaxFailures /\ node \in [Member -> {"stopped", "started", "ready"}]
      /\ repeated \subseteq Member
      BY DEF IInv, TypeOK
<1>4. UNCHANGED <<pod, node, connected, stream, failures, cachedPod, group, cluster, watchPc, repeated>>
      BY DEF UpdateMember, nodeVars
<1>5. CASE run.member.latest /\ WriteMember(m, status)
           /\ watchCopy' = [watchCopy EXCEPT ![m] = Stale(watchCopy[m])] /\ Return
  <2>1. /\ watchCopy' \in [Member -> MemberCopy]
        /\ \A n \in Member : watchCopy'[n].latest => n # m /\ watchCopy'[n] = watchCopy[n]
        BY <1>5, WatchStaled
  <2>2. NamesUpTo(status, cachedPod[m])
        BY <1>2, NamesTransitive
  <2>3. \A j \in DOMAIN members[m] : members[m][j] = Now(members[m])
    <3>1. Len(members[m]) = 1 /\ DOMAIN members[m] = 1..Len(members[m])
          BY <1>2, <1>3, <1>5 DEF IsLatest
    <3> QED
        BY <3>1 DEF Now
  <2> QED
      BY <1>1, <1>4, <1>5, <2>1, <2>2, <2>3, WriteReturnStep DEF Return
<1>6. CASE ReturnError /\ members' = members /\ watchCopy' = watchCopy
      BY <1>3, <1>4, <1>6, ReturnStep DEF ReturnError
<1> QED
    BY <1>1, <1>5, <1>6 DEF UpdateMember, Accepted

LEMMA RunTypes ==
  ASSUME IInv, rpc \in Changing
  PROVE /\ run.at \in Member /\ run.member.status \in MemberStatus /\ run.pod \in Pod
        /\ pod[run.at] \in Pod /\ cachedPod[run.at] \in Pod
        /\ run.member.status.exists /\ run.member.status.podRef <= run.pod.uid
        /\ UpTo(run.pod, cachedPod[run.at])
BY DEF IInv, RunFollows, TypeOK, Run, MemberCopy

LEMMA SetPodRefStep == ASSUME IInv, SetPodRef PROVE IInv'
<1>1. rpc = "podRef" /\ rpc \in Changing /\ UpdateMember(MovedTo(run.member.status, run.pod))
      BY DEF SetPodRef, Changing
<1>2. \A s \in MemberStatus, p \in Pod : /\ MovedTo(s, p) \in MemberStatus
                                        /\ MovedTo(s, p).exists = s.exists
                                        /\ MovedTo(s, p).podRef = p.uid /\ MovedTo(s, p).version = 0
      BY DEF MovedTo, MemberStatus, Pod
<1>3. PICK status \in MemberStatus :
        /\ status = MovedTo(run.member.status, run.pod) /\ status.exists
        /\ status.podRef = run.pod.uid /\ status.version = 0
      BY <1>1, <1>2, RunTypes
<1>4. /\ run.pod.uid \in Nat /\ run.pod.restarts \in Nat /\ pod[run.at].restarts \in Nat
      BY <1>1, RunTypes DEF Pod
<1>5. NamesUpTo(status, run.pod) /\ status.version # pod[run.at].restarts + 1
      BY <1>3, <1>4 DEF NamesUpTo
<1> QED
    BY <1>1, <1>3, <1>5, UpdateStep

LEMMA FieldChanged ==
  ASSUME NEW s \in MemberStatus, s.exists
  PROVE /\ \A v \in Nat : LET t == [s EXCEPT !.version = v]
                         IN t \in MemberStatus /\ t.exists /\ t.podRef = s.podRef /\ t.version = v
        /\ \A x \in {"NotReady", "Ready"} :
             LET t == [s EXCEPT !.state = x]
             IN /\ t \in MemberStatus /\ t.exists /\ t.podRef = s.podRef /\ t.version = s.version
                /\ t.state = x
BY DEF MemberStatus

LEMMA SetNotReadyStep == ASSUME IInv, SetNotReady PROVE IInv'
<1> DEFINE s == run.member.status
<1>1. /\ rpc = "notReady" /\ rpc \in Changing
      /\ UpdateMember([s EXCEPT !.state = "NotReady"])
      BY DEF SetNotReady, Changing
<1>2. /\ s \in MemberStatus /\ s.exists /\ run.at \in Member
      /\ s.podRef = run.pod.uid /\ s.version <= run.pod.restarts + 1
  <2>1. Decision(s, run.pod) = "notReady"
        BY <1>1 DEF IInv, RunFollows
  <2>2. s.podRef = run.pod.uid /\ IsNewContainer(s, run.pod)
        BY <1>1, <2>1, Decided, RunTypes
  <2>3. s.version \in Nat /\ run.pod.restarts \in Nat
        BY <1>1, RunTypes DEF Pod, MemberStatus
  <2> QED
      BY <1>1, <2>2, <2>3, RunTypes DEF IsNewContainer
<1>3. PICK status \in MemberStatus :
        /\ status = [s EXCEPT !.state = "NotReady"] /\ status.exists
        /\ status.podRef = s.podRef /\ status.version = s.version
      BY <1>2, FieldChanged
<1>4. NamesUpTo(status, run.pod)
  <2>1. s.podRef \in Nat
        BY <1>2 DEF MemberStatus
  <2> QED
      BY <1>2, <1>3, <2>1 DEF NamesUpTo
<1>5. run.member.latest => ~(s.podRef = pod[run.at].uid /\ s.version = pod[run.at].restarts + 1)
  <2>1. run.member.latest => s = Now(members[run.at])
        BY <1>1 DEF IInv, RunFollows, IsLatest
  <2> QED
      BY <1>1, <2>1, ChangingNotCurrent DEF IsCurrent
<1> QED
    BY <1>1, <1>3, <1>4, <1>5, UpdateStep

LEMMA SetVersionStep == ASSUME IInv, SetVersion PROVE IInv'
<1> DEFINE s == run.member.status
           p == run.pod
           m == run.at
<1>1. /\ rpc = "version" /\ rpc \in Changing
      /\ UpdateMember([s EXCEPT !.version = p.restarts + 1])
      BY DEF SetVersion, Changing
<1>2. s \in MemberStatus /\ s.exists /\ p \in Pod /\ m \in Member /\ pod[m] \in Pod
      BY <1>1, RunTypes
<1>3. s.podRef = p.uid /\ s.state = "NotReady"
  <2>1. Decision(s, p) = "bootstrap"
        BY <1>1 DEF IInv, RunFollows
  <2> QED
      BY <1>2, <2>1, Decided
<1>4. PICK status \in MemberStatus :
        /\ status = [s EXCEPT !.version = p.restarts + 1] /\ status.exists
        /\ status.podRef = p.uid /\ status.version = p.restarts + 1
  <2>1. PICK v \in Nat : v = p.restarts + 1
        BY <1>2 DEF Pod
  <2>2. LET t == [s EXCEPT !.version = v]
        IN t \in MemberStatus /\ t.exists /\ t.podRef = s.podRef /\ t.version = v
    <3> HIDE DEF s
    <3> QED
        BY <1>2, FieldChanged
  <2> QED
      BY <1>3, <2>1, <2>2
<1>5. NamesUpTo(status, p)
      BY <1>2, <1>4 DEF NamesUpTo, Pod
<1>6. status.podRef = pod[m].uid /\ status.version = pod[m].restarts + 1 => p = pod[m]
  <2>1. \A q \in Pod : p.uid = q.uid /\ p.restarts + 1 = q.restarts + 1 => p = q
        BY <1>2 DEF Pod
  <2> QED
      BY <1>2, <1>4, <2>1
<1>7. p = pod[m] => node[m] # "stopped"
      BY <1>1 DEF IInv, RecordedWasTold
<1>8. run.member.latest => Now(members[m]) = s
      BY <1>1 DEF IInv, RunFollows, IsLatest
<1>9. run.member.latest /\ node[m] = "ready" /\ m \notin repeated =>
        ~connected[m] \/ stream[m] > 0 \/ watchPc[m] # "receiving"
      BY <1>1, <1>2, <1>3, <1>8 DEF IInv, ReadinessFollows, Recording
<1> QED
    BY <1>1, <1>2, <1>3, <1>4, <1>5, <1>6, <1>7, <1>8, <1>9, UpdateStep

\* The node is told while it has the pod, not always the container, that was read.
LEMMA BootstrapStep == ASSUME IInv, Bootstrap PROVE IInv'
<1> DEFINE m == run.at
<1>1. /\ rpc = "bootstrap" /\ rpc \in Changing
      /\ UNCHANGED <<pod, connected, stream, cachedPod, members, group, cluster, watchPc, watchCopy>>
      BY DEF Bootstrap, Changing, kubeVars, watchVars
<1>2. /\ m \in Member /\ node \in [Member -> {"stopped", "started", "ready"}]
      /\ repeated \subseteq Member /\ run \in Run /\ pending \in BOOLEAN
      /\ group \in Seq(OwnerStatus) /\ group # <<>>
      /\ cluster \in Seq(OwnerStatus) /\ cluster # <<>>
      /\ failures \in 0..MaxFailures
      BY <1>1, RunTypes DEF IInv, TypeOK
<1>3. ASSUME Bootstrapped(m)
      PROVE /\ node' \in [Member -> {"stopped", "started", "ready"}] /\ repeated' \subseteq Member
            /\ node'[m] # "stopped"
            /\ \A n \in Member :
                 /\ node[n] # "stopped" => node'[n] # "stopped"
                 /\ node'[n] = "ready" /\ n \notin repeated' =>
                      n # m /\ node[n] = "ready" /\ n \notin repeated
      BY <1>2, <1>3 DEF Bootstrapped
<1>4. CASE run.pod.uid = pod[m].uid /\ Bootstrapped(m) /\ Goto("version", run) /\ failures' = failures
  <2>1. rpc' = "version" /\ run' = run /\ pending' = pending
        BY <1>4 DEF Goto
  <2>2. TypeOK'
        BY <1>1, <1>3, <1>4, <2>1 DEF IInv, TypeOK, Steps
  <2>3. ContainersFollow' /\ CopiesCurrent' /\ ReadyStays'
        BY <1>1 DEF IInv, ContainersFollow, CopiesCurrent, ReadyStays, IsCurrent
  <2>4. RunFollows'
        BY <1>1, <2>1 DEF IInv, RunFollows, Changing
  <2>5. \A n \in Member : IsCurrent(n)' <=> IsCurrent(n)
        BY <1>1 DEF IsCurrent
  <2>6. RecordedWasTold'
        BY <1>3, <1>4, <2>1, <2>5 DEF IInv, RecordedWasTold, CurrentIsBootstrapped
  <2>7. ReadinessFollows'
        BY <1>1, <1>3, <1>4, <2>1, <2>5 DEF IInv, ReadinessFollows, Recording
  <2>8. FindingsHold' /\ StatesFollow'
        BY <1>1, <2>1 DEF IInv, FindingsHold, StatesFollow, Settled, CacheCurrent, Changing
  <2> QED
      BY <2>2, <2>3, <2>4, <2>6, <2>7, <2>8 DEF IInv
<1>5. CASE ReturnError /\ UNCHANGED <<node, failures, repeated>>
      BY <1>1, <1>2, <1>5, ReturnStep DEF ReturnError
<1>6. CASE Failure /\ Bootstrapped(m) /\ ReturnError
  <2>1. failures' \in 0..MaxFailures
        BY <1>2, <1>6, MemberLifecycleAssumption DEF Failure
  <2> QED
      BY <1>1, <1>2, <1>3, <1>6, <2>1, ReturnStep DEF ReturnError
<1>7. CASE Failure /\ UNCHANGED <<node, repeated>> /\ ReturnError
  <2>1. failures' \in 0..MaxFailures
        BY <1>2, <1>7, MemberLifecycleAssumption DEF Failure
  <2> QED
      BY <1>1, <1>2, <1>7, <2>1, ReturnStep DEF ReturnError
<1> QED
    BY <1>4, <1>5, <1>6, <1>7 DEF Bootstrap

-----------------------------------------------------------------------------
\* The watch goroutines

LEMMA ReceiveStep == ASSUME IInv, NEW m \in Member, Receive(m) PROVE IInv'
<1>1. /\ stream[m] > 0 /\ stream' = [stream EXCEPT ![m] = stream[m] - 1]
      /\ watchPc' = [watchPc EXCEPT ![m] = "get"]
      /\ UNCHANGED <<pod, node, connected, failures, cachedPod, members, group, cluster, pending, rpc, run,
                     watchCopy, repeated>>
      BY DEF Receive, kubeVars, reconcilerVars
<1>2. /\ stream' \in [Member -> Nat] /\ \A n \in Member \ {m} : stream'[n] = stream[n]
      /\ watchPc' \in [Member -> {"receiving", "get", "update"}]
      /\ watchPc'[m] = "get" /\ \A n \in Member \ {m} : watchPc'[n] = watchPc[n]
      BY <1>1 DEF IInv, TypeOK
<1>3. TypeOK'
      BY <1>1, <1>2 DEF IInv, TypeOK
<1>4. RecordedWasTold'
      BY <1>1 DEF IInv, RecordedWasTold, CurrentIsBootstrapped, IsCurrent
<1>5. \A n \in Member : (IsCurrent(n)' <=> IsCurrent(n)) /\ (Recording(n)' <=> Recording(n))
      BY <1>1 DEF IsCurrent, Recording
<1>6. ReadinessFollows'
      BY <1>1, <1>2, <1>5 DEF IInv, ReadinessFollows
<1> QED
    BY <1>1, <1>3, <1>4, <1>6, SameRecords, SameFindings DEF IInv

\* A goroutine that looks at the cache misses no readiness of the container that is, or
\* is being, put on record: an event is dropped only if the member is Ready already.
LEMMA GetMemberStep == ASSUME IInv, NEW m \in Member, GetMember(m) PROVE IInv'
<1> DEFINE c == Read(members[m])
<1>1. /\ watchPc[m] = "get"
      /\ UNCHANGED <<pod, node, connected, stream, failures, cachedPod, members, group, cluster,
                     pending, rpc, run, repeated>>
      BY DEF GetMember, nodeVars, kubeVars, reconcilerVars
<1>2. /\ c \in MemberCopy /\ (c.latest => IsLatest(c, members[m]))
      /\ \E j \in DOMAIN members[m] : c.status = members[m][j]
      BY VersionFollows
<1>3. watchPc \in [Member -> {"receiving", "get", "update"}] /\ watchCopy \in [Member -> MemberCopy]
      BY DEF IInv, TypeOK
<1>4. /\ watchPc' \in [Member -> {"receiving", "get", "update"}]
      /\ watchCopy' \in [Member -> MemberCopy]
      /\ \A n \in Member \ {m} : watchPc'[n] = watchPc[n] /\ watchCopy'[n] = watchCopy[n]
      /\ watchCopy'[m].latest => watchCopy'[m].status.exists /\ IsLatest(watchCopy'[m], members[m])
      /\ watchPc'[m] = "receiving" => ~(c.status.exists /\ c.status.state # "Ready")
  <2>1. CASE c.status.exists /\ c.status.state # "Ready"
    <3>1. /\ watchPc' = [watchPc EXCEPT ![m] = "update"]
          /\ watchCopy' = [watchCopy EXCEPT ![m] = c]
          BY <2>1 DEF GetMember
    <3> HIDE DEF c
    <3> QED
        BY <1>2, <1>3, <2>1, <3>1
  <2>2. CASE ~(c.status.exists /\ c.status.state # "Ready")
    <3>1. watchPc' = [watchPc EXCEPT ![m] = "receiving"] /\ watchCopy' = watchCopy
          BY <2>2 DEF GetMember
    <3> QED
        BY <1>3, <2>2, <3>1 DEF IInv, CopiesCurrent
  <2> QED
      BY <2>1, <2>2
<1>5. TypeOK'
      BY <1>1, <1>4 DEF IInv, TypeOK
<1>6. ContainersFollow' /\ RunFollows' /\ ReadyStays' /\ RecordedWasTold'
      BY <1>1 DEF IInv, ContainersFollow, RunFollows, ReadyStays, RecordedWasTold,
                  CurrentIsBootstrapped, IsCurrent
<1>7. CopiesCurrent'
      BY <1>1, <1>4 DEF IInv, CopiesCurrent
<1>8. ReadinessFollows'
  <2> SUFFICES ASSUME NEW n \in Member \ repeated, node[n] = "ready", IsCurrent(n) \/ Recording(n)
               PROVE \/ Now(members[n]).state = "Ready"
                     \/ ~connected[n] \/ stream[n] > 0 \/ watchPc'[n] # "receiving"
      BY <1>1 DEF ReadinessFollows, IsCurrent, Recording
  <2>1. CASE n # m
        BY <1>4, <2>1 DEF IInv, ReadinessFollows
  <2>2. CASE n = m /\ watchPc'[m] # "receiving"
        BY <2>2
  <2>3. CASE n = m /\ ~(c.status.exists /\ c.status.state # "Ready")
    <3>1. CASE IsCurrent(m)
          BY <1>2, <2>3, <3>1 DEF IInv, ReadyStays
    <3>2. CASE Recording(m)
      <4>1. rpc = "version" /\ rpc \in Changing /\ run.at = m /\ run.member.latest
            BY <3>2 DEF Recording, Changing
      <4>2. /\ run.member.status.exists /\ Decision(run.member.status, run.pod) = "bootstrap"
            /\ IsLatest(run.member, members[m])
            BY <4>1 DEF IInv, RunFollows
      <4>3. run.member.status.state = "NotReady"
            BY <4>1, <4>2, RunTypes, Decided
      <4>4. members[m] \in Seq(MemberStatus) /\ members[m] # <<>> /\ Len(members[m]) = 1
            BY <4>2 DEF IInv, TypeOK, IsLatest
      <4>5. c.status = run.member.status
            BY <4>2, <4>4, Reading DEF IsLatest
      <4> QED
          BY <2>3, <4>2, <4>3, <4>5
    <3> QED
        BY <2>2, <2>3, <3>1, <3>2
  <2> QED
      BY <1>4, <2>1, <2>2, <2>3
<1> QED
    BY <1>1, <1>5, <1>6, <1>7, <1>8, SameFindings DEF IInv

\* The write starts from the current status, so that only the state changes.
LEMMA SetReadyStep == ASSUME IInv, NEW m \in Member, SetReady(m) PROVE IInv'
<1> DEFINE s == watchCopy[m].status
<1>1. /\ watchCopy[m].latest
      /\ WriteMember(m, [s EXCEPT !.state = "Ready"])
      /\ run' = IF run.at = m THEN [run EXCEPT !.member = Stale(run.member)] ELSE run
      /\ watchPc' = [watchPc EXCEPT ![m] = "receiving"]
      /\ watchCopy' = [watchCopy EXCEPT ![m] = NoMemberCopy]
      /\ UNCHANGED <<pod, node, connected, stream, failures, cachedPod, group, cluster, pending, rpc, repeated>>
      BY DEF SetReady, Accepted, nodeVars
<1>2. s \in MemberStatus /\ s.exists /\ s = Now(members[m]) /\ NamesUpTo(s, cachedPod[m])
  <2>1. s.exists /\ s = Now(members[m])
        BY <1>1 DEF IInv, CopiesCurrent, IsLatest
  <2> QED
      BY <2>1, VersionFollows
<1>3. PICK status \in MemberStatus :
        /\ status = [s EXCEPT !.state = "Ready"] /\ status.exists
        /\ status.podRef = s.podRef /\ status.version = s.version /\ status.state = "Ready"
      BY <1>2, FieldChanged
<1>4. WriteMember(m, status) /\ NamesUpTo(status, cachedPod[m])
      BY <1>1, <1>2, <1>3 DEF NamesUpTo
<1>5. /\ members' \in [Member -> Seq(MemberStatus)] /\ \A n \in Member : members'[n] # <<>>
      /\ Now(members'[m]) = status
      /\ \A n \in Member \ {m} : members'[n] = members[n]
      /\ \A j \in DOMAIN members'[m] :
           members'[m][j] = status \/ (j \in DOMAIN members[m] /\ members'[m][j] = members[m][j])
      /\ ~CacheCurrent'
      BY <1>4, VersionsWritten
<1>6. /\ run' \in Run /\ run'.at = run.at /\ run'.pod = run.pod
      /\ run'.member.status = run.member.status
      /\ run'.member.latest => run.at # m /\ run.member.latest
      BY <1>1, RunStaled
<1>7. /\ watchCopy' \in [Member -> MemberCopy]
      /\ \A n \in Member : watchCopy'[n].latest => n # m /\ watchCopy'[n] = watchCopy[n]
      /\ watchPc' \in [Member -> {"receiving", "get", "update"}]
      /\ \A n \in Member \ {m} : watchPc'[n] = watchPc[n]
  <2>1. NoMemberCopy \in MemberCopy /\ ~NoMemberCopy.latest
        BY RecordTypes
  <2> QED
      BY <1>1, <2>1 DEF IInv, TypeOK
<1>8. TypeOK'
      BY <1>1, <1>5, <1>6, <1>7 DEF IInv, TypeOK
<1>9. ContainersFollow'
      BY <1>1, <1>3, <1>4, WrittenFollows
<1>10. CopiesCurrent'
      BY <1>5, <1>7 DEF IInv, CopiesCurrent, IsLatest
<1>11. RunFollows'
      BY <1>1, <1>5, <1>6 DEF IInv, RunFollows, IsLatest
<1>12. \A n \in Member : IsCurrent(n)' <=> IsCurrent(n)
  <2>1. Now(members'[m]).podRef = Now(members[m]).podRef
        /\ Now(members'[m]).version = Now(members[m]).version
        BY <1>2, <1>3, <1>5
  <2>2. \A n \in Member \ {m} : Now(members'[n]) = Now(members[n])
        BY <1>5
  <2> QED
      BY <1>1, <2>1, <2>2 DEF IsCurrent
<1>13. RecordedWasTold'
      BY <1>1, <1>6, <1>12 DEF IInv, RecordedWasTold, CurrentIsBootstrapped
<1>14. ReadyStays'
  <2> SUFFICES ASSUME NEW n \in Member, IsCurrent(n), NEW j \in DOMAIN members'[n]
               PROVE /\ members'[n][j].exists
                     /\ members'[n][j].state = "Ready" => Now(members'[n]).state = "Ready"
      BY <1>12 DEF ReadyStays
  <2>1. CASE n # m
        BY <1>5, <2>1 DEF IInv, ReadyStays
  <2>2. CASE n = m
        BY <1>3, <1>5, <2>2 DEF IInv, ReadyStays
  <2> QED
      BY <2>1, <2>2
<1>15. ReadinessFollows'
  <2> SUFFICES ASSUME NEW n \in Member \ repeated, node[n] = "ready", IsCurrent(n) \/ Recording(n)',
                      Now(members'[n]).state # "Ready"
               PROVE ~connected[n] \/ stream[n] > 0 \/ watchPc'[n] # "receiving"
      BY <1>1, <1>12 DEF ReadinessFollows
  <2>1. n # m
        BY <1>3, <1>5
  <2>2. IsCurrent(n) \/ Recording(n)
        BY <1>1, <1>6 DEF Recording
  <2> QED
      BY <1>5, <1>7, <2>1, <2>2 DEF IInv, ReadinessFollows
<1> QED
    BY <1>5, <1>8, <1>9, <1>10, <1>11, <1>13, <1>14, <1>15, Requested DEF IInv

LEMMA RetryReadyStep == ASSUME IInv, NEW m \in Member, RetryReady(m) PROVE IInv'
<1>1. /\ watchPc' = [watchPc EXCEPT ![m] = "get"]
      /\ watchCopy' = [watchCopy EXCEPT ![m] = NoMemberCopy]
      /\ UNCHANGED <<pod, node, connected, stream, failures, cachedPod, members, group, cluster,
                     pending, rpc, run, repeated>>
      BY DEF RetryReady, nodeVars, kubeVars, reconcilerVars
<1>2. /\ watchCopy' \in [Member -> MemberCopy]
      /\ \A n \in Member : watchCopy'[n].latest => watchCopy'[n] = watchCopy[n]
      /\ watchPc' \in [Member -> {"receiving", "get", "update"}]
      /\ \A n \in Member : watchPc'[n] = watchPc[n] \/ watchPc'[n] = "get"
  <2>1. NoMemberCopy \in MemberCopy /\ ~NoMemberCopy.latest
        BY RecordTypes
  <2> QED
      BY <1>1, <2>1 DEF IInv, TypeOK
<1>3. TypeOK'
      BY <1>1, <1>2 DEF IInv, TypeOK
<1>4. ContainersFollow' /\ RunFollows' /\ ReadyStays' /\ RecordedWasTold'
      BY <1>1 DEF IInv, ContainersFollow, RunFollows, ReadyStays, RecordedWasTold,
                  CurrentIsBootstrapped, IsCurrent
<1>5. CopiesCurrent'
      BY <1>1, <1>2 DEF IInv, CopiesCurrent
<1>6. ReadinessFollows'
  <2>1. \A n \in Member : (IsCurrent(n)' <=> IsCurrent(n)) /\ (Recording(n)' <=> Recording(n))
        BY <1>1 DEF IsCurrent, Recording
  <2> QED
      BY <1>1, <1>2, <2>1 DEF IInv, ReadinessFollows
<1> QED
    BY <1>1, <1>3, <1>4, <1>5, <1>6, SameFindings DEF IInv

-----------------------------------------------------------------------------
\* Theorems

LEMMA NextIInv == IInv /\ [Next]_vars => IInv'
<1> SUFFICES ASSUME IInv, [Next]_vars PROVE IInv'
    OBVIOUS
<1>1. CASE UNCHANGED vars
  <2>1. TypeOK'
        BY <1>1 DEF IInv, TypeOK, vars, nodeVars, kubeVars, reconcilerVars, watchVars
  <2> QED
      BY <1>1, <2>1, SameRecords, SameNodes, SameFindings
      DEF IInv, vars, nodeVars, kubeVars, reconcilerVars, watchVars
<1>2. ASSUME NEW m \in Member, RestartContainer(m) \/ ReplacePod(m) PROVE IInv'
      BY <1>2, ProcessLostStep
<1>3. ASSUME NEW m \in Member, NodeReady(m) \/ BreakStream(m) \/ TouchMember(m) PROVE IInv'
      BY <1>3, StreamStep, TouchMemberStep
<1>4. CASE TouchGroup \/ Request
      BY <1>4, TouchGroupStep, SyncOwnerStep
<1>5. CASE SyncStep
      BY <1>5, SyncPodStep, SyncMemberStep, SyncOwnerStep DEF SyncStep
<1>6. CASE ReconcileStep
      BY <1>6, StartReconcileStep, ReconcileGroupStep, ReconcileMemberStep, SetPodRefStep,
         SetNotReadyStep, BootstrapStep, SetVersionStep, NextMemberStep, SetGroupStateStep,
         SetClusterStateStep
      DEF ReconcileStep
<1>7. ASSUME NEW m \in Member, WatchStep(m) PROVE IInv'
      BY <1>7, StreamStep, ReceiveStep, GetMemberStep, SetReadyStep, RetryReadyStep DEF WatchStep
<1> QED
    BY <1>1, <1>2, <1>3, <1>4, <1>5, <1>6, <1>7 DEF Next

\* The invariant holds in every state: whatever the reconciler and the watches write
\* follows what the cache knows, and what they can still write is the current version
\* (cluster.go, reconcileMember; watcher.go, tryRecordMemberEvent).
THEOREM InvariantCorrect == Spec => []IInv
<1>1. Init => IInv
      BY InitIInv
<1>2. IInv /\ [Next]_vars => IInv'
      BY NextIInv
<1> QED
    BY <1>1, <1>2, PTL DEF Spec

\* A container that is on record was told to run the member: the version is written
\* after the call, and only if nothing was written since the pod was read (cluster.go,
\* reconcileMember).
THEOREM BootstrappedCorrect == Spec => []CurrentIsBootstrapped
<1>1. IInv => CurrentIsBootstrapped
      BY DEF IInv, RecordedWasTold
<1> QED
    BY <1>1, InvariantCorrect, PTL

\* The reconciler rests only when the states of the group and of the cluster follow
\* (cluster.go, reconcileMembers and reconcileGroups).
THEOREM StatesCorrect == Spec => []StatesFollow
<1>1. IInv => StatesFollow
      BY DEF IInv
<1> QED
    BY <1>1, InvariantCorrect, PTL

\* A readiness is not missed unless the process was told twice (watcher.go,
\* tryRecordMemberEvent and the replay of protocol.go, Watch).
THEOREM ReadinessCorrect == Spec => []ReadinessRecorded
<1>1. IInv => ReadinessRecorded
  <2> SUFFICES ASSUME IInv, NEW m \in Member \ repeated, node[m] = "ready", IsCurrent(m),
                      connected[m], stream[m] = 0, watchPc[m] = "receiving"
               PROVE Now(members[m]).state = "Ready"
      BY DEF ReadinessRecorded
  <2>1. ~(stream[m] > 0)
        OBVIOUS
  <2> QED
      BY <2>1 DEF IInv, ReadinessFollows
<1> QED
    BY <1>1, InvariantCorrect, PTL

-----------------------------------------------------------------------------
\* How the current status of a member changes

\* To a later pod, to a later container of the same pod, or in its state only.
Moved(old, new) ==
  \/ new.podRef > old.podRef /\ new.version = 0
  \/ new.podRef = old.podRef /\ new.version > old.version
  \/ new.podRef = old.podRef /\ new.version = old.version

LEMMA Stays == ASSUME members' = members, NEW m \in Member PROVE Moved(Now(members[m]), Now(members'[m]))
BY DEF Moved

LEMMA SyncMoves ==
  ASSUME IInv, NEW n \in Member, SyncMember(n), NEW m \in Member
  PROVE Moved(Now(members[m]), Now(members'[m]))
<1>1. /\ members \in [Member -> Seq(MemberStatus)] /\ Len(members[n]) > 1
      /\ members' = [members EXCEPT ![n] = Tail(members[n])]
      BY DEF IInv, TypeOK, SyncMember
<1>2. Now(members'[n]) = Now(members[n])
      BY <1>1, Syncing
<1>3. Now(members'[m]) = Now(members[m])
      BY <1>1, <1>2
<1> QED
    BY <1>3 DEF Moved

LEMMA WriteMoves ==
  ASSUME IInv, NEW n \in Member, NEW status \in MemberStatus, WriteMember(n, status),
         Moved(Now(members[n]), status), NEW m \in Member
  PROVE Moved(Now(members[m]), Now(members'[m]))
<1>1. Now(members'[n]) = status /\ (m # n => members'[m] = members[m])
      BY VersionsWritten
<1> QED
    BY <1>1 DEF Moved

\* An update that is accepted starts from the current status.
LEMMA UpdateMoves ==
  ASSUME IInv, rpc \in Changing, NEW status \in MemberStatus, UpdateMember(status),
         Moved(run.member.status, status), NEW m \in Member
  PROVE Moved(Now(members[m]), Now(members'[m]))
<1>1. CASE members' = members
      BY <1>1, Stays
<1>2. CASE Accepted(run.member) /\ WriteMember(run.at, status)
  <2>1. run.at \in Member /\ run.member.status = Now(members[run.at])
        BY <1>2 DEF IInv, RunFollows, IsLatest, Accepted
  <2> QED
      BY <1>2, <2>1, WriteMoves
<1> QED
    BY <1>1, <1>2 DEF UpdateMember

LEMMA ReconcileMoves ==
  ASSUME IInv, ReconcileMember \/ SetPodRef \/ SetNotReady \/ SetVersion, NEW m \in Member
  PROVE Moved(Now(members[m]), Now(members'[m]))
<1> DEFINE s == run.member.status
           p == run.pod
<1>1. CASE ReconcileMember
  <2>1. CASE members' = members
        BY <2>1, Stays
  <2>2. CASE ~Now(members[run.at]).exists /\ WriteMember(run.at, NewMember)
    <3>1. run.at \in Member
          BY <1>1 DEF ReconcileMember, IInv, RunFollows
    <3>2. Now(members[run.at]) = NoMember
          BY <2>2, <3>1, VersionFollows
    <3>3. NewMember \in MemberStatus /\ NewMember.podRef = 0 /\ NewMember.version = 0
          BY RecordTypes
    <3>4. Moved(NoMember, NewMember)
          BY <3>3 DEF Moved, NoMember
    <3> QED
        BY <2>2, <3>1, <3>2, <3>3, <3>4, WriteMoves
  <2> QED
      BY <1>1, <2>1, <2>2 DEF ReconcileMember
<1>2. CASE SetPodRef
  <2>1. rpc = "podRef" /\ rpc \in Changing /\ UpdateMember(MovedTo(s, p))
        BY <1>2 DEF SetPodRef, Changing
  <2>2. s \in MemberStatus /\ p \in Pod /\ s.podRef <= p.uid
        BY <2>1, RunTypes
  <2>3. Decision(s, p) = "podRef"
        BY <2>1 DEF IInv, RunFollows
  <2>4. s.podRef # p.uid
        BY <2>2, <2>3, Decided
  <2> HIDE DEF s, p
  <2>5. /\ MovedTo(s, p) \in MemberStatus
        /\ MovedTo(s, p).podRef = p.uid /\ MovedTo(s, p).version = 0
        BY <2>2 DEF MovedTo, MemberStatus, Pod
  <2>6. s.podRef \in Nat /\ p.uid \in Nat
        BY <2>2 DEF MemberStatus, Pod
  <2>7. Moved(s, MovedTo(s, p))
        BY <2>2, <2>4, <2>5, <2>6 DEF Moved
  <2> QED
      BY <2>1, <2>5, <2>7, UpdateMoves DEF s, p
<1>3. CASE SetNotReady
  <2>1. /\ rpc = "notReady" /\ rpc \in Changing
        /\ UpdateMember([s EXCEPT !.state = "NotReady"])
        BY <1>3 DEF SetNotReady, Changing
  <2>2. s \in MemberStatus /\ s.exists
        BY <2>1, RunTypes
  <2> HIDE DEF s
  <2>3. PICK t \in MemberStatus : /\ t = [s EXCEPT !.state = "NotReady"]
                                  /\ t.podRef = s.podRef /\ t.version = s.version
        BY <2>2, FieldChanged
  <2>4. Moved(s, t)
        BY <2>3 DEF Moved
  <2> QED
      BY <2>1, <2>3, <2>4, UpdateMoves DEF s
<1>4. CASE SetVersion
  <2>1. /\ rpc = "version" /\ rpc \in Changing
        /\ UpdateMember([s EXCEPT !.version = p.restarts + 1])
        BY <1>4 DEF SetVersion, Changing
  <2>2. s \in MemberStatus /\ s.exists /\ p \in Pod
        BY <2>1, RunTypes
  <2>3. Decision(s, p) = "bootstrap"
        BY <2>1 DEF IInv, RunFollows
  <2>4. s.podRef = p.uid /\ IsNewContainer(s, p) /\ s.state = "NotReady"
        BY <2>2, <2>3, Decided
  <2> HIDE DEF s, p
  <2>5. PICK v \in Nat : v = p.restarts + 1 /\ v > 0
        BY <2>2 DEF Pod
  <2>6. PICK t \in MemberStatus : /\ t = [s EXCEPT !.version = v]
                                  /\ t.podRef = s.podRef /\ t.version = v /\ t.state = s.state
    <3>1. \A r \in MemberStatus : LET t == [r EXCEPT !.version = v]
                                  IN /\ t \in MemberStatus /\ t.podRef = r.podRef
                                     /\ t.version = v /\ t.state = r.state
          BY DEF MemberStatus
    <3> QED
        BY <2>2, <3>1
  <2>7. s.version \in Nat /\ (s.version = 0 \/ v > s.version)
        BY <2>2, <2>4, <2>5 DEF IsNewContainer, MemberStatus
  <2>8. Moved(s, t)
        BY <2>4, <2>5, <2>6, <2>7 DEF Moved
  <2> QED
      BY <2>1, <2>5, <2>6, <2>8, UpdateMoves DEF s, p
<1> QED
    BY <1>1, <1>2, <1>3, <1>4

LEMMA WatchMoves ==
  ASSUME IInv, NEW n \in Member, TouchMember(n) \/ SetReady(n), NEW m \in Member
  PROVE Moved(Now(members[m]), Now(members'[m]))
<1>1. CASE TouchMember(n)
  <2>1. WriteMember(n, Now(members[n])) /\ Now(members[n]) \in MemberStatus
        BY <1>1, VersionFollows DEF TouchMember
  <2>2. Moved(Now(members[n]), Now(members[n]))
        BY DEF Moved
  <2> QED
      BY <2>1, <2>2, WriteMoves
<1>2. CASE SetReady(n)
  <2>1. /\ WriteMember(n, [watchCopy[n].status EXCEPT !.state = "Ready"])
        /\ watchCopy[n].status.exists /\ watchCopy[n].status = Now(members[n])
        BY <1>2 DEF SetReady, Accepted, IInv, CopiesCurrent, IsLatest
  <2>2. PICK s \in MemberStatus : s = Now(members[n]) /\ s.exists
        BY <2>1, VersionFollows
  <2>3. PICK t \in MemberStatus : /\ t = [s EXCEPT !.state = "Ready"]
                                  /\ t.podRef = s.podRef /\ t.version = s.version
        BY <2>2, FieldChanged
  <2>4. Moved(s, t)
        BY <2>3 DEF Moved
  <2> QED
      BY <2>1, <2>2, <2>3, <2>4, WriteMoves
<1> QED
    BY <1>1, <1>2

\* No step of any other action writes a member.
LEMMA StatusMoves ==
  ASSUME IInv, [Next]_vars, NEW m \in Member
  PROVE Moved(Now(members[m]), Now(members'[m]))
<1>1. CASE UNCHANGED vars
      BY <1>1, Stays DEF vars, kubeVars
<1>2. ASSUME NEW n \in Member,
             RestartContainer(n) \/ ReplacePod(n) \/ NodeReady(n) \/ BreakStream(n)
      PROVE members' = members
      BY <1>2 DEF RestartContainer, ReplacePod, NodeReady, BreakStream, kubeVars
<1>3. CASE TouchGroup \/ Request
      BY <1>3, Stays DEF TouchGroup, Request, kubeVars
<1>4. ASSUME NEW n \in Member, SyncPod(n) PROVE members' = members
      BY <1>4 DEF SyncPod
<1>5. CASE SyncGroup \/ SyncCluster
      BY <1>5, Stays DEF SyncGroup, SyncCluster
<1>6. CASE StartReconcile \/ ReconcileGroup \/ Bootstrap \/ NextMember \/ SetGroupState \/ SetClusterState
      BY <1>6, Stays
      DEF StartReconcile, ReconcileGroup, Bootstrap, NextMember, SetGroupState, SetClusterState, kubeVars
<1>7. ASSUME NEW n \in Member, Connect(n) \/ Receive(n) \/ GetMember(n) \/ RetryReady(n)
      PROVE members' = members
      BY <1>7 DEF Connect, Receive, GetMember, RetryReady, kubeVars
<1> QED
    BY <1>1, <1>2, <1>3, <1>4, <1>5, <1>6, <1>7, Stays, SyncMoves, ReconcileMoves, WatchMoves
    DEF Next, SyncStep, ReconcileStep, WatchStep

\* No write takes a status back to an earlier pod or container: it is refused unless it
\* starts from the current one (cluster.go, reconcileMember; watcher.go,
\* tryRecordMemberEvent).
THEOREM ContainersCorrect == Spec => ContainersInOrder
<1>1. ASSUME IInv, [Next]_vars, NEW m \in Member
      PROVE LET old == Now(members[m])
                new == Now(members'[m])
            IN \/ new.podRef > old.podRef
               \/ new.podRef = old.podRef /\ new.version >= old.version
  <2>1. PICK old \in MemberStatus : old = Now(members[m])
        BY <1>1, VersionFollows
  <2>2. PICK new : new = Now(members'[m])
        OBVIOUS
  <2>3. Moved(old, new)
        BY <1>1, <2>1, <2>2, StatusMoves
  <2>4. new.podRef > old.podRef \/ (new.podRef = old.podRef /\ new.version >= old.version)
    <3>1. old.version \in Nat
          BY DEF MemberStatus
    <3>2. CASE new.podRef = old.podRef /\ new.version = old.version
          BY <3>1, <3>2
    <3>3. CASE new.podRef = old.podRef /\ new.version > old.version
      <4>1. new.version \in Int
        <5>1. members'[m] \in Seq(MemberStatus) /\ members'[m] # <<>>
              BY <1>1, NextIInv DEF IInv, TypeOK
        <5>2. new \in MemberStatus
              BY <2>2, <5>1, Reading
        <5>3. \A t \in MemberStatus : t.version \in Nat
              BY DEF MemberStatus
        <5> QED
            BY <5>2, <5>3
      <4> QED
          BY <3>1, <3>3, <4>1
    <3> QED
        BY <2>3, <3>2, <3>3 DEF Moved
  <2> QED
      BY <2>1, <2>2, <2>4
<1>2. IInv /\ [Next]_vars =>
        [\A m \in Member :
           LET old == Now(members[m])
               new == Now(members'[m])
           IN \/ new.podRef > old.podRef
              \/ new.podRef = old.podRef /\ new.version >= old.version]_vars
      BY <1>1
<1> QED
    BY <1>2, InvariantCorrect, PTL DEF Spec, ContainersInOrder

-----------------------------------------------------------------------------
\* What requests the cluster

LEMMA RequestStep == [RequestNext]_requestVars => [Next]_vars
<1> SUFFICES ASSUME [RequestNext]_requestVars PROVE [Next]_vars
    OBVIOUS
<1>1. CASE UNCHANGED requestVars
      BY <1>1 DEF requestVars
<1>2. ASSUME NEW m \in Member, LoseContainer(m) PROVE Next
      BY <1>2 DEF LoseContainer, Next
<1>3. ASSUME NEW m \in Member, ProbeSucceeds(m) PROVE UNCHANGED vars
      BY <1>3 DEF ProbeSucceeds
<1>4. CASE SyncStatefulSet
  <2>1. CASE pending
    <3>1. pending' = pending
          BY <1>4, <2>1 DEF SyncStatefulSet
    <3> QED
        BY <1>4, <3>1 DEF SyncStatefulSet, vars, reconcilerVars
  <2>2. CASE ~pending
    <3>1. Request
          BY <1>4, <2>2 DEF SyncStatefulSet, Request
    <3> QED
        BY <3>1 DEF Next
  <2> QED
      BY <2>1, <2>2
<1>5. CASE Resync
      BY <1>5 DEF Resync, Next
<1>6. CASE OtherStep
      BY <1>6 DEF OtherStep, Next
<1> QED
    BY <1>1, <1>2, <1>3, <1>4, <1>5, <1>6 DEF RequestNext

\* Whatever the causes of its requests do, the reconciler behaves as it does when they
\* may come at any time, so that what is proved of that holds of it: a change of the
\* StatefulSet's status puts the cluster in the work queue and does nothing else
\* (cluster.go, addMultiRaftClusterController).
THEOREM RequestsImplement == RequestSpec => Spec /\ []IInv
<1>1. RequestInit => Init
      BY DEF RequestInit
<1>2. RequestSpec => Spec
      BY <1>1, RequestStep, PTL DEF RequestSpec, Spec
<1> QED
    BY <1>2, InvariantCorrect, PTL
=============================================================================
