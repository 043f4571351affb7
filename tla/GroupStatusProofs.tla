------------------------- MODULE GroupStatusProofs -------------------------
(***************************************************************************)
(* Proofs about GroupStatus, for any set of members and all bounds.  IInv is *)
(* the inductive invariant.  Every version of the RaftGroup that can still be *)
(* read is followed by the current one: what a stale read shows to be on      *)
(* record already is on record.  A copy that can still be written is the      *)
(* current version, so that the write follows it.                            *)
(***************************************************************************)
EXTENDS GroupStatus, SequenceTheorems, TLAPS

-----------------------------------------------------------------------------
\* The RaftGroup's versions

LEMMA FollowsReflexive == ASSUME NEW g \in Group PROVE Follows(g, g)
BY DEF Follows

LEMMA FollowsTransitive ==
  ASSUME NEW f \in Group, NEW g \in Group, NEW h \in Group, Follows(f, g), Follows(g, h)
  PROVE Follows(f, h)
BY GroupStatusAssumption DEF Follows, Group, Leader

\* What a version says is not new to any version that follows it.
LEMMA NewsKept ==
  ASSUME NEW g \in Group, NEW h \in Group, Follows(g, h), NEW i \in LeaderInfo,
         News([term |-> h.term, leader |-> h.leader], i)
  PROVE News([term |-> g.term, leader |-> g.leader], i)
BY GroupStatusAssumption DEF Follows, News, Group, LeaderInfo, Leader

\* The updater of tryRecordGroupEvent makes a version that follows the one it was
\* given, lists each member once and has nothing left to learn from the event.
LEMMA UpdatedFollows ==
  ASSUME NEW g \in Group, NEW m \in Member, NEW e \in Event, Updates(g, m, e),
         \A n \in Member : g.followers[n] + (IF g.leader = n THEN 1 ELSE 0) <= 1
  PROVE LET h == Updated(g, m, e)
        IN /\ h \in Group /\ Follows(g, h)
           /\ \A n \in Member : h.followers[n] + (IF h.leader = n THEN 1 ELSE 0) <= 1
           /\ h.term = (IF e.kind = "leader" THEN e.info.term ELSE g.term)
           /\ h.leader = (IF e.kind = "leader" THEN e.info.leader ELSE g.leader)
           /\ ~Updates(h, m, e)
<1> DEFINE h == Updated(g, m, e)
<1>1. /\ g.term \in Nat /\ g.leader \in Leader /\ g.followers \in [Member -> Nat]
      /\ g.state \in BOOLEAN /\ NoMember \notin Member
      /\ e.info.term \in 0..MaxTerm /\ e.info.leader \in Leader
      BY GroupStatusAssumption DEF Group, Event, LeaderInfo
<1>2. CASE e.kind = "leader"
  <2>1. News([term |-> g.term, leader |-> g.leader], e.info)
        BY <1>2 DEF Updates
  <2>2. h = [g EXCEPT !.term = e.info.term, !.leader = e.info.leader,
                      !.followers = NewFollowers(g, e.info.leader)]
        BY <1>2 DEF Updated
  <2>3. /\ h.term = e.info.term /\ h.leader = e.info.leader
        /\ h.followers = NewFollowers(g, e.info.leader)
        BY <2>2 DEF Group
  <2>4. \A n \in Member :
          h.followers[n] = IF n = e.info.leader THEN 0
                           ELSE IF n = g.leader THEN g.followers[n] + 1 ELSE g.followers[n]
        BY <2>3 DEF NewFollowers
  <2>5. h.followers \in [Member -> Nat]
        BY <1>1, <2>3 DEF NewFollowers
  <2>6. h \in Group
        BY <1>1, <2>2, <2>5, <2>3 DEF Group
  <2> HIDE DEF h
  <2>7. \A n \in Member : IsListed(g, n) => IsListed(h, n)
        BY <1>1, <2>3, <2>4 DEF IsListed
  <2>8. Follows(g, h)
        BY <1>1, <2>1, <2>3, <2>7 DEF Follows, News
  <2>9. \A n \in Member : h.followers[n] + (IF h.leader = n THEN 1 ELSE 0) <= 1
        BY <1>1, <2>3, <2>4
  <2>10. ~Updates(h, m, e)
        BY <1>1, <1>2, <2>3 DEF Updates, News
  <2> QED
      BY <1>2, <2>3, <2>6, <2>8, <2>9, <2>10 DEF h
<1>3. CASE e.kind # "leader"
  <2>1. g.leader # m /\ g.followers[m] = 0 /\ e.kind = "ready"
        BY <1>1, <1>3 DEF Updates, IsListed
  <2>2. h = [g EXCEPT !.followers[m] = @ + 1]
        BY <1>3 DEF Updated
  <2>3. /\ h.term = g.term /\ h.leader = g.leader
        /\ h.followers = [g.followers EXCEPT ![m] = @ + 1]
        BY <2>2 DEF Group
  <2>4. h.followers \in [Member -> Nat] /\ h.followers[m] = 1
        /\ \A n \in Member \ {m} : h.followers[n] = g.followers[n]
        BY <1>1, <2>1, <2>3
  <2>5. h \in Group
        BY <2>2, <2>3, <2>4 DEF Group
  <2> HIDE DEF h
  <2>6. Follows(g, h)
        BY <1>1, <2>3, <2>4 DEF Follows, IsListed
  <2>7. \A n \in Member : h.followers[n] + (IF h.leader = n THEN 1 ELSE 0) <= 1
    <3> SUFFICES ASSUME NEW n \in Member
                 PROVE h.followers[n] + (IF h.leader = n THEN 1 ELSE 0) <= 1
        OBVIOUS
    <3>1. CASE n = m
          BY <3>1, <2>1, <2>3, <2>4
    <3>2. CASE n # m
          BY <3>2, <2>3, <2>4
    <3> QED
        BY <3>1, <3>2
  <2>8. ~Updates(h, m, e)
        BY <1>3, <2>4 DEF Updates, IsListed
  <2> QED
      BY <1>3, <2>3, <2>5, <2>6, <2>7, <2>8 DEF h
<1> QED
    BY <1>2, <1>3

\* The current and the cached version are versions.
LEMMA VersionsTyped ==
  ASSUME TypeOK
  PROVE /\ Len(group) \in Nat \ {0} /\ DOMAIN group = 1..Len(group)
        /\ Current \in Group /\ Cached \in Group
        /\ 1 \in DOMAIN group /\ Len(group) \in DOMAIN group
<1>1. group \in Seq(Group) /\ Len(group) \in Nat \ {0} /\ DOMAIN group = 1..Len(group)
      BY DEF TypeOK
<1> QED
    BY <1>1 DEF Current, Cached

\* A write that follows the current version.
LEMMA WriteStep ==
  ASSUME TypeOK, VersionsFollow, NEW h \in Group, Write(h), Follows(Current, h)
  PROVE /\ group' \in Seq(Group) /\ group' # <<>>
        /\ Current' = h /\ VersionsFollow'
<1> DEFINE n == Len(group)
<1>1. group \in Seq(Group) /\ n \in Nat \ {0} /\ group' = Append(group, h) /\ DOMAIN group = 1..n
      BY VersionsTyped DEF TypeOK, Write
<1>2. /\ group' \in Seq(Group) /\ group' # <<>> /\ Len(group') = n + 1
      /\ DOMAIN group' = 1..(n + 1) /\ group'[n + 1] = h
      /\ \A j \in 1..n : group'[j] = group[j] /\ group[j] \in Group
      BY <1>1
<1>3. n \in Nat /\ Current \in Group
      BY <1>1, VersionsTyped
<1> HIDE DEF n
<1>4. Current' = h
      BY <1>2 DEF Current
<1>5. VersionsFollow'
  <2> SUFFICES ASSUME NEW j \in 1..(n + 1) PROVE Follows(group'[j], h)
      BY <1>2, <1>4 DEF VersionsFollow
  <2>1. CASE j = n + 1
        BY <2>1, <1>2, FollowsReflexive
  <2>2. CASE j # n + 1
    <3>1. j \in 1..n
          BY <2>2, <1>3
    <3>2. Follows(group[j], Current)
          BY <3>1, <1>1 DEF VersionsFollow
    <3> QED
        BY <3>1, <3>2, <1>2, <1>3, FollowsTransitive
  <2> QED
      BY <2>1, <2>2
<1> QED
    BY <1>2, <1>4, <1>5

-----------------------------------------------------------------------------
\* The invariant

LEMMA InitIInv == Init => IInv
<1> SUFFICES ASSUME Init PROVE IInv
    OBVIOUS
<1>1. /\ NewGroup \in Group /\ NoInfo \in LeaderInfo /\ MemberReady \in Event /\ NoCopy \in Copy
      /\ NewGroup.leader = NoMember /\ NewGroup.term = 0
      /\ \A m \in Member : NewGroup.followers[m] = 0
      /\ NoInfo.leader = NoMember /\ NoInfo.term = 0 /\ MemberReady.info = NoInfo
      /\ NoCopy.latest = FALSE
      BY GroupStatusAssumption
      DEF NewGroup, Group, NoInfo, LeaderInfo, Leader, MemberReady, Event, NoCopy, Copy
<1>2. /\ group \in Seq(Group) /\ group # <<>> /\ Len(group) = 1 /\ DOMAIN group = {1}
      /\ group[1] = NewGroup /\ Current = NewGroup
      BY <1>1 DEF Init, Current
<1>3. TypeOK
  <2>1. stream \in [Member -> Seq(Event)] /\ elected \in [1..MaxTerm -> Leader]
        BY DEF Init, Leader
  <2>2. /\ view \in [Member -> LeaderInfo] /\ info \in [Member -> LeaderInfo]
        /\ event \in [Member -> Event] /\ copy \in [Member -> Copy] /\ marked \in Copy
        BY <1>1 DEF Init
  <2> QED
      BY <1>2, <2>1, <2>2 DEF Init, TypeOK
<1>4. TermsWon
  <2>1. \A m \in Member : DOMAIN stream[m] = {}
        BY DEF Init
  <2> QED
      BY <1>1, <1>2, <2>1 DEF Init, TermsWon, Won
<1>5. VersionsFollow
      BY <1>1, <1>2, FollowsReflexive DEF VersionsFollow
<1>6. CopiesCurrent
      BY <1>1 DEF Init, CopiesCurrent
<1>7. ListedOnce
      BY <1>1, <1>2, GroupStatusAssumption DEF ListedOnce
<1>8. NothingForgotten
      BY <1>1, <1>2 DEF Init, NothingForgotten, News
<1> QED
    BY <1>3, <1>4, <1>5, <1>6, <1>7, <1>8 DEF IInv

\* A step of Raft, a node or a stream, which leaves the watches, the reconciler and
\* the API server alone.
LEMMA RaftStep ==
  ASSUME IInv, UNCHANGED <<group, watchVars, markVars>>,
         elected' \in [1..MaxTerm -> Leader],
         \A t \in 1..MaxTerm : elected[t] # NoMember => elected'[t] = elected[t],
         view' \in [Member -> LeaderInfo], ready' \in [Member -> BOOLEAN],
         stream' \in [Member -> Seq(Event)], disturbed' \in Nat, lost' \subseteq Member,
         \A m \in Member : /\ Won(view[m])'
                           /\ \A j \in DOMAIN stream'[m] : Won(stream[m][j].info)',
         NothingForgotten'
  PROVE IInv'
<1>1. /\ pc' = pc /\ event' = event /\ copy' = copy /\ info' = info /\ role' = role
      /\ marking' = marking /\ marked' = marked /\ group' = group /\ Current' = Current
      BY DEF watchVars, markVars, Current
<1>2. TypeOK'
      BY <1>1 DEF IInv, TypeOK
<1>3. TermsWon'
  <2>1. Won(Current)'
        BY <1>1 DEF IInv, TermsWon, Won
  <2>2. \A m \in Member : Won(info[m])' /\ Won(event[m].info)'
        BY <1>1 DEF IInv, TermsWon, Won
  <2> QED
      BY <2>1, <2>2 DEF TermsWon
<1>4. VersionsFollow' /\ CopiesCurrent' /\ ListedOnce'
      BY <1>1 DEF IInv, VersionsFollow, CopiesCurrent, ListedOnce
<1> QED
    BY <1>2, <1>3, <1>4 DEF IInv

\* What an event that joins a stream changes there.
LEMMA EmitStep ==
  ASSUME TypeOK, NEW m \in Member, NEW e \in Event, Emit(m, e)
  PROVE /\ stream' \in [Member -> Seq(Event)]
        /\ \A n \in Member \ {m} : stream'[n] = stream[n]
        /\ \A j \in DOMAIN stream'[m] :
             \/ stream'[m][j] = e
             \/ j \in DOMAIN stream[m] /\ stream'[m][j] = stream[m][j]
        /\ \A j \in DOMAIN stream[m] : j \in DOMAIN stream'[m] /\ stream'[m][j] = stream[m][j]
        /\ \E j \in DOMAIN stream'[m] : stream'[m][j] = e
<1>1. /\ stream[m] \in Seq(Event) /\ stream' = [stream EXCEPT ![m] = Append(stream[m], e)]
      /\ stream'[m] = Append(stream[m], e)
      BY DEF Emit, TypeOK
<1> DEFINE n == Len(stream[m])
<1>2. n \in Nat /\ DOMAIN stream[m] = 1..n
      BY <1>1
<1>3. /\ Append(stream[m], e) \in Seq(Event) /\ DOMAIN Append(stream[m], e) = 1..(n + 1)
      /\ Append(stream[m], e)[n + 1] = e
      /\ \A j \in 1..n : Append(stream[m], e)[j] = stream[m][j]
      BY <1>1
<1> HIDE DEF n
<1>4. n + 1 \in 1..(n + 1) /\ \A j \in 1..(n + 1) : j = n + 1 \/ j \in 1..n
      BY <1>2
<1>5. \A j \in 1..n : j \in 1..(n + 1)
      BY <1>2
<1>6. stream' \in [Member -> Seq(Event)] /\ \A k \in Member \ {m} : stream'[k] = stream[k]
      BY <1>1, <1>3 DEF TypeOK
<1> QED
    BY <1>1, <1>2, <1>3, <1>4, <1>5, <1>6

\* A member that announces a leader who won its term.
LEMMA AnnounceStep ==
  ASSUME IInv, NEW m \in Member, NEW t \in 1..MaxTerm, NEW l \in Leader, Announce(m, t, l),
         elected' \in [1..MaxTerm -> Leader],
         \A u \in 1..MaxTerm : elected[u] # NoMember => elected'[u] = elected[u],
         l # NoMember => elected'[t] = l,
         UNCHANGED <<ready, disturbed, group, watchVars, markVars, lost>>
  PROVE IInv'
<1> DEFINE i == [term |-> t, leader |-> l]
<1>1. /\ i \in LeaderInfo /\ LeaderUpdated(i) \in Event /\ LeaderUpdated(i).info = i
      /\ i.term = t /\ i.leader = l
      BY DEF LeaderInfo, LeaderUpdated, Event
<1>2. Emit(m, LeaderUpdated(i)) /\ view' = [view EXCEPT ![m] = i]
      BY DEF Announce
<1> HIDE DEF i
<1>3. /\ view' \in [Member -> LeaderInfo] /\ view'[m] = i
      /\ \A n \in Member \ {m} : view'[n] = view[n]
      BY <1>1, <1>2 DEF IInv, TypeOK
<1>4. /\ stream' \in [Member -> Seq(Event)]
      /\ \A n \in Member \ {m} : stream'[n] = stream[n]
      /\ \A j \in DOMAIN stream'[m] :
           \/ stream'[m][j] = LeaderUpdated(i)
           \/ j \in DOMAIN stream[m] /\ stream'[m][j] = stream[m][j]
      /\ \A j \in DOMAIN stream[m] : j \in DOMAIN stream'[m] /\ stream'[m][j] = stream[m][j]
      /\ \E j \in DOMAIN stream'[m] : stream'[m][j] = LeaderUpdated(i)
      BY <1>1, <1>2, EmitStep DEF IInv
<1>5. \A n \in Member : Won(view[n])'
  <2> SUFFICES ASSUME NEW n \in Member PROVE Won(view[n])'
      OBVIOUS
  <2>1. CASE n = m
        BY <2>1, <1>1, <1>3 DEF Won
  <2>2. CASE n # m
        BY <2>2, <1>3 DEF Won, IInv, TermsWon
  <2> QED
      BY <2>1, <2>2
<1>6. \A n \in Member : \A j \in DOMAIN stream'[n] : Won(stream[n][j].info)'
  <2> SUFFICES ASSUME NEW n \in Member, NEW j \in DOMAIN stream'[n]
               PROVE Won(stream[n][j].info)'
      OBVIOUS
  <2>1. CASE n = m /\ stream'[n][j] = LeaderUpdated(i)
        BY <2>1, <1>1 DEF Won
  <2>2. CASE j \in DOMAIN stream[n] /\ stream'[n][j] = stream[n][j]
        BY <2>2 DEF Won, IInv, TermsWon
  <2> QED
      BY <2>1, <2>2, <1>4
<1>7. /\ Current' = Current /\ pc' = pc /\ event' = event /\ ready' = ready /\ lost' = lost
      BY DEF Current, watchVars
<1>8. \A n \in Member, e \in Event : Pending(n, e) => Pending(n, e)'
  <2> SUFFICES ASSUME NEW n \in Member, NEW e \in Event, Pending(n, e) PROVE Pending(n, e)'
      OBVIOUS
  <2>1. \A j \in DOMAIN stream[n] : j \in DOMAIN stream'[n] /\ stream'[n][j] = stream[n][j]
        BY <1>4
  <2> QED
      BY <1>7, <2>1 DEF Pending
<1>9. NothingForgotten'
  <2> SUFFICES ASSUME NEW n \in Member \ lost
               PROVE /\ News(Current, view'[n]) => Pending(n, LeaderUpdated(view[n]))'
                     /\ ready[n] => IsListed(Current, n) \/ Pending(n, MemberReady)'
      BY <1>7 DEF NothingForgotten
  <2>1. MemberReady \in Event /\ LeaderUpdated(view[n]) \in Event
        BY GroupStatusAssumption
        DEF MemberReady, NoInfo, LeaderUpdated, Event, LeaderInfo, Leader, IInv, TypeOK
  <2>2. ready[n] => IsListed(Current, n) \/ Pending(n, MemberReady)'
        BY <1>8, <2>1 DEF IInv, NothingForgotten
  <2>3. CASE n = m
    <3>1. Pending(n, LeaderUpdated(view[n]))'
          BY <2>3, <1>3, <1>4 DEF Pending
    <3> QED
        BY <2>2, <3>1
  <2>4. CASE n # m
    <3>1. view'[n] = view[n]
          BY <2>4, <1>3
    <3>2. News(Current, view[n]) => Pending(n, LeaderUpdated(view[n]))
          BY DEF IInv, NothingForgotten
    <3>3. PICK e \in Event : e = LeaderUpdated(view[n])
          BY <2>1
    <3>4. Pending(n, LeaderUpdated(view[n])) => Pending(n, e)'
          BY <1>8, <3>3
    <3>5. Pending(n, e)' => Pending(n, LeaderUpdated(view[n]))'
          BY <3>1, <3>3 DEF Pending, LeaderUpdated
    <3> QED
        BY <2>2, <3>1, <3>2, <3>4, <3>5
  <2> QED
      BY <2>3, <2>4
<1> QED
    BY <1>3, <1>4, <1>5, <1>6, <1>9, RaftStep DEF IInv, TypeOK

\* Nobody has won the term yet, so that nothing names another leader for it.
LEMMA ElectStep == ASSUME IInv, NEW m \in Member, NEW t \in 1..MaxTerm, Elect(m, t) PROVE IInv'
<1>1. /\ elected \in [1..MaxTerm -> Leader] /\ elected' = [elected EXCEPT ![t] = m]
      /\ m \in Leader /\ Announce(m, t, m)
      /\ UNCHANGED <<ready, disturbed, group, watchVars, markVars, lost>>
      BY DEF IInv, TypeOK, Elect, Leader
<1>2. elected[t] = NoMember
      BY GroupStatusAssumption DEF Elect
<1> QED
    BY <1>1, <1>2, AnnounceStep

LEMMA ObserveStep ==
  ASSUME IInv, NEW m \in Member, NEW t \in 1..MaxTerm, NEW l \in Leader, Observe(m, t, l)
  PROVE IInv'
<1>1. /\ elected \in [1..MaxTerm -> Leader] /\ elected' = elected /\ Announce(m, t, l)
      /\ l # NoMember => elected'[t] = l
      /\ UNCHANGED <<ready, disturbed, group, watchVars, markVars, lost>>
      BY DEF IInv, TypeOK, Observe
<1> QED
    BY <1>1, AnnounceStep

LEMMA BecomeReadyStep == ASSUME IInv, NEW m \in Member, BecomeReady(m) PROVE IInv'
<1>1. /\ Emit(m, MemberReady) /\ ready' = [ready EXCEPT ![m] = TRUE]
      /\ UNCHANGED <<elected, view, disturbed, group, watchVars, markVars, lost>>
      /\ MemberReady \in Event /\ MemberReady.info = NoInfo /\ NoInfo.leader = NoMember
      BY GroupStatusAssumption
      DEF BecomeReady, MemberReady, NoInfo, Event, LeaderInfo, Leader
<1>2. /\ stream' \in [Member -> Seq(Event)]
      /\ \A n \in Member \ {m} : stream'[n] = stream[n]
      /\ \A j \in DOMAIN stream'[m] :
           \/ stream'[m][j] = MemberReady
           \/ j \in DOMAIN stream[m] /\ stream'[m][j] = stream[m][j]
      /\ \A j \in DOMAIN stream[m] : j \in DOMAIN stream'[m] /\ stream'[m][j] = stream[m][j]
      /\ \E j \in DOMAIN stream'[m] : stream'[m][j] = MemberReady
      BY <1>1, EmitStep DEF IInv
<1>3. \A n \in Member : \A j \in DOMAIN stream'[n] : Won(stream[n][j].info)'
  <2> SUFFICES ASSUME NEW n \in Member, NEW j \in DOMAIN stream'[n]
               PROVE Won(stream[n][j].info)'
      OBVIOUS
  <2>1. CASE n = m /\ stream'[n][j] = MemberReady
        BY <2>1, <1>1 DEF Won
  <2>2. CASE j \in DOMAIN stream[n] /\ stream'[n][j] = stream[n][j]
        BY <2>2, <1>1 DEF Won, IInv, TermsWon
  <2> QED
      BY <2>1, <2>2, <1>2
<1>4. \A n \in Member : Won(view[n])'
      BY <1>1 DEF Won, IInv, TermsWon
<1>5. /\ Current' = Current /\ pc' = pc /\ event' = event /\ view' = view /\ lost' = lost
      BY <1>1 DEF Current, watchVars
<1>6. NothingForgotten'
  <2> SUFFICES ASSUME NEW n \in Member \ lost
               PROVE /\ News(Current, view[n]) => Pending(n, LeaderUpdated(view[n]))'
                     /\ ready'[n] => IsListed(Current, n) \/ Pending(n, MemberReady)'
      BY <1>5 DEF NothingForgotten
  <2>1. \A j \in DOMAIN stream[n] : j \in DOMAIN stream'[n] /\ stream'[n][j] = stream[n][j]
        BY <1>2
  <2>2. Pending(n, LeaderUpdated(view[n])) => Pending(n, LeaderUpdated(view[n]))'
        BY <1>5, <2>1 DEF Pending, LeaderUpdated
  <2>3. Pending(n, MemberReady) => Pending(n, MemberReady)'
        BY <1>5, <2>1 DEF Pending, MemberReady, NoInfo
  <2>4. CASE n = m
    <3>1. Pending(n, MemberReady)'
          BY <2>4, <1>2 DEF Pending, MemberReady, NoInfo
    <3> QED
        BY <2>2, <3>1 DEF IInv, NothingForgotten
  <2>5. CASE n # m
    <3>1. ready'[n] = ready[n]
          BY <2>5, <1>1 DEF IInv, TypeOK
    <3> QED
        BY <2>2, <2>3, <3>1 DEF IInv, NothingForgotten
  <2> QED
      BY <2>4, <2>5
<1> QED
    BY <1>1, <1>2, <1>3, <1>4, <1>6, RaftStep DEF IInv, TypeOK

\* What the replay holds: the leader, if there is a term, and the readiness.
LEMMA ReplayedEvents ==
  ASSUME TypeOK, NEW m \in Member
  PROVE /\ Replayed(m) \in Seq(Event)
        /\ \A j \in DOMAIN Replayed(m) :
             Replayed(m)[j] \in {LeaderUpdated(view[m]), MemberReady}
        /\ view[m].term > 0 =>
             \E j \in DOMAIN Replayed(m) : Replayed(m)[j] = LeaderUpdated(view[m])
        /\ ready[m] => \E j \in DOMAIN Replayed(m) : Replayed(m)[j] = MemberReady
<1> DEFINE a == LeaderUpdated(view[m])
<1> DEFINE b == MemberReady
<1>1. a \in Event /\ b \in Event
      BY GroupStatusAssumption
      DEF TypeOK, LeaderUpdated, MemberReady, NoInfo, Event, LeaderInfo, Leader
<1>2. /\ ready[m] \in BOOLEAN
      /\ Replayed(m) = (IF view[m].term > 0 THEN <<a>> ELSE <<>>)
                         \o (IF ready[m] THEN <<b>> ELSE <<>>)
      BY DEF TypeOK, Replayed
<1> HIDE DEF a, b
<1>3. /\ <<a>> \o <<b>> = <<a, b>> /\ <<a>> \o <<>> = <<a>>
      /\ <<>> \o <<b>> = <<b>> /\ <<>> \o <<>> = <<>>
  <2>1. <<a>> \in Seq(Event) /\ <<b>> \in Seq(Event)
        BY <1>1
  <2>2. <<a>> \o <<b>> = <<a, b>>
    <3>1. /\ <<a>> \o <<b>> \in Seq(Event) /\ Len(<<a>> \o <<b>>) = 2
          /\ \A i \in 1..2 : (<<a>> \o <<b>>)[i] = IF i <= 1 THEN a ELSE b
          BY <1>1, <2>1, ConcatProperties
    <3>2. <<a, b>> \in Seq(Event) /\ Len(<<a, b>>) = 2
          /\ \A i \in 1..2 : <<a, b>>[i] = IF i <= 1 THEN a ELSE b
          BY <1>1
    <3> QED
        BY <3>1, <3>2, SeqEqual
  <2>3. \A s \in Seq(Event) : s \o <<>> = s /\ <<>> \o s = s
        BY ConcatEmptySeq
  <2> QED
      BY <2>1, <2>2, <2>3
<1>4. CASE view[m].term > 0 /\ ready[m]
  <2>1. Replayed(m) = <<a, b>>
        BY <1>2, <1>3, <1>4
  <2> QED
      BY <1>1, <2>1 DEF a, b
<1>5. CASE view[m].term > 0 /\ ~ready[m]
  <2>1. Replayed(m) = <<a>>
        BY <1>2, <1>3, <1>5
  <2> QED
      BY <1>1, <1>5, <2>1 DEF a, b
<1>6. CASE ~(view[m].term > 0) /\ ready[m]
  <2>1. Replayed(m) = <<b>>
        BY <1>2, <1>3, <1>6
  <2> QED
      BY <1>1, <1>6, <2>1 DEF a, b
<1>7. CASE ~(view[m].term > 0) /\ ~ready[m]
  <2>1. Replayed(m) = <<>>
        BY <1>2, <1>3, <1>7
  <2> QED
      BY <1>1, <1>7, <2>1 DEF a, b
<1> QED
    BY <1>4, <1>5, <1>6, <1>7

\* The replay makes up for what was under way.
LEMMA ReconnectStep == ASSUME IInv, NEW m \in Member, Reconnect(m) PROVE IInv'
<1>1. /\ UNCHANGED <<elected, view, ready, group, watchVars, markVars, lost>>
      /\ disturbed' \in Nat /\ stream' = [stream EXCEPT ![m] = Replayed(m)]
      BY DEF Reconnect, IInv, TypeOK
<1>2. /\ Replayed(m) \in Seq(Event)
      /\ \A j \in DOMAIN Replayed(m) : Replayed(m)[j] \in {LeaderUpdated(view[m]), MemberReady}
      /\ view[m].term > 0 =>
           \E j \in DOMAIN Replayed(m) : Replayed(m)[j] = LeaderUpdated(view[m])
      /\ ready[m] => \E j \in DOMAIN Replayed(m) : Replayed(m)[j] = MemberReady
      BY ReplayedEvents DEF IInv
<1>3. /\ stream' \in [Member -> Seq(Event)] /\ stream'[m] = Replayed(m)
      /\ \A n \in Member \ {m} : stream'[n] = stream[n]
      BY <1>1, <1>2 DEF IInv, TypeOK
<1>4. \A n \in Member : Won(view[n])'
      BY <1>1 DEF Won, IInv, TermsWon
<1>5. \A n \in Member : \A j \in DOMAIN stream'[n] : Won(stream[n][j].info)'
  <2> SUFFICES ASSUME NEW n \in Member, NEW j \in DOMAIN stream'[n]
               PROVE Won(stream[n][j].info)'
      OBVIOUS
  <2>1. CASE n = m
    <3>1. stream'[n][j] \in {LeaderUpdated(view[m]), MemberReady}
          BY <2>1, <1>2, <1>3
    <3>2. LeaderUpdated(view[m]).info = view[m] /\ MemberReady.info.leader = NoMember
          BY DEF LeaderUpdated, MemberReady, NoInfo
    <3> QED
        BY <1>1, <3>1, <3>2 DEF Won, IInv, TermsWon
  <2>2. CASE n # m
        BY <2>2, <1>1, <1>3 DEF Won, IInv, TermsWon
  <2> QED
      BY <2>1, <2>2
<1>6. Current' = Current /\ pc' = pc /\ event' = event
      BY <1>1 DEF Current, watchVars
<1>7. NothingForgotten'
  <2> SUFFICES ASSUME NEW n \in Member \ lost
               PROVE /\ News(Current, view[n]) => Pending(n, LeaderUpdated(view[n]))'
                     /\ ready[n] => IsListed(Current, n) \/ Pending(n, MemberReady)'
      BY <1>1, <1>6 DEF NothingForgotten
  <2>1. CASE n = m
    <3>1. News(Current, view[n]) => view[m].term > 0
      <4>1. /\ Current.term \in Nat /\ view[m].term \in Nat
            /\ view[m].leader # NoMember => view[m].term \in 1..MaxTerm
        <5>1. Current \in Group /\ view[m] \in LeaderInfo /\ Won(view[m])
              BY VersionsTyped DEF IInv, TypeOK, TermsWon
        <5> QED
            BY <5>1, GroupStatusAssumption DEF Won, Group, LeaderInfo
      <4> QED
          BY <2>1, <4>1, GroupStatusAssumption DEF News
    <3>2. view[m].term > 0 => Pending(n, LeaderUpdated(view[n]))'
          BY <2>1, <1>1, <1>2, <1>3 DEF Pending, LeaderUpdated
    <3>3. ready[m] => Pending(n, MemberReady)'
          BY <2>1, <1>2, <1>3 DEF Pending, MemberReady, NoInfo
    <3> QED
        BY <2>1, <3>1, <3>2, <3>3
  <2>2. CASE n # m
    <3>1. stream'[n] = stream[n]
          BY <2>2, <1>3
    <3>2. /\ Pending(n, LeaderUpdated(view[n])) => Pending(n, LeaderUpdated(view[n]))'
          /\ Pending(n, MemberReady) => Pending(n, MemberReady)'
          BY <1>1, <1>6, <3>1 DEF Pending, LeaderUpdated, MemberReady, NoInfo
    <3> QED
        BY <3>2 DEF IInv, NothingForgotten
  <2> QED
      BY <2>1, <2>2
<1> QED
    BY <1>1, <1>3, <1>4, <1>5, <1>7, RaftStep DEF IInv, TypeOK

\* The member is one of those that something was lost of.
LEMMA RestartStep == ASSUME IInv, NEW m \in Member, Restart(m) PROVE IInv'
<1>1. /\ UNCHANGED <<elected, group, watchVars, markVars>>
      /\ disturbed' \in Nat /\ stream' = [stream EXCEPT ![m] = <<>>]
      /\ ready' = [ready EXCEPT ![m] = FALSE] /\ lost' = lost \cup {m}
      /\ view' = [view EXCEPT ![m] = [term |-> view[m].term, leader |-> NoMember]]
      BY DEF Restart, IInv, TypeOK
<1>2. [term |-> view[m].term, leader |-> NoMember] \in LeaderInfo
      BY DEF IInv, TypeOK, LeaderInfo, Leader
<1>3. /\ stream' \in [Member -> Seq(Event)] /\ stream'[m] = <<>>
      /\ view' \in [Member -> LeaderInfo] /\ view'[m].leader = NoMember
      /\ ready' \in [Member -> BOOLEAN]
      /\ \A n \in Member \ {m} :
           stream'[n] = stream[n] /\ view'[n] = view[n] /\ ready'[n] = ready[n]
      BY <1>1, <1>2 DEF IInv, TypeOK
<1>4. \A n \in Member : Won(view[n])' /\ \A j \in DOMAIN stream'[n] : Won(stream[n][j].info)'
  <2> SUFFICES ASSUME NEW n \in Member
               PROVE Won(view[n])' /\ \A j \in DOMAIN stream'[n] : Won(stream[n][j].info)'
      OBVIOUS
  <2>1. CASE n = m
        BY <2>1, <1>3 DEF Won
  <2>2. CASE n # m
        BY <2>2, <1>1, <1>3 DEF Won, IInv, TermsWon
  <2> QED
      BY <2>1, <2>2
<1>5. Current' = Current /\ pc' = pc /\ event' = event
      BY <1>1 DEF Current, watchVars
<1>6. NothingForgotten'
  <2> SUFFICES ASSUME NEW n \in Member \ lost'
               PROVE /\ News(Current, view'[n]) => Pending(n, LeaderUpdated(view[n]))'
                     /\ ready'[n] => IsListed(Current, n) \/ Pending(n, MemberReady)'
      BY <1>5 DEF NothingForgotten
  <2>1. n \in Member \ lost /\ n # m
        BY <1>1
  <2>2. /\ Pending(n, LeaderUpdated(view[n])) => Pending(n, LeaderUpdated(view[n]))'
        /\ Pending(n, MemberReady) => Pending(n, MemberReady)'
        BY <1>3, <1>5, <2>1 DEF Pending, LeaderUpdated, MemberReady, NoInfo
  <2> QED
      BY <1>3, <2>1, <2>2 DEF IInv, NothingForgotten
<1>7. lost' \subseteq Member
      BY <1>1 DEF IInv, TypeOK
<1> QED
    BY <1>1, <1>3, <1>4, <1>6, <1>7, RaftStep DEF IInv, TypeOK

\* An event that says nothing new about a version says nothing new about one that
\* follows it.
LEMMA UpdatesKept ==
  ASSUME NEW g \in Group, NEW h \in Group, Follows(g, h), NEW m \in Member, NEW e \in Event,
         Updates(h, m, e)
  PROVE Updates(g, m, e)
<1>1. e.info \in LeaderInfo
      BY DEF Event
<1>2. CASE e.kind = "leader" /\ News([term |-> h.term, leader |-> h.leader], e.info)
      BY <1>1, <1>2, NewsKept DEF Updates
<1>3. CASE e.kind = "ready" /\ ~IsListed(h, m)
      BY <1>3 DEF Updates, Follows
<1> QED
    BY <1>2, <1>3 DEF Updates

\* An announcement may leave its way to the status only when it is there.
LEMMA AnnouncementsStep ==
  ASSUME IInv, UNCHANGED <<view, ready>>, lost \subseteq lost',
         NEW h \in Group, Current' = h, Follows(Current, h),
         \A n \in Member \ lost', e \in Event :
           Pending(n, e) /\ Updates(h, n, e) => Pending(n, e)'
  PROVE NothingForgotten'
<1> SUFFICES ASSUME NEW n \in Member \ lost'
             PROVE /\ News(h, view[n]) => Pending(n, LeaderUpdated(view[n]))'
                   /\ ready[n] => IsListed(h, n) \/ Pending(n, MemberReady)'
    BY DEF NothingForgotten
<1>1. /\ n \in Member \ lost /\ Current \in Group /\ view[n] \in LeaderInfo
      BY VersionsTyped DEF IInv, TypeOK
<1>2. LeaderUpdated(view[n]) \in Event /\ MemberReady \in Event
      BY <1>1, GroupStatusAssumption
      DEF LeaderUpdated, MemberReady, NoInfo, Event, LeaderInfo, Leader
<1>3. ASSUME News(h, view[n]) PROVE Pending(n, LeaderUpdated(view[n]))'
  <2>1. PICK e \in Event : e = LeaderUpdated(view[n])
        BY <1>2
  <2>2. Updates(h, n, e)
        BY <1>3, <2>1 DEF Updates, LeaderUpdated, News
  <2>3. Updates(Current, n, e)
        BY <1>1, <2>2, UpdatesKept
  <2>4. Pending(n, e)
        BY <1>1, <2>1, <2>3 DEF IInv, NothingForgotten, Updates, LeaderUpdated, News
  <2>5. Pending(n, e)'
        BY <2>2, <2>4
  <2> QED
      BY <2>1, <2>5 DEF Pending, LeaderUpdated
<1>4. ASSUME ready[n], ~IsListed(h, n) PROVE Pending(n, MemberReady)'
  <2>1. PICK e \in Event : e = MemberReady
        BY <1>2
  <2>2. Updates(h, n, e)
        BY <1>4, <2>1 DEF Updates, MemberReady
  <2>3. ~IsListed(Current, n)
        BY <1>4 DEF Follows
  <2>4. Pending(n, e)
        BY <1>1, <1>4, <2>1, <2>3 DEF IInv, NothingForgotten
  <2>5. Pending(n, e)'
        BY <2>2, <2>4
  <2> QED
      BY <2>1, <2>5 DEF Pending, MemberReady, NoInfo
<1> QED
    BY <1>3, <1>4

\* The cache takes the next version; the current one stays.
LEMMA SyncCacheStep == ASSUME IInv, SyncCache PROVE IInv'
<1> DEFINE n == Len(group)
<1>1. /\ group \in Seq(Group) /\ n \in Nat \ {0} /\ n > 1 /\ group' = Tail(group)
      /\ DOMAIN group = 1..n /\ \A j \in 1..n : group[j] \in Group
      /\ UNCHANGED <<elected, view, ready, stream, disturbed, pc, event, copy, info, role,
                     marking, marked, lost>>
      BY VersionsTyped DEF IInv, TypeOK, SyncCache, raftVars, watchVars, markVars
<1>2. /\ group' \in Seq(Group) /\ Len(group') = n - 1 /\ DOMAIN group' = 1..(n - 1)
      /\ \A j \in 1..(n - 1) : group'[j] = group[j + 1]
      BY <1>1
<1>3. n \in Nat /\ n > 1 /\ Current = group[n]
      BY <1>1 DEF Current
<1> HIDE DEF n
<1>4. n - 1 \in 1..(n - 1) /\ (n - 1) + 1 = n
      BY <1>3
<1>5. Current' = Current /\ group' # <<>>
      BY <1>2, <1>3, <1>4 DEF Current
<1>6. VersionsFollow'
  <2> SUFFICES ASSUME NEW j \in 1..(n - 1) PROVE Follows(group[j + 1], Current)
      BY <1>2, <1>5 DEF VersionsFollow
  <2>1. j + 1 \in 1..n
        BY <1>3
  <2> QED
      BY <2>1, <1>1 DEF IInv, VersionsFollow
<1>7. TypeOK'
      BY <1>1, <1>2, <1>5 DEF IInv, TypeOK
<1>8. TermsWon' /\ ListedOnce' /\ CopiesCurrent'
      BY <1>1, <1>5 DEF IInv, TermsWon, Won, ListedOnce, CopiesCurrent
<1>9. NothingForgotten'
  <2>1. Current \in Group /\ Follows(Current, Current)
        BY VersionsTyped, FollowsReflexive DEF IInv
  <2>2. \A m \in Member \ lost', e \in Event : Pending(m, e) => Pending(m, e)'
        BY <1>1 DEF Pending
  <2> QED
      BY <1>1, <1>5, <2>1, <2>2, AnnouncementsStep
<1> QED
    BY <1>6, <1>7, <1>8, <1>9 DEF IInv

\* The event that leaves the stream is the goroutine's.
LEMMA ReceiveStep == ASSUME IInv, NEW m \in Member, Receive(m) PROVE IInv'
<1> DEFINE e == Head(stream[m])
<1> DEFINE k == Len(stream[m])
<1>1. /\ stream[m] \in Seq(Event) /\ stream[m] # <<>> /\ pc[m] = "receiving"
      /\ stream' = [stream EXCEPT ![m] = Tail(stream[m])]
      /\ event' = [event EXCEPT ![m] = e] /\ pc' = [pc EXCEPT ![m] = "group"]
      /\ disturbed' \in Nat
      /\ UNCHANGED <<elected, view, ready, group, copy, marking, marked, lost>>
      BY DEF IInv, TypeOK, Receive, markVars
<1>2. /\ k \in Nat \ {0} /\ e = stream[m][1] /\ e \in Event /\ Tail(stream[m]) \in Seq(Event)
      /\ DOMAIN stream[m] = 1..k /\ 1 \in 1..k
      /\ DOMAIN Tail(stream[m]) = 1..(k - 1)
      /\ \A j \in 1..(k - 1) : Tail(stream[m])[j] = stream[m][j + 1]
      BY <1>1
<1>3. RecordMember(m, e) \/ UNCHANGED <<info, role>>
      BY DEF Receive
<1>4. k \in Nat \ {0}
      BY <1>2
<1>5. Won(e.info)
      BY <1>2 DEF IInv, TermsWon
<1> HIDE DEF e, k
<1>6. /\ stream' \in [Member -> Seq(Event)] /\ stream'[m] = Tail(stream[m])
      /\ event' \in [Member -> Event] /\ event'[m] = e
      /\ pc' \in [Member -> {"receiving", "group", "update"}] /\ pc'[m] = "group"
      /\ \A n \in Member \ {m} : /\ stream'[n] = stream[n]
                                 /\ event'[n] = event[n] /\ pc'[n] = pc[n]
      BY <1>1, <1>2 DEF IInv, TypeOK
<1>7. /\ info' \in [Member -> LeaderInfo] /\ role' \in [Member -> {"none", "Leader", "Follower"}]
      /\ \A n \in Member : info'[n] \in {info[n], e.info}
      BY <1>2, <1>3 DEF IInv, TypeOK, RecordMember, Event
<1>8. \A j \in 1..(k - 1) : j + 1 \in 1..k
      BY <1>4
<1>9. \A j \in 1..k : j = 1 \/ (j - 1 \in 1..(k - 1) /\ (j - 1) + 1 = j)
      BY <1>4
<1>10. TypeOK'
      BY <1>1, <1>6, <1>7 DEF IInv, TypeOK
<1>11. Current' = Current
      BY <1>1 DEF Current
<1>12. TermsWon'
  <2>1. Won(Current)'
        BY <1>1, <1>11 DEF IInv, TermsWon, Won
  <2>2. \A n \in Member : Won(view[n])' /\ Won(info[n])'
        BY <1>1, <1>5, <1>7 DEF IInv, TermsWon, Won
  <2>3. \A n \in Member : Won(event[n].info)'
    <3> SUFFICES ASSUME NEW n \in Member PROVE Won(event[n].info)'
        OBVIOUS
    <3>1. CASE n = m
          BY <3>1, <1>1, <1>5, <1>6 DEF Won
    <3>2. CASE n # m
          BY <3>2, <1>1, <1>6 DEF IInv, TermsWon, Won
    <3> QED
        BY <3>1, <3>2
  <2>4. \A n \in Member : \A j \in DOMAIN stream'[n] : Won(stream[n][j].info)'
    <3> SUFFICES ASSUME NEW n \in Member, NEW j \in DOMAIN stream'[n]
                 PROVE Won(stream[n][j].info)'
        OBVIOUS
    <3>1. CASE n = m
      <4>1. j + 1 \in DOMAIN stream[m] /\ stream'[n][j] = stream[m][j + 1]
            BY <3>1, <1>2, <1>6, <1>8
      <4> QED
          BY <4>1, <1>1 DEF IInv, TermsWon, Won
    <3>2. CASE n # m
          BY <3>2, <1>1, <1>6 DEF IInv, TermsWon, Won
    <3> QED
        BY <3>1, <3>2
  <2> QED
      BY <2>1, <2>2, <2>3, <2>4 DEF TermsWon
<1>13. VersionsFollow' /\ ListedOnce'
      BY <1>1, <1>11 DEF IInv, VersionsFollow, ListedOnce
<1>14. CopiesCurrent'
  <2> SUFFICES ASSUME NEW n \in Member, copy[n].latest
               PROVE pc'[n] = "update" /\ copy[n].status = Current /\ Updates(Current, n, event'[n])
      BY <1>1, <1>11 DEF IInv, CopiesCurrent
  <2>1. n # m
        BY <1>1 DEF IInv, CopiesCurrent
  <2> QED
      BY <2>1, <1>6 DEF IInv, CopiesCurrent
<1>15. NothingForgotten'
  <2>1. Current \in Group /\ Follows(Current, Current)
        BY VersionsTyped, FollowsReflexive DEF IInv
  <2>2. ASSUME NEW n \in Member, NEW f \in Event, Pending(n, f) PROVE Pending(n, f)'
    <3>1. CASE n # m
          BY <2>2, <3>1, <1>6 DEF Pending
    <3>2. CASE n = m
      <4>1. PICK j \in 1..k : stream[m][j] = f
            BY <2>2, <3>2, <1>1, <1>2 DEF Pending
      <4>2. CASE j = 1
            BY <4>1, <4>2, <3>2, <1>2, <1>6 DEF Pending
      <4>3. CASE j # 1
        <5>1. j - 1 \in DOMAIN stream'[m] /\ stream'[m][j - 1] = f
              BY <4>1, <4>3, <1>2, <1>6, <1>9
        <5> QED
            BY <5>1, <3>2 DEF Pending
      <4> QED
          BY <4>2, <4>3
    <3> QED
        BY <3>1, <3>2
  <2> QED
      BY <1>1, <1>11, <2>1, <2>2, AnnouncementsStep
<1> QED
    BY <1>10, <1>12, <1>13, <1>14, <1>15 DEF IInv

\* A step of a watch that records its event, or of the reconciler: the current
\* version becomes h or stays it.
LEMMA RecordStep ==
  ASSUME IInv, UNCHANGED <<elected, view, ready, stream, info, role>>,
         group' \in Seq(Group), group' # <<>>, VersionsFollow',
         NEW h \in Group, Current' = h, Follows(Current, h), Won(h), ListedOnce',
         pc' \in [Member -> {"receiving", "group", "update"}], event' \in [Member -> Event],
         copy' \in [Member -> Copy], marking' \in BOOLEAN, marked' \in Copy,
         disturbed' \in Nat, lost' \subseteq Member, lost \subseteq lost',
         \A n \in Member : event'[n] \in {event[n], MemberReady},
         CopiesCurrent',
         \A n \in Member \ lost' :
           pc[n] # "receiving" /\ Updates(h, n, event[n])
             => pc'[n] # "receiving" /\ event'[n] = event[n]
  PROVE IInv'
<1>1. TypeOK'
      BY DEF IInv, TypeOK
<1>2. TermsWon'
  <2>1. Won(Current)'
        BY DEF Won
  <2>2. \A n \in Member : Won(event[n].info)'
        BY DEF IInv, TermsWon, Won, MemberReady, NoInfo
  <2>3. \A n \in Member : /\ Won(view[n])' /\ Won(info[n])'
                          /\ \A j \in DOMAIN stream'[n] : Won(stream[n][j].info)'
        BY DEF IInv, TermsWon, Won
  <2> QED
      BY <2>1, <2>2, <2>3 DEF TermsWon
<1>3. NothingForgotten'
  <2>1. \A n \in Member \ lost', e \in Event :
          Pending(n, e) /\ Updates(h, n, e) => Pending(n, e)'
    <3> SUFFICES ASSUME NEW n \in Member \ lost', NEW e \in Event,
                        Pending(n, e), Updates(h, n, e)
                 PROVE Pending(n, e)'
        OBVIOUS
    <3>1. CASE pc[n] # "receiving" /\ event[n] = e
          BY <3>1 DEF Pending
    <3>2. CASE \E j \in DOMAIN stream[n] : stream[n][j] = e
          BY <3>2 DEF Pending
    <3> QED
        BY <3>1, <3>2 DEF Pending
  <2> QED
      BY <2>1, AnnouncementsStep
<1> QED
    BY <1>1, <1>2, <1>3 DEF IInv

\* When the group is left alone, the current version stays it.
LEMMA GroupLeft ==
  ASSUME IInv, UNCHANGED <<elected, group>>
  PROVE /\ group' \in Seq(Group) /\ group' # <<>> /\ VersionsFollow' /\ ListedOnce'
        /\ Current \in Group /\ Current' = Current /\ Follows(Current, Current) /\ Won(Current)
<1>1. Current \in Group /\ Current' = Current
      BY VersionsTyped DEF IInv, Current
<1> QED
    BY <1>1, FollowsReflexive DEF IInv, TypeOK, VersionsFollow, ListedOnce, TermsWon

\* What Done leaves of the goroutine's event.
LEMMA DoneStep ==
  ASSUME TypeOK, NEW m \in Member, Done(m)
  PROVE /\ pc' \in [Member -> {"receiving", "group", "update"}]
        /\ event' \in [Member -> Event]
        /\ event'[m] = MemberReady
        /\ \A n \in Member \ {m} : pc'[n] = pc[n] /\ event'[n] = event[n]
<1>1. MemberReady \in Event
      BY GroupStatusAssumption DEF MemberReady, NoInfo, Event, LeaderInfo, Leader
<1> QED
    BY <1>1 DEF TypeOK, Done

\* What the cache shows to be on record already is on record.
LEMMA GetGroupStep == ASSUME IInv, NEW m \in Member, GetGroup(m) PROVE IInv'
<1>1. /\ pc[m] = "group" /\ UNCHANGED <<elected, view, ready, stream, disturbed, group, info, role,
                                        marking, marked, lost>>
      BY DEF GetGroup, raftVars, markVars
<1>2. /\ group' \in Seq(Group) /\ group' # <<>> /\ VersionsFollow' /\ ListedOnce'
      /\ Current \in Group /\ Current' = Current /\ Follows(Current, Current) /\ Won(Current)
      BY <1>1, GroupLeft
<1>3. /\ Cached \in Group /\ Follows(Cached, Current)
      BY VersionsTyped DEF IInv, VersionsFollow, Cached
<1>4. CASE Updates(Cached, m, event[m])
  <2>1. /\ pc' = [pc EXCEPT ![m] = "update"] /\ copy' = [copy EXCEPT ![m] = ReadCache]
        /\ event' = event
        BY <1>4 DEF GetGroup
  <2>2. /\ ReadCache \in Copy
        /\ ReadCache.latest => ReadCache.status = Cached /\ Cached = Current
    <3>1. NoCopy \in Copy /\ NoCopy.latest = FALSE
          BY GroupStatusAssumption DEF NoCopy, Copy, NewGroup, Group, Leader
    <3>2. CASE Len(group) = 1
          BY <1>3, <3>2 DEF ReadCache, Copy, Cached, Current
    <3>3. CASE Len(group) # 1
          BY <3>1, <3>3 DEF ReadCache
    <3> QED
        BY <3>2, <3>3
  <2>3. /\ pc' \in [Member -> {"receiving", "group", "update"}] /\ pc'[m] = "update"
        /\ copy' \in [Member -> Copy] /\ copy'[m] = ReadCache
        /\ \A n \in Member \ {m} : pc'[n] = pc[n] /\ copy'[n] = copy[n]
        BY <2>1, <2>2 DEF IInv, TypeOK
  <2>4. CopiesCurrent'
    <3>1. \A n \in Member : copy'[n].latest =>
            pc'[n] = "update" /\ copy'[n].status = Current /\ Updates(Current, n, event[n])
      <4> SUFFICES ASSUME NEW n \in Member, copy'[n].latest
                   PROVE /\ pc'[n] = "update" /\ copy'[n].status = Current
                         /\ Updates(Current, n, event[n])
          OBVIOUS
      <4>1. CASE n = m
            BY <4>1, <1>4, <2>2, <2>3
      <4>2. CASE n # m
            BY <4>2, <2>3 DEF IInv, CopiesCurrent
      <4> QED
          BY <4>1, <4>2
    <3> QED
        BY <1>1, <1>2, <2>1, <3>1 DEF IInv, CopiesCurrent
  <2>5. \A n \in Member \ lost' :
          pc[n] # "receiving" /\ Updates(Current, n, event[n])
            => pc'[n] # "receiving" /\ event'[n] = event[n]
        BY <2>1, <2>3
  <2>6. /\ event' \in [Member -> Event] /\ \A n \in Member : event'[n] \in {event[n], MemberReady}
        /\ marking' \in BOOLEAN /\ marked' \in Copy /\ disturbed' \in Nat
        /\ lost' \subseteq Member /\ lost \subseteq lost'
        BY <1>1, <2>1 DEF IInv, TypeOK
  <2> QED
      BY <1>1, <1>2, <2>3, <2>4, <2>5, <2>6, RecordStep
<1>5. CASE ~Updates(Cached, m, event[m])
  <2>1. Done(m) /\ copy' = copy
        BY <1>5 DEF GetGroup
  <2>2. /\ pc' \in [Member -> {"receiving", "group", "update"}]
        /\ event' \in [Member -> Event] /\ event'[m] = MemberReady
        /\ \A n \in Member \ {m} : pc'[n] = pc[n] /\ event'[n] = event[n]
        BY <2>1, DoneStep DEF IInv
  <2>3. ~Updates(Current, m, event[m])
    <3>1. event[m] \in Event
          BY DEF IInv, TypeOK
    <3> QED
        BY <1>2, <1>3, <1>5, <3>1, UpdatesKept
  <2>4. CopiesCurrent'
    <3>1. \A n \in Member : copy[n].latest => n # m
          BY <1>1 DEF IInv, CopiesCurrent
    <3> QED
        BY <1>1, <1>2, <2>1, <2>2, <3>1 DEF IInv, CopiesCurrent
  <2>5. \A n \in Member \ lost' :
          pc[n] # "receiving" /\ Updates(Current, n, event[n])
            => pc'[n] # "receiving" /\ event'[n] = event[n]
        BY <2>2, <2>3
  <2>6. /\ \A n \in Member : event'[n] \in {event[n], MemberReady}
        /\ copy' \in [Member -> Copy]
        /\ marking' \in BOOLEAN /\ marked' \in Copy /\ disturbed' \in Nat
        /\ lost' \subseteq Member /\ lost \subseteq lost'
        BY <1>1, <2>1, <2>2 DEF IInv, TypeOK
  <2> QED
      BY <1>1, <1>2, <2>2, <2>4, <2>5, <2>6, RecordStep
<1> QED
    BY <1>4, <1>5

\* The copy is the current version: the status that is written follows it.
LEMMA UpdateGroupStep == ASSUME IInv, NEW m \in Member, UpdateGroup(m) PROVE IInv'
<1> DEFINE h == Updated(Current, m, event[m])
<1>1. /\ pc[m] = "update" /\ copy[m].status = Current /\ Updates(Current, m, event[m])
      /\ Write(h) /\ Done(m) /\ copy' = [n \in Member |-> NoCopy] /\ marked' = NoCopy
      /\ UNCHANGED <<elected, view, ready, stream, disturbed, info, role, marking, lost>>
      BY DEF UpdateGroup, Accepted, IInv, CopiesCurrent, raftVars
<1>2. Current \in Group /\ event[m] \in Event /\ Won(Current) /\ Won(event[m].info)
      BY VersionsTyped DEF IInv, TypeOK, TermsWon
<1>3. \A n \in Member : Current.followers[n] + (IF Current.leader = n THEN 1 ELSE 0) <= 1
      BY DEF IInv, ListedOnce
<1>4. /\ h \in Group /\ Follows(Current, h)
      /\ \A n \in Member : h.followers[n] + (IF h.leader = n THEN 1 ELSE 0) <= 1
      /\ h.term = (IF event[m].kind = "leader" THEN event[m].info.term ELSE Current.term)
      /\ h.leader = (IF event[m].kind = "leader" THEN event[m].info.leader ELSE Current.leader)
      /\ ~Updates(h, m, event[m])
      BY <1>1, <1>2, <1>3, UpdatedFollows
<1> HIDE DEF h
<1>5. group' \in Seq(Group) /\ group' # <<>> /\ Current' = h /\ VersionsFollow'
      BY <1>1, <1>4, WriteStep DEF IInv
<1>6. Won(h)
      BY <1>2, <1>4 DEF Won
<1>7. ListedOnce'
      BY <1>4, <1>5 DEF ListedOnce
<1>8. /\ pc' \in [Member -> {"receiving", "group", "update"}]
      /\ event' \in [Member -> Event] /\ event'[m] = MemberReady
      /\ \A n \in Member \ {m} : pc'[n] = pc[n] /\ event'[n] = event[n]
      BY <1>1, DoneStep DEF IInv
<1>9. NoCopy \in Copy /\ NoCopy.latest = FALSE
      BY GroupStatusAssumption DEF NoCopy, Copy, NewGroup, Group, Leader
<1>10. CopiesCurrent'
      BY <1>1, <1>9 DEF CopiesCurrent
<1>11. \A n \in Member \ lost' :
         pc[n] # "receiving" /\ Updates(h, n, event[n])
           => pc'[n] # "receiving" /\ event'[n] = event[n]
      BY <1>4, <1>8
<1>12. /\ \A n \in Member : event'[n] \in {event[n], MemberReady}
       /\ copy' \in [Member -> Copy]
       /\ marking' \in BOOLEAN /\ marked' \in Copy /\ disturbed' \in Nat
       /\ lost' \subseteq Member /\ lost \subseteq lost'
      BY <1>1, <1>8, <1>9 DEF IInv, TypeOK
<1> QED
    BY <1>1, <1>4, <1>5, <1>6, <1>7, <1>8, <1>10, <1>11, <1>12, RecordStep

LEMMA RetryGroupStep == ASSUME IInv, NEW m \in Member, RetryGroup(m) PROVE IInv'
<1>1. /\ pc[m] = "update" /\ pc' = [pc EXCEPT ![m] = "group"] /\ copy' = [copy EXCEPT ![m] = NoCopy]
      /\ UNCHANGED <<elected, view, ready, stream, disturbed, group, event, info, role,
                     marking, marked, lost>>
      BY DEF RetryGroup, raftVars, markVars
<1>2. /\ group' \in Seq(Group) /\ group' # <<>> /\ VersionsFollow' /\ ListedOnce'
      /\ Current \in Group /\ Current' = Current /\ Follows(Current, Current) /\ Won(Current)
      BY <1>1, GroupLeft
<1>3. NoCopy \in Copy /\ NoCopy.latest = FALSE
      BY GroupStatusAssumption DEF NoCopy, Copy, NewGroup, Group, Leader
<1>4. /\ pc' \in [Member -> {"receiving", "group", "update"}] /\ pc'[m] = "group"
      /\ copy' \in [Member -> Copy] /\ copy'[m] = NoCopy
      /\ \A n \in Member \ {m} : pc'[n] = pc[n] /\ copy'[n] = copy[n]
      BY <1>1, <1>3 DEF IInv, TypeOK
<1>5. CopiesCurrent'
  <2>1. \A n \in Member : copy'[n].latest => n # m /\ copy[n].latest
        BY <1>3, <1>4
  <2> QED
      BY <1>1, <1>2, <1>4, <2>1 DEF IInv, CopiesCurrent
<1>6. /\ event' \in [Member -> Event] /\ \A n \in Member : event'[n] \in {event[n], MemberReady}
      /\ marking' \in BOOLEAN /\ marked' \in Copy /\ disturbed' \in Nat
      /\ lost' \subseteq Member /\ lost \subseteq lost'
      BY <1>1 DEF IInv, TypeOK
<1>7. \A n \in Member \ lost' :
        pc[n] # "receiving" /\ Updates(Current, n, event[n])
          => pc'[n] # "receiving" /\ event'[n] = event[n]
      BY <1>1, <1>4
<1> QED
    BY <1>1, <1>2, <1>4, <1>5, <1>6, <1>7, RecordStep

\* The member is one of those that something was lost of.
LEMMA GiveUpStep == ASSUME IInv, NEW m \in Member, GiveUp(m) PROVE IInv'
<1>1. /\ copy' = [copy EXCEPT ![m] = NoCopy] /\ lost' = lost \cup {m} /\ Done(m)
      /\ disturbed' \in Nat
      /\ UNCHANGED <<elected, view, ready, stream, group, info, role, marking, marked>>
      BY DEF IInv, TypeOK, GiveUp, markVars
<1>2. /\ group' \in Seq(Group) /\ group' # <<>> /\ VersionsFollow' /\ ListedOnce'
      /\ Current \in Group /\ Current' = Current /\ Follows(Current, Current) /\ Won(Current)
      BY <1>1, GroupLeft
<1>3. NoCopy \in Copy /\ NoCopy.latest = FALSE
      BY GroupStatusAssumption DEF NoCopy, Copy, NewGroup, Group, Leader
<1>4. /\ copy' \in [Member -> Copy] /\ copy'[m] = NoCopy
      /\ \A n \in Member \ {m} : copy'[n] = copy[n]
      BY <1>1, <1>3 DEF IInv, TypeOK
<1>5. /\ pc' \in [Member -> {"receiving", "group", "update"}]
      /\ event' \in [Member -> Event] /\ event'[m] = MemberReady
      /\ \A n \in Member \ {m} : pc'[n] = pc[n] /\ event'[n] = event[n]
      BY <1>1, DoneStep DEF IInv
<1>6. CopiesCurrent'
  <2>1. \A n \in Member : copy'[n].latest => n # m /\ copy[n].latest
        BY <1>3, <1>4
  <2> QED
      BY <1>1, <1>2, <1>4, <1>5, <2>1 DEF IInv, CopiesCurrent
<1>7. /\ \A n \in Member : event'[n] \in {event[n], MemberReady}
      /\ marking' \in BOOLEAN /\ marked' \in Copy
      /\ lost' \subseteq Member /\ lost \subseteq lost'
      BY <1>1, <1>5 DEF IInv, TypeOK
<1>8. \A n \in Member \ lost' :
        pc[n] # "receiving" /\ Updates(Current, n, event[n])
          => pc'[n] # "receiving" /\ event'[n] = event[n]
      BY <1>1, <1>5
<1> QED
    BY <1>1, <1>2, <1>4, <1>5, <1>6, <1>7, <1>8, RecordStep

LEMMA GetForStateStep == ASSUME IInv, GetForState PROVE IInv'
<1>1. /\ marking' = TRUE /\ marked' = ReadCache /\ disturbed' \in Nat
      /\ UNCHANGED <<elected, view, ready, stream, group, pc, event, copy, info, role, lost>>
      BY DEF IInv, TypeOK, GetForState, watchVars
<1>2. /\ group' \in Seq(Group) /\ group' # <<>> /\ VersionsFollow' /\ ListedOnce'
      /\ Current \in Group /\ Current' = Current /\ Follows(Current, Current) /\ Won(Current)
      BY <1>1, GroupLeft
<1>3. /\ ReadCache \in Copy
      /\ ReadCache.latest => ReadCache.status = Current
  <2>1. NoCopy \in Copy /\ NoCopy.latest = FALSE
        BY GroupStatusAssumption DEF NoCopy, Copy, NewGroup, Group, Leader
  <2>2. CASE Len(group) = 1
        BY <1>2, <2>2 DEF ReadCache, Copy, Cached, Current
  <2>3. CASE Len(group) # 1
        BY <2>1, <2>3 DEF ReadCache
  <2> QED
      BY <2>2, <2>3
<1>4. CopiesCurrent'
      BY <1>1, <1>2, <1>3 DEF IInv, CopiesCurrent
<1> QED
    BY <1>1, <1>2, <1>3, <1>4, RecordStep DEF IInv, TypeOK

\* The reconciler writes the state only: whose lead it is and who is listed stays.
LEMMA UpdateStateStep == ASSUME IInv, UpdateState PROVE IInv'
<1>1. /\ marking' = FALSE /\ marked' = NoCopy
      /\ UNCHANGED <<elected, view, ready, stream, disturbed, pc, event, info, role, lost>>
      BY DEF UpdateState, raftVars
<1>2. NoCopy \in Copy /\ NoCopy.latest = FALSE
      BY GroupStatusAssumption DEF NoCopy, Copy, NewGroup, Group, Leader
<1>3. CASE /\ Accepted(marked)
           /\ Write([marked.status EXCEPT !.state = ~@])
           /\ copy' = [n \in Member |-> NoCopy]
  <2> DEFINE h == [marked.status EXCEPT !.state = ~@]
  <2>1. marked.status = Current /\ Current \in Group /\ Won(Current) /\ ListedOnce
        BY <1>3, VersionsTyped DEF Accepted, IInv, CopiesCurrent, TermsWon
  <2>2. /\ h \in Group /\ h.term = Current.term /\ h.leader = Current.leader
        /\ h.followers = Current.followers
        BY <2>1 DEF Group
  <2>3. Write(h)
        BY <1>3
  <2> HIDE DEF h
  <2>4. Follows(Current, h) /\ Won(h)
        BY <2>1, <2>2 DEF Follows, IsListed, Won
  <2>5. group' \in Seq(Group) /\ group' # <<>> /\ Current' = h /\ VersionsFollow'
        BY <2>2, <2>3, <2>4, WriteStep DEF IInv
  <2>6. ListedOnce'
        BY <2>1, <2>2, <2>5 DEF ListedOnce
  <2>7. copy' \in [Member -> Copy] /\ CopiesCurrent'
        BY <1>1, <1>2, <1>3 DEF CopiesCurrent
  <2> QED
      BY <1>1, <1>2, <2>2, <2>4, <2>5, <2>6, <2>7, RecordStep DEF IInv, TypeOK
<1>4. CASE UNCHANGED <<group, copy>>
  <2>1. /\ group' \in Seq(Group) /\ group' # <<>> /\ VersionsFollow' /\ ListedOnce'
        /\ Current \in Group /\ Current' = Current /\ Follows(Current, Current) /\ Won(Current)
        BY <1>1, <1>4, GroupLeft
  <2>2. CopiesCurrent'
        BY <1>1, <1>2, <1>4, <2>1 DEF IInv, CopiesCurrent
  <2> QED
      BY <1>1, <1>2, <1>4, <2>1, <2>2, RecordStep DEF IInv, TypeOK
<1> QED
    BY <1>3, <1>4 DEF UpdateState

LEMMA StutterStep == ASSUME IInv, UNCHANGED vars PROVE IInv'
<1>1. /\ UNCHANGED <<elected, view, ready, stream, disturbed, group, pc, event, copy, info, role,
                     marking, marked, lost>>
      BY DEF vars, raftVars, watchVars, markVars
<1>2. /\ group' \in Seq(Group) /\ group' # <<>> /\ VersionsFollow' /\ ListedOnce'
      /\ Current \in Group /\ Current' = Current /\ Follows(Current, Current) /\ Won(Current)
      BY <1>1, GroupLeft
<1>3. CopiesCurrent'
      BY <1>1, <1>2 DEF IInv, CopiesCurrent
<1> QED
    BY <1>1, <1>2, <1>3, RecordStep DEF IInv, TypeOK

-----------------------------------------------------------------------------
\* Theorems

LEMMA NextIInv == IInv /\ [Next]_vars => IInv'
<1> SUFFICES ASSUME IInv, [Next]_vars PROVE IInv'
    OBVIOUS
<1>1. CASE UNCHANGED vars
      BY <1>1, StutterStep
<1>2. ASSUME NEW m \in Member, NEW t \in 1..MaxTerm, Elect(m, t) PROVE IInv'
      BY <1>2, ElectStep
<1>3. ASSUME NEW m \in Member, NEW t \in 1..MaxTerm, NEW l \in Leader, Observe(m, t, l)
      PROVE IInv'
      BY <1>3, ObserveStep
<1>4. ASSUME NEW m \in Member, BecomeReady(m) \/ Reconnect(m) \/ Restart(m) PROVE IInv'
      BY <1>4, BecomeReadyStep, ReconnectStep, RestartStep
<1>5. ASSUME NEW m \in Member, WatchStep(m) \/ GiveUp(m) PROVE IInv'
      BY <1>5, ReceiveStep, GetGroupStep, UpdateGroupStep, RetryGroupStep, GiveUpStep
      DEF WatchStep
<1>6. CASE SyncCache \/ GetForState \/ UpdateState
      BY <1>6, SyncCacheStep, GetForStateStep, UpdateStateStep
<1> QED
    BY <1>1, <1>2, <1>3, <1>4, <1>5, <1>6 DEF Next

\* The invariant holds in every state: what a stale read of the RaftGroup shows to be
\* on record is on record, and a copy that can still be written is the current
\* version (watcher.go, recordGroupEvent and tryRecordGroupEvent).
THEOREM InvariantCorrect == Spec => []IInv
<1>1. Init => IInv
      BY InitIInv
<1>2. IInv /\ [Next]_vars => IInv'
      BY NextIInv
<1> QED
    BY <1>1, <1>2, PTL DEF Spec

\* The leader on record, in the RaftGroup and in each RaftMember, won the election of
\* the term on record, in whatever order the members' reports are applied and however
\* late (watcher.go, the LeaderUpdated case of recordMemberEvent and recordGroupEvent).
THEOREM LeaderCorrect == Spec => []LeaderWasElected
<1>1. IInv => LeaderWasElected
      BY DEF IInv, TermsWon, Won, LeaderWasElected
<1> QED
    BY <1>1, InvariantCorrect, PTL

\* No leader change and no race of two writers lists a member of the group twice
\* (watcher.go, the lists of followers that recordGroupEvent computes).
THEOREM ListedOnceCorrect == Spec => []ListedOnce
<1>1. IInv => ListedOnce
      BY DEF IInv
<1> QED
    BY <1>1, InvariantCorrect, PTL

\* When a watch has nothing left to record, the status has caught up with what its
\* member announced, unless an announcement was lost: a report that is skipped, because
\* a read that may be stale shows it to be on record, is on record.
THEOREM CaughtUpCorrect == Spec => []StatusCaughtUp
<1>1. IInv => StatusCaughtUp
  <2> SUFFICES ASSUME IInv, NEW m \in Member \ lost, pc[m] = "receiving", stream[m] = <<>>
               PROVE /\ ~News([term |-> Current.term, leader |-> Current.leader], view[m])
                     /\ ready[m] => IsListed(Current, m)
      BY DEF StatusCaughtUp
  <2>1. DOMAIN stream[m] = {}
        OBVIOUS
  <2>2. \A e \in Event : ~Pending(m, e)
        BY <2>1 DEF Pending
  <2>3. LeaderUpdated(view[m]) \in Event /\ MemberReady \in Event
        BY GroupStatusAssumption
        DEF IInv, TypeOK, LeaderUpdated, MemberReady, NoInfo, Event, LeaderInfo, Leader
  <2> QED
      BY <2>2, <2>3 DEF IInv, NothingForgotten, News
<1> QED
    BY <1>1, InvariantCorrect, PTL

\* Every step leaves the current version the current one or follows it.
LEMMA CurrentFollows ==
  ASSUME IInv, [Next]_vars
  PROVE Current \in Group /\ Current' \in Group /\ Follows(Current, Current')
<1>1. IInv'
      BY NextIInv
<1>2. Current \in Group /\ Current' \in Group
  <2>1. group' \in Seq(Group) /\ group' # <<>>
        BY <1>1 DEF IInv, TypeOK
  <2>2. Len(group') \in DOMAIN group'
        BY <2>1
  <2> QED
      BY <2>1, <2>2, VersionsTyped DEF IInv, Current
<1>3. CASE group' = group
      BY <1>2, <1>3, FollowsReflexive DEF Current
<1>4. ASSUME NEW h \in Group, Write(h) PROVE Current' = h
  <2>1. group \in Seq(Group) /\ group' = Append(group, h)
        BY <1>4 DEF IInv, TypeOK, Write
  <2> QED
      BY <2>1 DEF Current
<1>5. ASSUME NEW m \in Member, UpdateGroup(m) PROVE Follows(Current, Current')
  <2>1. /\ copy[m].status = Current /\ Updates(Current, m, event[m])
        /\ Write(Updated(Current, m, event[m])) /\ event[m] \in Event
        BY <1>5 DEF UpdateGroup, Accepted, IInv, CopiesCurrent, TypeOK
  <2>2. \A n \in Member : Current.followers[n] + (IF Current.leader = n THEN 1 ELSE 0) <= 1
        BY DEF IInv, ListedOnce
  <2>3. /\ Updated(Current, m, event[m]) \in Group
        /\ Follows(Current, Updated(Current, m, event[m]))
        BY <1>2, <2>1, <2>2, UpdatedFollows
  <2>4. Current' = Updated(Current, m, event[m])
        BY <1>4, <2>1, <2>3
  <2> QED
      BY <2>3, <2>4
<1>6. CASE UpdateState /\ group' # group
  <2>1. /\ marked.status = Current
        /\ Write([Current EXCEPT !.state = ~@])
        BY <1>6 DEF UpdateState, Accepted, IInv, CopiesCurrent
  <2>2. PICK h \in Group : h = [Current EXCEPT !.state = ~@]
        BY <1>2 DEF Group
  <2>3. h.term = Current.term /\ h.leader = Current.leader /\ h.followers = Current.followers
        BY <1>2, <2>2 DEF Group
  <2>4. Current' = h
        BY <1>4, <2>1, <2>2
  <2> QED
      BY <1>2, <2>3, <2>4 DEF Follows, IsListed
<1>7. CASE SyncCache
  <2>1. /\ group \in Seq(Group) /\ Len(group) \in Nat /\ Len(group) > 1 /\ group' = Tail(group)
        BY <1>7 DEF SyncCache, IInv, TypeOK
  <2>2. Current' = Current
        BY <2>1 DEF Current
  <2> QED
      BY <1>2, <2>2, FollowsReflexive
<1>8. \/ group' = group \/ SyncCache \/ UpdateState
      \/ \E m \in Member : UpdateGroup(m)
      BY DEF Next, vars, Elect, Observe, BecomeReady, Reconnect, Restart, WatchStep, Receive,
             GetGroup, RetryGroup, GiveUp, GetForState
<1> QED
    BY <1>2, <1>3, <1>5, <1>6, <1>7, <1>8

\* A member that the status lists is never dropped from it (watcher.go, the lists of
\* followers that recordGroupEvent computes).
THEOREM ListingsCorrect == Spec => ListingsKept
<1>1. IInv /\ [Next]_vars =>
        [\A m \in Member : IsListed(Current, m) => IsListed(Current', m)]_vars
  <2> SUFFICES ASSUME IInv, [Next]_vars, NEW m \in Member, IsListed(Current, m)
               PROVE IsListed(Current', m)
      OBVIOUS
  <2> QED
      BY CurrentFollows DEF Follows
<1> QED
    BY <1>1, InvariantCorrect, PTL DEF Spec, ListingsKept

\* The RaftGroup's term and leader are a register that only moves forward, as
\* LeaderRegister says: each step of the model is a step of the register or leaves it.
THEOREM RegisterCorrect == Spec => GroupImplementsRegister
<1>1. Init => GroupRegister!Init
  <2>1. ASSUME Init PROVE Current = NewGroup
        BY <2>1 DEF Init, Current
  <2> QED
      BY <2>1 DEF GroupRegister!Init, NewGroup
<1>2. IInv /\ [Next]_vars => [GroupRegister!Next]_<<Current.term, Current.leader>>
  <2> SUFFICES ASSUME IInv, [Next]_vars
               PROVE [GroupRegister!Next]_<<Current.term, Current.leader>>
      OBVIOUS
  <2>1. Current \in Group /\ Current' \in Group /\ Follows(Current, Current')
        BY CurrentFollows
  <2>2. /\ Current.term \in Nat /\ Current'.term \in Nat
        /\ Current'.leader \in Member \cup {NoMember}
        BY <2>1, GroupStatusAssumption DEF Group, Leader
  <2>3. CASE Current.term < Current'.term
        BY <2>2, <2>3 DEF GroupRegister!Next, GroupRegister!Advance
  <2>4. CASE Current.term = Current'.term /\ Current.leader = Current'.leader
        BY <2>4
  <2>5. CASE Current.term = Current'.term /\ Current.leader = NoMember /\ Current'.leader # NoMember
        BY <2>2, <2>5 DEF GroupRegister!Next, GroupRegister!Learn
  <2> QED
      BY <2>1, <2>3, <2>4, <2>5 DEF Follows
<1> QED
    BY <1>1, <1>2, InvariantCorrect, PTL
    DEF Spec, GroupImplementsRegister, GroupRegister!Spec
=============================================================================
