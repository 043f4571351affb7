---------------------------- MODULE GroupStatus ----------------------------
(***************************************************************************)
(* How the controller turns the events of a Raft group's members into the    *)
(* status of the RaftGroup and RaftMember resources. Each member's pod has a *)
(* watch goroutine of its own (PodReconciler.watch), which applies the       *)
(* events of its stream in order; all of them, and the cluster reconciler,   *)
(* write the status of the same RaftGroup.                                   *)
(*                                                                          *)
(* Kubernetes is external: a read is served by the manager's cache, which    *)
(* lags behind, and a write is refused unless it was computed from the       *)
(* latest version. So are Raft and the event stream, which may break and be  *)
(* re-established; the node then replays its current leader and readiness.   *)
(***************************************************************************)
EXTENDS Naturals, Sequences, FiniteSets

CONSTANTS
  Member,     \* the members of the group
  NoMember,   \* no leader is known
  MaxTerm,    \* bound: the number of terms
  MaxQueue,   \* bound: events on their way from a member to its watch
  MaxDisturbances, \* bound: broken streams, restarted nodes, failed writes,
              \* events given up on and the reconciler's writes, all together
  MaxLag      \* bound: the versions the cache is behind

ASSUME GroupStatusAssumption ==
  /\ NoMember \notin Member
  /\ MaxTerm \in Nat /\ MaxQueue \in Nat /\ MaxDisturbances \in Nat
  /\ MaxLag \in Nat

Leader == Member \cup {NoMember}
LeaderInfo == [term : 0..MaxTerm, leader : Leader]
NoInfo == [term |-> 0, leader |-> NoMember]

\* The events that reach a RaftGroup's status.
LeaderUpdated(info) == [kind |-> "leader", info |-> info]
MemberReady == [kind |-> "ready", info |-> NoInfo]
Event == [kind : {"leader", "ready"}, info : LeaderInfo]

\* RaftGroupStatus: the followers are the number of entries the list has for
\* each member. A term that is nil is 0. The state (Ready or not) is told apart
\* from its other values only.
Group == [term : 0..MaxTerm, leader : Leader, followers : [Member -> Nat], state : BOOLEAN]
NewGroup == [term |-> 0, leader |-> NoMember, followers |-> [m \in Member |-> 0], state |-> FALSE]

\* A copy of the resource that a client works on: latest tells whether it still
\* has the current resource version. What is in a copy that has not is never
\* written, and is NewGroup here.
Copy == [status : Group, latest : BOOLEAN]
NoCopy == [status |-> NewGroup, latest |-> FALSE]

VARIABLES
  \* Raft and the nodes (external)
  elected,    \* the member that won each term, or NoMember
  view,       \* the (term, leader) each member last announced
  ready,      \* whether the member's node has announced that it is ready
  stream,     \* the events on their way to the member's watch goroutine
  disturbed,  \* how many of the disturbances the bound is for have been
  \* the API server and the manager's cache of it
  group,      \* the RaftGroup's versions, from the cached to the current one
  \* PodReconciler.watch, per member
  pc, event,
  copy,       \* the RaftGroup tryRecordGroupEvent has read
  info, role, \* RaftMember.Status.Term, .Leader and .Role
  \* MultiRaftClusterReconciler.reconcileMembers
  marking,    \* whether it is about to write the state
  marked,     \* the RaftGroup it has read
  \* history
  lost        \* the members of which an announcement was lost and not replayed

raftVars == <<elected, view, ready, stream, disturbed>>
watchVars == <<pc, event, copy, info, role>>
markVars == <<marking, marked>>
vars == <<raftVars, group, watchVars, markVars, lost>>

Current == group[Len(group)]
Cached == group[1]

Init ==
  /\ elected = [t \in 1..MaxTerm |-> NoMember]
  /\ view = [m \in Member |-> NoInfo]
  /\ ready = [m \in Member |-> FALSE]
  /\ stream = [m \in Member |-> <<>>]
  /\ disturbed = 0
  /\ group = <<NewGroup>>
  /\ pc = [m \in Member |-> "receiving"]
  /\ event = [m \in Member |-> MemberReady]
  /\ copy = [m \in Member |-> NoCopy]
  /\ info = [m \in Member |-> NoInfo]
  /\ role = [m \in Member |-> "none"]
  /\ marking = FALSE
  /\ marked = NoCopy
  /\ lost = {}

----------------------------------------------------------------------------
(* Raft and the event streams.                                             *)

Emit(m, e) ==
  /\ Len(stream[m]) < MaxQueue
  /\ stream' = [stream EXCEPT ![m] = Append(@, e)]

Announce(m, t, l) ==
  /\ view' = [view EXCEPT ![m] = [term |-> t, leader |-> l]]
  /\ Emit(m, LeaderUpdated([term |-> t, leader |-> l]))

\* m wins the election of term t.
Elect(m, t) ==
  /\ \A u \in t..MaxTerm : elected[u] = NoMember
  /\ \/ t > view[m].term
     \/ t = view[m].term /\ view[m].leader = NoMember
  /\ elected' = [elected EXCEPT ![t] = m]
  /\ Announce(m, t, m)
  /\ UNCHANGED <<ready, disturbed, group, watchVars, markVars, lost>>

\* m moves to a later term, learns who leads its term, or steps down from the
\* leadership of its term because it no longer hears a quorum (CheckQuorum).
Observe(m, t, l) ==
  /\ l # m
  /\ l \in {NoMember, elected[t]}
  /\ \/ t > view[m].term
     \/ t = view[m].term /\ view[m].leader = NoMember /\ l # NoMember
     \/ t = view[m].term /\ view[m].leader = m /\ l = NoMember
  /\ Announce(m, t, l)
  /\ UNCHANGED <<elected, ready, disturbed, group, watchVars, markVars, lost>>

BecomeReady(m) ==
  /\ ~ready[m]
  /\ ready' = [ready EXCEPT ![m] = TRUE]
  /\ Emit(m, MemberReady)
  /\ UNCHANGED <<elected, view, disturbed, group, watchVars, markVars, lost>>

\* A variant of Watch that replays nothing.
NothingReplayed(m) == <<>>

\* What Protocol.Watch replays: the Partition's leader and readiness.
Replayed(m) ==
  (IF view[m].term > 0 THEN <<LeaderUpdated(view[m])>> ELSE <<>>)
    \o (IF ready[m] THEN <<MemberReady>> ELSE <<>>)

\* The stream breaks and is re-established: what was under way is lost.
Reconnect(m) ==
  /\ disturbed < MaxDisturbances
  /\ disturbed' = disturbed + 1
  /\ stream' = [stream EXCEPT ![m] = Replayed(m)]
  /\ UNCHANGED <<elected, view, ready, group, watchVars, markVars, lost>>

\* The node's process dies and starts again: its events are lost, it knows its
\* term but no leader, and it becomes ready anew.
Restart(m) ==
  /\ disturbed < MaxDisturbances
  /\ disturbed' = disturbed + 1
  /\ stream' = [stream EXCEPT ![m] = <<>>]
  /\ view' = [view EXCEPT ![m] = [term |-> @.term, leader |-> NoMember]]
  /\ ready' = [ready EXCEPT ![m] = FALSE]
  /\ lost' = lost \cup {m}
  /\ UNCHANGED <<elected, group, watchVars, markVars>>

----------------------------------------------------------------------------
(* Kubernetes.                                                             *)

SyncCache ==
  /\ Len(group) > 1
  /\ group' = Tail(group)
  /\ UNCHANGED <<raftVars, watchVars, markVars, lost>>

ReadCache ==
  IF Len(group) = 1 THEN [status |-> Cached, latest |-> TRUE] ELSE NoCopy

\* Whether the API server takes a status computed from this copy.
Accepted(c) == c.latest

\* A new version: every copy read before is now out of date.
Write(status) ==
  /\ Len(group) <= MaxLag
  /\ group' = Append(group, status)

----------------------------------------------------------------------------
(* PodReconciler.watch: a loop that receives an event and records it.       *)

\* A variant that lets a later report of the same term overwrite the leader.
SameTermToo(old, new) == old.term <= new.term

\* Whether a LeaderUpdated event says more than the (term, leader) on record.
News(old, new) ==
  \/ old.term < new.term
  \/ old.term = new.term /\ old.leader = NoMember /\ new.leader # NoMember

\* recordMemberEvent. No one else writes these fields of the RaftMember, so a
\* stale read of them is found out by the conflict it leads to, and retried.
RecordMember(m, e) ==
  IF e.kind = "leader" /\ News(info[m], e.info)
  THEN /\ info' = [info EXCEPT ![m] = e.info]
       /\ role' = [role EXCEPT ![m] = IF e.info.leader = m THEN "Leader" ELSE "Follower"]
  ELSE UNCHANGED <<info, role>>

\* The goroutine receives an event and records it in the RaftMember, which
\* nobody waits for, or gives up doing so.
Receive(m) ==
  LET e == Head(stream[m])
  IN /\ pc[m] = "receiving"
     /\ stream[m] # <<>>
     /\ stream' = [stream EXCEPT ![m] = Tail(@)]
     /\ event' = [event EXCEPT ![m] = e]
     /\ pc' = [pc EXCEPT ![m] = "group"]
     /\ \/ /\ RecordMember(m, e)
           /\ UNCHANGED disturbed
        \/ /\ disturbed < MaxDisturbances
           /\ disturbed' = disturbed + 1
           /\ UNCHANGED <<info, role>>
     /\ UNCHANGED <<elected, view, ready, group, copy, markVars, lost>>

\* Variants of the new list of followers: one that forgets the former leader, one
\* that leaves the new leader in, one that takes out an entry it need not have.
FormerLeaderLost(g, l) == [m \in Member |-> IF m = l THEN 0 ELSE g.followers[m]]
NewLeaderKept(g, l) ==
  [m \in Member |-> IF m = g.leader /\ m # l THEN g.followers[m] + 1 ELSE g.followers[m]]
NewLeaderSubtracted(g, l) ==
  [m \in Member |-> IF m = l THEN g.followers[m] - 1 ELSE g.followers[m]]

\* The followers after a leader event: the former leader joins them, the new one
\* leaves them.
NewFollowers(g, l) ==
  [m \in Member |->
     IF m = l THEN 0
     ELSE IF m = g.leader THEN g.followers[m] + 1 ELSE g.followers[m]]

IsListed(g, m) == g.leader = m \/ g.followers[m] > 0

\* What the updater of an event from m makes of the status it was given.
Updates(g, m, e) ==
  \/ e.kind = "leader" /\ News([term |-> g.term, leader |-> g.leader], e.info)
  \/ e.kind = "ready" /\ ~IsListed(g, m)

\* A variant that keeps the former leader when the new term has none yet.
LeaderNotCleared(g, m, e) ==
  IF e.kind = "leader"
  THEN [g EXCEPT !.term = e.info.term,
                 !.leader = IF e.info.leader = NoMember THEN @ ELSE e.info.leader,
                 !.followers = NewFollowers(g, e.info.leader)]
  ELSE [g EXCEPT !.followers[m] = @ + 1]

Updated(g, m, e) ==
  IF e.kind = "leader"
  THEN [g EXCEPT !.term = e.info.term, !.leader = e.info.leader,
                 !.followers = NewFollowers(g, e.info.leader)]
  ELSE [g EXCEPT !.followers[m] = @ + 1]

\* The goroutine is done with its event.
Done(m) ==
  /\ pc' = [pc EXCEPT ![m] = "receiving"]
  /\ event' = [event EXCEPT ![m] = MemberReady]

\* tryRecordGroupEvent reads the RaftGroup through the cache.
GetGroup(m) ==
  /\ pc[m] = "group"
  /\ IF Updates(Cached, m, event[m])
     THEN /\ pc' = [pc EXCEPT ![m] = "update"]
          /\ copy' = [copy EXCEPT ![m] = ReadCache]
          /\ UNCHANGED event
     ELSE Done(m) /\ UNCHANGED copy
  /\ UNCHANGED <<raftVars, group, info, role, markVars, lost>>

UpdateGroup(m) ==
  /\ pc[m] = "update"
  /\ Accepted(copy[m])
  /\ Write(Updated(copy[m].status, m, event[m]))
  /\ copy' = [n \in Member |-> NoCopy]
  /\ marked' = NoCopy
  /\ Done(m)
  /\ UNCHANGED <<raftVars, info, role, marking, lost>>

\* The write conflicts with another one: backoff.Retry tries again.
RetryGroup(m) ==
  /\ pc[m] = "update"
  /\ ~Accepted(copy[m])
  /\ pc' = [pc EXCEPT ![m] = "group"]
  /\ copy' = [copy EXCEPT ![m] = NoCopy]
  /\ UNCHANGED <<raftVars, group, event, info, role, markVars, lost>>

\* backoff.Retry gives up after its maximal elapsed time, and its error is
\* ignored.
GiveUp(m) ==
  /\ pc[m] \in {"group", "update"}
  /\ disturbed < MaxDisturbances
  /\ disturbed' = disturbed + 1
  /\ copy' = [copy EXCEPT ![m] = NoCopy]
  /\ lost' = lost \cup {m}
  /\ Done(m)
  /\ UNCHANGED <<elected, view, ready, stream, group, info, role, markVars>>

----------------------------------------------------------------------------
(* MultiRaftClusterReconciler.reconcileMembers: the group is Ready when all *)
(* of its members are, which is left open here.                            *)

GetForState ==
  /\ ~marking
  /\ disturbed < MaxDisturbances
  /\ disturbed' = disturbed + 1
  /\ marking' = TRUE
  /\ marked' = ReadCache
  /\ UNCHANGED <<elected, view, ready, stream, group, watchVars, lost>>

\* A conflict ends the reconciliation with an error; it is then run again.
UpdateState ==
  /\ marking
  /\ marking' = FALSE
  /\ marked' = NoCopy
  /\ \/ /\ Accepted(marked)
        /\ Write([marked.status EXCEPT !.state = ~@])
        /\ copy' = [m \in Member |-> NoCopy]
     \/ /\ ~Accepted(marked)
        /\ UNCHANGED <<group, copy>>
  /\ UNCHANGED <<raftVars, pc, event, info, role, lost>>

----------------------------------------------------------------------------
WatchStep(m) ==
  \/ Receive(m)
  \/ GetGroup(m)
  \/ UpdateGroup(m)
  \/ RetryGroup(m)

Next ==
  \/ \E m \in Member, t \in 1..MaxTerm : Elect(m, t)
  \/ \E m \in Member, t \in 1..MaxTerm, l \in Leader : Observe(m, t, l)
  \/ \E m \in Member : BecomeReady(m)
  \/ \E m \in Member : Reconnect(m)
  \/ \E m \in Member : Restart(m)
  \/ \E m \in Member : WatchStep(m)
  \/ \E m \in Member : GiveUp(m)
  \/ SyncCache
  \/ GetForState
  \/ UpdateState

Spec == Init /\ [][Next]_vars

----------------------------------------------------------------------------
(* Properties.                                                             *)

TypeOK ==
  /\ elected \in [1..MaxTerm -> Leader]
  /\ view \in [Member -> LeaderInfo]
  /\ ready \in [Member -> BOOLEAN]
  /\ stream \in [Member -> Seq(Event)]
  /\ disturbed \in Nat
  /\ group \in Seq(Group) /\ group # <<>>
  /\ pc \in [Member -> {"receiving", "group", "update"}]
  /\ event \in [Member -> Event]
  /\ copy \in [Member -> Copy]
  /\ info \in [Member -> LeaderInfo]
  /\ role \in [Member -> {"none", "Leader", "Follower"}]
  /\ marking \in BOOLEAN
  /\ marked \in Copy
  /\ lost \subseteq Member

\* The leader on record won the term on record, in the group and in each member,
\* whichever member's report got there first and however late it was.
LeaderWasElected ==
  /\ Current.leader # NoMember => elected[Current.term] = Current.leader
  /\ \A m \in Member : info[m].leader # NoMember => elected[info[m].term] = info[m].leader

\* The status lists a member at most once: as the leader or as one follower.
ListedOnce ==
  \A m \in Member :
    Current.followers[m] + (IF Current.leader = m THEN 1 ELSE 0) <= 1

\* A member that the group's status lists is never dropped from it, by any
\* change of leader and any race of two writers.
ListingsKept ==
  [][\A m \in Member : IsListed(Current, m) => IsListed(Current', m)]_vars

\* What the RaftGroup promises about leadership to those who watch it.
GroupRegister == INSTANCE LeaderRegister WITH term <- Current.term, leader <- Current.leader
GroupImplementsRegister == GroupRegister!Spec

\* The group's status has caught up with what a member has announced, its leader and
\* its readiness, as soon as its watch has nothing left to record, past conflicting
\* writes, stale reads, later reports of other members and streams that break,
\* unless an announcement was lost with its node or given up on.
StatusCaughtUp ==
  \A m \in Member \ lost :
    pc[m] = "receiving" /\ stream[m] = <<>> =>
      /\ ~News([term |-> Current.term, leader |-> Current.leader], view[m])
      /\ ready[m] => IsListed(Current, m)

----------------------------------------------------------------------------
(* The inductive invariant.                                                *)

\* A leader that is named somewhere won the term it is named for.
Won(i) == i.leader # NoMember => i.term \in 1..MaxTerm /\ elected[i.term] = i.leader

TermsWon ==
  /\ Won(Current)
  /\ \A m \in Member :
       /\ Won(view[m]) /\ Won(info[m]) /\ Won(event[m].info)
       /\ \A j \in DOMAIN stream[m] : Won(stream[m][j].info)

\* Version h says all that version g did, or knows better.
Follows(g, h) ==
  /\ \/ g.term < h.term
     \/ g.term = h.term /\ g.leader \in {NoMember, h.leader}
  /\ \A m \in Member : IsListed(g, m) => IsListed(h, m)

VersionsFollow == \A j \in DOMAIN group : Follows(group[j], Current)

\* A copy that can still be written is the current version, and the change that is
\* to be made to it has something new.
CopiesCurrent ==
  /\ \A m \in Member : copy[m].latest =>
       pc[m] = "update" /\ copy[m].status = Current /\ Updates(Current, m, event[m])
  /\ marked.latest => marking /\ marked.status = Current

\* The event is on its way to the status.
Pending(m, e) ==
  \/ pc[m] # "receiving" /\ event[m] = e
  \/ \E j \in DOMAIN stream[m] : stream[m][j] = e

\* What a member has announced last, and its readiness, are in the status or on
\* their way to it.
NothingForgotten ==
  \A m \in Member \ lost :
    /\ News(Current, view[m]) => Pending(m, LeaderUpdated(view[m]))
    /\ ready[m] => IsListed(Current, m) \/ Pending(m, MemberReady)

IInv ==
  /\ TypeOK
  /\ TermsWon
  /\ VersionsFollow
  /\ CopiesCurrent
  /\ ListedOnce
  /\ NothingForgotten
=============================================================================
