---------------------------- MODULE EventFanout ----------------------------
(***************************************************************************)
(* How a node's events reach the clients of its Watch call: Protocol.publish *)
(* sends each event to the channel of every registered watcher while it      *)
(* holds the read lock; Protocol.Watch registers a channel and replays the   *)
(* partitions' state into it under the write lock; nodeServer.Watch forwards *)
(* the channel to the client; a goroutine closes the channel when the        *)
(* client's context ends.                                                    *)
(*                                                                          *)
(* The lock is Go's sync.RWMutex: a writer that waits keeps later readers    *)
(* out, and readers that queued behind a writer enter before the next one.   *)
(* Channels are bounded, and a send to a full one blocks with the lock held. *)
(***************************************************************************)
EXTENDS Naturals, Sequences, FiniteSets

CONSTANTS
  Group,           \* the Raft groups the node may be told to start
  Watcher,         \* the calls clients make to Watch
  Capacity,        \* the capacity of a watcher's channel (100 in the code)
  MaxLeaderEvents, \* bound: LeaderUpdated events of a group
  Nobody           \* no thread

ASSUME FanoutAssumption ==
  /\ Capacity \in Nat \ {0}
  /\ MaxLeaderEvents \in Nat
  /\ Nobody \notin Watcher \cup Group
  /\ Watcher \cap Group = {}

\* The two sources of callbacks on eventListener (external). A group's
\* LeaderUpdated events all come from the first, in order.
Publisher == {"raft", "system"}
Thread == Publisher \cup Watcher \cup Group

\* The n-th leader announced of a group, or the group's readiness.
LeaderUpdated(g, n) == [kind |-> "leader", group |-> g, n |-> n]
MemberReady(g) == [kind |-> "ready", group |-> g, n |-> 0]
Event == [kind : {"leader", "ready"}, group : Group, n : 0..MaxLeaderEvents]
NoEvent == [kind |-> "none"]

VARIABLES
  \* Protocol.mu
  writer,     \* the thread that holds or is next to hold the write lock
  readers,    \* the threads that hold the read lock
  queued,     \* the threads whose RLock waits for the writer
  \* Protocol
  partitions, \* the groups in n.partitions
  leader,     \* the leader event each Partition reflects (0: term 0)
  ready,      \* Partition.ready
  watcherID,  \* the counter
  watchers,   \* the map from identifiers to channels: a set of pairs
  \* threads
  pubPc, event, todo,     \* publish: where it is, its event, channels left to send to
  watchPc, id, replay,    \* Watch: where it is, its identifier, events left to replay
  startPc,                \* newStateMachine, per group
  \* each Watch call
  handler,    \* nodeServer.Watch: "none", "receiving" or "returned"
  done,       \* whether the call's context has ended
  chan,       \* the channel's contents
  closed,     \* whether the channel is closed
  \* history
  sent,       \* the last leader event put on the channel, per group
  delivered   \* the last leader event sent to the client, per group

lockVars == <<writer, readers, queued>>
nodeVars == <<partitions, leader, ready, watcherID, watchers>>
pubVars == <<pubPc, event, todo>>
watchVars == <<watchPc, id, replay>>
callVars == <<handler, done, chan, closed, sent, delivered>>
vars == <<lockVars, nodeVars, pubVars, watchVars, startPc, callVars>>

Init ==
  /\ writer = Nobody /\ readers = {} /\ queued = {}
  /\ partitions = {}
  /\ leader = [g \in Group |-> 0]
  /\ ready = [g \in Group |-> FALSE]
  /\ watcherID = 0
  /\ watchers = {}
  /\ pubPc = [p \in Publisher |-> "idle"]
  /\ event = [p \in Publisher |-> NoEvent]
  /\ todo = [p \in Publisher |-> {}]
  /\ watchPc = [w \in Watcher |-> "none"]
  /\ id = [w \in Watcher |-> 0]
  /\ replay = [w \in Watcher |-> {}]
  /\ startPc = [g \in Group |-> "none"]
  /\ handler = [w \in Watcher |-> "none"]
  /\ done = [w \in Watcher |-> FALSE]
  /\ chan = [w \in Watcher |-> <<>>]
  /\ closed = [w \in Watcher |-> FALSE]
  /\ sent = [w \in Watcher |-> [g \in Group |-> 0]]
  /\ delivered = [w \in Watcher |-> [g \in Group |-> 0]]

----------------------------------------------------------------------------
(* sync.RWMutex (external).                                                *)

RLock(t) ==
  /\ UNCHANGED writer
  /\ IF writer = Nobody
     THEN readers' = readers \cup {t} /\ UNCHANGED queued
     ELSE queued' = queued \cup {t} /\ UNCHANGED readers

RUnlock(t) ==
  /\ readers' = readers \ {t}
  /\ UNCHANGED <<writer, queued>>

\* A writer first gets in line, which closes the lock to new readers.
Announce(t) ==
  /\ writer = Nobody
  /\ writer' = t
  /\ UNCHANGED <<readers, queued>>

Locked(t) == writer = t /\ readers = {}

\* Variants of Unlock: one that forgets the readers that queued up, and one that
\* keeps the lock for reading.
UnlockForgetful == writer' = Nobody /\ UNCHANGED <<readers, queued>>
UnlockToRead == writer' = Nobody /\ readers' = readers \cup queued \cup {writer} /\ queued' = {}

\* Unlock admits the readers that queued up meanwhile.
Unlock ==
  /\ writer' = Nobody
  /\ readers' = readers \cup queued
  /\ queued' = {}

----------------------------------------------------------------------------
(* Channels. Send is enabled while the channel has room.                   *)

Registered == {r[2] : r \in watchers}

\* A variant of the send that drops the event instead of blocking.
SendOrDrop(w, e) ==
  IF Len(chan[w]) < Capacity
  THEN /\ chan' = [chan EXCEPT ![w] = Append(@, e)]
       /\ sent' = IF e.kind = "leader" THEN [sent EXCEPT ![w][e.group] = e.n] ELSE sent
  ELSE UNCHANGED <<chan, sent>>

Send(w, e) ==
  /\ Len(chan[w]) < Capacity
  /\ chan' = [chan EXCEPT ![w] = Append(@, e)]
  /\ sent' = IF e.kind = "leader" THEN [sent EXCEPT ![w][e.group] = e.n] ELSE sent

----------------------------------------------------------------------------
(* newStateMachine puts a new Partition in the map.                        *)

StartGroup(g) ==
  /\ startPc[g] = "none"
  /\ startPc' = [startPc EXCEPT ![g] = "locking"]
  /\ UNCHANGED <<lockVars, nodeVars, pubVars, watchVars, callVars>>

AnnounceStart(g) ==
  /\ startPc[g] = "locking"
  /\ Announce(g)
  /\ UNCHANGED <<nodeVars, pubVars, watchVars, startPc, callVars>>

AddPartition(g) ==
  /\ startPc[g] = "locking"
  /\ Locked(g)
  /\ partitions' = partitions \cup {g}
  /\ startPc' = [startPc EXCEPT ![g] = "done"]
  /\ Unlock
  /\ UNCHANGED <<leader, ready, watcherID, watchers, pubVars, watchVars, callVars>>

----------------------------------------------------------------------------
(* Protocol.publish.                                                       *)

\* The event a callback is for. Raft runs only for groups that have started.
Occurs(p, e) ==
  \E g \in partitions :
    \/ p = "raft" /\ leader[g] < MaxLeaderEvents /\ e = LeaderUpdated(g, leader[g] + 1)
    \/ p = "system" /\ ~ready[g] /\ e = MemberReady(g)

Publish(p, e) ==
  /\ pubPc[p] = "idle"
  /\ Occurs(p, e)
  /\ pubPc' = [pubPc EXCEPT ![p] = "locking"]
  /\ event' = [event EXCEPT ![p] = e]
  /\ RLock(p)
  /\ UNCHANGED <<nodeVars, todo, watchVars, startPc, callVars>>

\* With the lock held, the Partition is updated and the loop over the watchers
\* begins.
UpdatePartition(p) ==
  LET e == event[p]
  IN /\ pubPc[p] = "locking"
     /\ p \in readers
     /\ pubPc' = [pubPc EXCEPT ![p] = "sending"]
     /\ IF e.kind = "leader"
        THEN leader' = [leader EXCEPT ![e.group] = e.n] /\ UNCHANGED ready
        ELSE ready' = [ready EXCEPT ![e.group] = TRUE] /\ UNCHANGED leader
     /\ todo' = [todo EXCEPT ![p] = Registered]
     /\ UNCHANGED <<lockVars, partitions, watcherID, watchers, event, watchVars, startPc,
                    callVars>>

SendEvent(p, w) ==
  /\ pubPc[p] = "sending"
  /\ w \in todo[p]
  /\ Send(w, event[p])
  /\ todo' = [todo EXCEPT ![p] = @ \ {w}]
  /\ UNCHANGED <<lockVars, nodeVars, pubPc, event, watchVars, startPc, handler, done,
                 closed, delivered>>

EndPublish(p) ==
  /\ pubPc[p] = "sending"
  /\ todo[p] = {}
  /\ pubPc' = [pubPc EXCEPT ![p] = "idle"]
  /\ event' = [event EXCEPT ![p] = NoEvent]
  /\ RUnlock(p)
  /\ UNCHANGED <<nodeVars, todo, watchVars, startPc, callVars>>

----------------------------------------------------------------------------
(* Protocol.Watch, run in a goroutine of its own by nodeServer.Watch.       *)

ClientWatch(w) ==
  /\ handler[w] = "none"
  /\ handler' = [handler EXCEPT ![w] = "receiving"]
  /\ watchPc' = [watchPc EXCEPT ![w] = "loading"]
  /\ UNCHANGED <<lockVars, nodeVars, pubVars, id, replay, startPc, done, chan, closed,
                 sent, delivered>>

\* n.watcherID++ and the assignment after it run without the lock: a load, a
\* store, and a second load that the compiler may replace by the value stored.
LoadID(w) ==
  /\ watchPc[w] = "loading"
  /\ id' = [id EXCEPT ![w] = watcherID + 1]
  /\ watchPc' = [watchPc EXCEPT ![w] = "storing"]
  /\ UNCHANGED <<lockVars, nodeVars, pubVars, replay, startPc, callVars>>

StoreID(w) ==
  /\ watchPc[w] = "storing"
  /\ watcherID' = id[w]
  /\ watchPc' = [watchPc EXCEPT ![w] = "naming"]
  /\ UNCHANGED <<lockVars, partitions, leader, ready, watchers, pubVars, id, replay,
                 startPc, callVars>>

ReadID(w) ==
  /\ watchPc[w] = "naming"
  /\ \E i \in {id[w], watcherID} : id' = [id EXCEPT ![w] = i]
  /\ watchPc' = [watchPc EXCEPT ![w] = "locking"]
  /\ UNCHANGED <<lockVars, nodeVars, pubVars, replay, startPc, callVars>>

AnnounceWatch(w) ==
  /\ \/ watchPc[w] = "locking"
     \/ watchPc[w] = "watching" /\ done[w]
  /\ Announce(w)
  /\ UNCHANGED <<nodeVars, pubVars, watchVars, startPc, callVars>>

\* A variant of Watch's use of the lock that keeps publishers out from now on but
\* does not wait for those that are in.
WatchNotWaiting(w) == writer = w

WatchLocked(w) == Locked(w)

\* Assignment to the map replaces an entry that has the same key.
Register(w) ==
  /\ watchPc[w] = "locking"
  /\ WatchLocked(w)
  /\ watchers' = {r \in watchers : r[1] # id[w]} \cup {<<id[w], w>>}
  /\ replay' = [replay EXCEPT ![w] =
                  {LeaderUpdated(g, leader[g]) : g \in {g \in partitions : leader[g] > 0}}
                  \cup {MemberReady(g) : g \in {g \in partitions : ready[g]}}]
  /\ watchPc' = [watchPc EXCEPT ![w] = "replaying"]
  /\ UNCHANGED <<lockVars, partitions, leader, ready, watcherID, pubVars, id, startPc,
                 callVars>>

\* A partition's leader goes before its readiness; the partitions' order is the
\* map's.
Replay(w, e) ==
  /\ watchPc[w] = "replaying"
  /\ e \in replay[w]
  /\ e.kind = "ready" => \A f \in replay[w] : f.group = e.group => f = e
  /\ Send(w, e)
  /\ replay' = [replay EXCEPT ![w] = @ \ {e}]
  /\ UNCHANGED <<lockVars, nodeVars, pubVars, watchPc, id, startPc, handler, done, closed,
                 delivered>>

EndRegister(w) ==
  /\ watchPc[w] = "replaying"
  /\ replay[w] = {}
  /\ watchPc' = [watchPc EXCEPT ![w] = "watching"]
  /\ Unlock
  /\ UNCHANGED <<nodeVars, pubVars, id, replay, startPc, callVars>>

\* Variants of the closing goroutine's delete: none, and of every watcher.
NoneDeleted(w) == watchers
AllDeleted(w) == {}

WithoutID(w) == {r \in watchers : r[1] # id[w]}

\* The context has ended.
CloseWatch(w) ==
  /\ watchPc[w] = "watching"
  /\ done[w]
  /\ Locked(w)
  /\ closed' = [closed EXCEPT ![w] = TRUE]
  /\ watchers' = WithoutID(w)
  /\ watchPc' = [watchPc EXCEPT ![w] = "closed"]
  /\ Unlock
  /\ UNCHANGED <<partitions, leader, ready, watcherID, pubVars, id, replay, startPc,
                 handler, done, chan, sent, delivered>>

----------------------------------------------------------------------------
(* nodeServer.Watch.                                                       *)

\* The client goes away, or cancels its call.
Cancel(w) ==
  /\ handler[w] = "receiving"
  /\ ~done[w]
  /\ done' = [done EXCEPT ![w] = TRUE]
  /\ UNCHANGED <<lockVars, nodeVars, pubVars, watchVars, startPc, handler, chan, closed,
                 sent, delivered>>

Forward(w) ==
  /\ handler[w] = "receiving"
  /\ chan[w] # <<>>
  /\ ~done[w]
  /\ chan' = [chan EXCEPT ![w] = Tail(@)]
  /\ delivered' = LET e == Head(chan[w])
                  IN IF e.kind = "leader" THEN [delivered EXCEPT ![w][e.group] = e.n]
                                          ELSE delivered
  /\ UNCHANGED <<lockVars, nodeVars, pubVars, watchVars, startPc, handler, done, closed,
                 sent>>

\* Send reports an error: the handler returns, which ends the context, and
\* nothing receives from the channel any more.
FailSend(w) ==
  /\ handler[w] = "receiving"
  /\ chan[w] # <<>>
  /\ chan' = [chan EXCEPT ![w] = Tail(@)]
  /\ handler' = [handler EXCEPT ![w] = "returned"]
  /\ done' = [done EXCEPT ![w] = TRUE]
  /\ UNCHANGED <<lockVars, nodeVars, pubVars, watchVars, startPc, closed, sent, delivered>>

\* The channel is closed and drained.
EndHandler(w) ==
  /\ handler[w] = "receiving"
  /\ closed[w]
  /\ chan[w] = <<>>
  /\ handler' = [handler EXCEPT ![w] = "returned"]
  /\ UNCHANGED <<lockVars, nodeVars, pubVars, watchVars, startPc, done, chan, closed, sent,
                 delivered>>

----------------------------------------------------------------------------
PublisherStep(p) ==
  \/ UpdatePartition(p)
  \/ \E w \in Watcher : SendEvent(p, w)
  \/ EndPublish(p)

\* What a goroutine of Protocol.Watch does without waiting for the lock.
WatchStep(w) ==
  \/ LoadID(w)
  \/ StoreID(w)
  \/ ReadID(w)
  \/ Register(w)
  \/ \E e \in Event : Replay(w, e)
  \/ EndRegister(w)
  \/ CloseWatch(w)

HandlerStep(w) ==
  \/ Forward(w)
  \/ FailSend(w)
  \/ EndHandler(w)

Next ==
  \/ \E g \in Group : StartGroup(g) \/ AnnounceStart(g) \/ AddPartition(g)
  \/ \E p \in Publisher, e \in Event : Publish(p, e)
  \/ \E p \in Publisher : PublisherStep(p)
  \/ \E w \in Watcher : ClientWatch(w)
  \/ \E w \in Watcher : WatchStep(w)
  \/ \E w \in Watcher : AnnounceWatch(w)
  \/ \E w \in Watcher : Cancel(w)
  \/ \E w \in Watcher : HandlerStep(w)

Spec == Init /\ [][Next]_vars

\* Go runs every goroutine that can run, and its mutex does not starve a writer.
\* Clients, contexts and Raft are under no obligation, and a Send that blocks
\* returns in the end, with an error if the client is gone.
Fairness ==
  /\ \A p \in Publisher : WF_vars(PublisherStep(p))
  /\ \A w \in Watcher : /\ WF_vars(WatchStep(w))
                        /\ SF_vars(AnnounceWatch(w))
                        /\ WF_vars(HandlerStep(w))
  /\ \A g \in Group : WF_vars(AddPartition(g)) /\ SF_vars(AnnounceStart(g))

FairSpec == Spec /\ Fairness

----------------------------------------------------------------------------
(* Properties.                                                             *)

TypeOK ==
  /\ writer \in Watcher \cup Group \cup {Nobody}
  /\ readers \subseteq Publisher /\ queued \subseteq Publisher
  /\ partitions \subseteq Group
  /\ leader \in [Group -> 0..MaxLeaderEvents]
  /\ ready \in [Group -> BOOLEAN]
  /\ watcherID \in Nat
  /\ watchers \subseteq Nat \X Watcher
  /\ pubPc \in [Publisher -> {"idle", "locking", "sending"}]
  /\ event \in [Publisher -> Event \cup {NoEvent}]
  /\ todo \in [Publisher -> SUBSET Watcher]
  /\ watchPc \in [Watcher -> {"none", "loading", "storing", "naming", "locking",
                              "replaying", "watching", "closed"}]
  /\ id \in [Watcher -> Nat]
  /\ replay \in [Watcher -> SUBSET Event]
  /\ startPc \in [Group -> {"none", "locking", "done"}]
  /\ handler \in [Watcher -> {"none", "receiving", "returned"}]
  /\ done \in [Watcher -> BOOLEAN]
  /\ chan \in [Watcher -> Seq(Event)]
  /\ closed \in [Watcher -> BOOLEAN]
  /\ sent \in [Watcher -> [Group -> 0..MaxLeaderEvents]]
  /\ delivered \in [Watcher -> [Group -> 0..MaxLeaderEvents]]

\* No goroutine ever sends on a closed channel, which would panic the process:
\* neither a publish that is in its loop nor a later one.
NoSendOnClosed ==
  \A w \in Watcher : closed[w] =>
    /\ w \notin Registered
    /\ \A p \in Publisher : w \notin todo[p]
    /\ replay[w] = {}

\* A registered watcher has been told of the leader each Partition has, however
\* its registration interleaved with the events: nothing falls between the
\* replay and the first publish it takes part in.
WatcherCurrent ==
  \A w \in Registered, g \in partitions :
    \/ sent[w][g] = leader[g]
    \/ LeaderUpdated(g, leader[g]) \in replay[w]
    \/ \E p \in Publisher : w \in todo[p] /\ event[p] = LeaderUpdated(g, leader[g])

\* A watcher is told of a group's leaders in order and misses none after the
\* first.
InOrder ==
  [][\A w \in Watcher, g \in Group :
       sent'[w][g] \in {sent[w][g], sent[w][g] + 1} \/ sent[w][g] = 0]_vars

\* A watch that is neither ending nor closed gets the events, unless another
\* call has drawn the same identifier.
LostOnlyByClash ==
  \A w \in Watcher :
    watchPc[w] \in {"replaying", "watching"} =>
      \/ w \in Registered
      \/ \E v \in Watcher \ {w} : id[v] = id[w]

\* The channel of a call whose handler has returned is full, and it can be
\* closed only by a goroutine that needs the lock.
Abandoned(w) == handler[w] = "returned" /\ ~closed[w] /\ Len(chan[w]) = Capacity

\* Events keep flowing: a publish comes to its end, unless the loop is stuck for
\* good on the channel of a handler that returned when Send failed.
PublishEnds ==
  \A p \in Publisher : []<>(pubPc[p] = "idle") \/ <>[](\E w \in Watcher : Abandoned(w))

\* A client that stays catches up, again and again, with the leader its node
\* knows.
LeaderDelivered ==
  \A w \in Watcher, g \in Group :
    []<>(\/ delivered[w][g] = leader[g]
         \/ done[w]
         \/ w \notin Registered
         \/ \E v \in Watcher : Abandoned(v))

----------------------------------------------------------------------------
(* The inductive invariant.                                                *)

\* A replay has the lock to itself.
LockExcludes ==
  \A w \in Watcher : watchPc[w] = "replaying" => writer = w /\ readers = {}

\* A publish waits for the read lock or has it, and its loop has it and is over
\* channels that stay registered.
PublishersFollow ==
  \A p \in Publisher :
    /\ pubPc[p] = "idle" <=> p \notin readers \cup queued
    /\ p \notin readers \cap queued
    /\ IF pubPc[p] = "sending" THEN p \in readers ELSE todo[p] = {}
    /\ todo[p] \subseteq Registered

\* A leader event is the next one of its group until the Partition reflects it, and
\* the next one for each channel it has yet to be sent to.
EventsFollow ==
  \A p \in Publisher : pubPc[p] # "idle" =>
    LET e == event[p]
    IN /\ e \in Event /\ e.group \in partitions
       /\ e.kind = "leader" =>
            /\ p = "raft"
            /\ leader[e.group] = IF pubPc[p] = "locking" THEN e.n - 1 ELSE e.n
            /\ \A w \in todo[p] : sent[w][e.group] = e.n - 1

\* A replay tells what the Partitions are, each for the first time; before it, a
\* call has been sent nothing.
ReplaysFollow ==
  \A w \in Watcher :
    /\ watchPc[w] = "none" <=> handler[w] = "none"
    /\ watchPc[w] # "replaying" => replay[w] = {}
    /\ \A e \in replay[w] :
         /\ e.group \in partitions
         /\ e.kind = "leader" => e.n = leader[e.group] /\ sent[w][e.group] = 0
    /\ watchPc[w] \in {"none", "loading", "storing", "naming", "locking"} =>
         \A g \in Group : sent[w][g] = 0
    /\ closed[w] <=> watchPc[w] = "closed"

\* An entry of the map is under the identifier of its call, which watches.
EntriesFollow ==
  \A r \in watchers : r[1] = id[r[2]] /\ watchPc[r[2]] \in {"replaying", "watching"}

\* An entry that is gone was replaced or deleted under the same identifier.
EntriesKept ==
  \A w \in Watcher : watchPc[w] \in {"replaying", "watching"} =>
    \/ w \in Registered
    \/ \E v \in Watcher \ {w} :
         id[v] = id[w] /\ watchPc[v] \in {"replaying", "watching", "closed"}

\* Nothing is known of a group that has not started.
NothingBeforeStart ==
  \A g \in Group \ partitions : leader[g] = 0 /\ \A w \in Watcher : sent[w][g] = 0

IInv ==
  /\ TypeOK
  /\ LockExcludes
  /\ PublishersFollow
  /\ EventsFollow
  /\ ReplaysFollow
  /\ EntriesFollow
  /\ EntriesKept
  /\ NothingBeforeStart
  /\ WatcherCurrent
=============================================================================
