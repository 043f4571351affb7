------------------------- MODULE EventFanoutProofs -------------------------
(***************************************************************************)
(* Proofs about EventFanout, for any groups and watchers, any capacity and    *)
(* any number of leader events.  IInv is the inductive invariant: it says      *)
(* what the lock is for.  Nothing is registered, replayed or closed while a    *)
(* publish is in its loop, so that the loop is over registered channels and   *)
(* a replay tells what the Partitions still are.                              *)
(***************************************************************************)
EXTENDS EventFanout, TLAPS

-----------------------------------------------------------------------------
\* The channels

\* Whoever has an entry in the map.
LEMMA RegisteredHas ==
  ASSUME NEW w
  PROVE w \in Registered <=> \E r \in watchers : r[2] = w
BY DEF Registered

\* No event is in the loop of a publish while a call has the lock.
LEMMA NothingSent ==
  ASSUME IInv, readers = {}
  PROVE \A p \in Publisher : pubPc[p] # "sending" /\ todo[p] = {}
BY DEF IInv, PublishersFollow

\* A channel that an event is put on.
LEMMA SendStep ==
  ASSUME TypeOK, NEW w \in Watcher, NEW e \in Event, Send(w, e)
  PROVE /\ chan' \in [Watcher -> Seq(Event)]
        /\ sent' \in [Watcher -> [Group -> 0..MaxLeaderEvents]]
        /\ e.kind = "leader" => sent'[w][e.group] = e.n
        /\ \A v \in Watcher, g \in Group :
             ~(v = w /\ e.kind = "leader" /\ g = e.group) => sent'[v][g] = sent[v][g]
<1>1. /\ sent \in [Watcher -> [Group -> 0..MaxLeaderEvents]] /\ chan \in [Watcher -> Seq(Event)]
      /\ e.group \in Group /\ e.n \in 0..MaxLeaderEvents
      BY DEF TypeOK, Event
<1>2. chan' \in [Watcher -> Seq(Event)]
  <2>1. chan[w] \in Seq(Event) /\ chan' = [chan EXCEPT ![w] = Append(chan[w], e)]
        BY <1>1 DEF Send
  <2>2. Append(chan[w], e) \in Seq(Event)
        BY <2>1
  <2> QED
      BY <1>1, <2>1, <2>2
<1>3. CASE e.kind = "leader"
  <2>1. sent' = [sent EXCEPT ![w] = [sent[w] EXCEPT ![e.group] = e.n]]
        BY <1>3 DEF Send
  <2>2. [sent[w] EXCEPT ![e.group] = e.n] \in [Group -> 0..MaxLeaderEvents]
        BY <1>1
  <2>3. sent' \in [Watcher -> [Group -> 0..MaxLeaderEvents]]
        BY <1>1, <2>1, <2>2
  <2> QED
      BY <1>1, <1>2, <1>3, <2>1, <2>3
<1>4. CASE e.kind # "leader"
      BY <1>1, <1>2, <1>4 DEF Send
<1> QED
    BY <1>3, <1>4

-----------------------------------------------------------------------------
\* The invariant

LEMMA InitIInv == Init => IInv
<1> SUFFICES ASSUME Init PROVE IInv
    OBVIOUS
<1>1. TypeOK
  <2>1. /\ writer \in Watcher \cup Group \cup {Nobody}
        /\ readers \subseteq Publisher /\ queued \subseteq Publisher /\ partitions \subseteq Group
        /\ watcherID \in Nat /\ watchers \subseteq Nat \X Watcher
        BY DEF Init
  <2>2. /\ 0 \in 0..MaxLeaderEvents
        BY FanoutAssumption
  <2>3. /\ leader \in [Group -> 0..MaxLeaderEvents] /\ ready \in [Group -> BOOLEAN]
        /\ startPc \in [Group -> {"none", "locking", "done"}]
        BY <2>2 DEF Init
  <2>4. /\ pubPc \in [Publisher -> {"idle", "locking", "sending"}]
        /\ event \in [Publisher -> Event \cup {NoEvent}]
        /\ todo \in [Publisher -> SUBSET Watcher]
        BY DEF Init
  <2>5. /\ watchPc \in [Watcher -> {"none", "loading", "storing", "naming", "locking",
                                    "replaying", "watching", "closed"}]
        /\ id \in [Watcher -> Nat] /\ replay \in [Watcher -> SUBSET Event]
        /\ handler \in [Watcher -> {"none", "receiving", "returned"}]
        /\ done \in [Watcher -> BOOLEAN] /\ closed \in [Watcher -> BOOLEAN]
        BY DEF Init
  <2>6. /\ chan \in [Watcher -> Seq(Event)]
        /\ sent \in [Watcher -> [Group -> 0..MaxLeaderEvents]]
        /\ delivered \in [Watcher -> [Group -> 0..MaxLeaderEvents]]
        BY <2>2 DEF Init
  <2> QED
      BY <2>1, <2>3, <2>4, <2>5, <2>6 DEF TypeOK
<1>2. Registered = {}
      BY DEF Init, Registered
<1>3. LockExcludes /\ PublishersFollow /\ EventsFollow
      BY DEF Init, LockExcludes, PublishersFollow, EventsFollow
<1>4. ReplaysFollow /\ EntriesFollow /\ EntriesKept
      BY DEF Init, ReplaysFollow, EntriesFollow, EntriesKept
<1>5. NothingBeforeStart /\ WatcherCurrent
      BY <1>2 DEF Init, NothingBeforeStart, WatcherCurrent
<1> QED
    BY <1>1, <1>3, <1>4, <1>5 DEF IInv

\* Steps of clients, of handlers and of a starting group, of which the lock and the
\* map know nothing.
LEMMA OutsideStep ==
  ASSUME IInv, TypeOK',
         UNCHANGED <<writer, readers, queued, partitions, leader, watchers, pubPc, event, todo,
                     watchPc, id, replay, closed, sent>>,
         \A w \in Watcher : handler[w] = "none" <=> handler'[w] = "none"
  PROVE IInv'
<1>1. Registered' = Registered
      BY DEF Registered
<1>2. LockExcludes' /\ PublishersFollow' /\ EventsFollow' /\ ReplaysFollow'
      BY <1>1 DEF IInv, LockExcludes, PublishersFollow, EventsFollow, ReplaysFollow
<1>3. EntriesFollow' /\ EntriesKept' /\ NothingBeforeStart' /\ WatcherCurrent'
      BY <1>1 DEF IInv, EntriesFollow, EntriesKept, NothingBeforeStart, WatcherCurrent
<1> QED
    BY <1>2, <1>3 DEF IInv

\* Types of what a handler does.
LEMMA HandlerStepStep ==
  ASSUME IInv, NEW w \in Watcher, Cancel(w) \/ HandlerStep(w)
  PROVE IInv'
<1>1. /\ UNCHANGED <<writer, readers, queued, partitions, leader, ready, watcherID, watchers,
                     pubPc, event, todo, watchPc, id, replay, startPc, closed, sent>>
      BY DEF Cancel, HandlerStep, Forward, FailSend, EndHandler, lockVars, nodeVars, pubVars,
             watchVars
<1>2. chan' \in [Watcher -> Seq(Event)]
  <2>1. CASE chan' = chan
        BY <2>1 DEF IInv, TypeOK
  <2>2. CASE chan[w] # <<>> /\ chan' = [chan EXCEPT ![w] = Tail(@)]
    <3>1. chan[w] \in Seq(Event) /\ chan[w] # <<>>
          BY <2>2 DEF IInv, TypeOK
    <3>2. Tail(chan[w]) \in Seq(Event)
          BY <3>1
    <3> QED
        BY <2>2, <3>2 DEF IInv, TypeOK
  <2> QED
      BY <2>1, <2>2 DEF Cancel, HandlerStep, Forward, FailSend, EndHandler
<1>3. /\ handler' \in [Watcher -> {"none", "receiving", "returned"}]
      /\ done' \in [Watcher -> BOOLEAN]
  <2>1. /\ handler' = handler \/ handler' = [handler EXCEPT ![w] = "returned"]
        /\ done' = done \/ done' = [done EXCEPT ![w] = TRUE]
        BY DEF Cancel, HandlerStep, Forward, FailSend, EndHandler
  <2> QED
      BY <2>1 DEF IInv, TypeOK
<1>4. delivered' \in [Watcher -> [Group -> 0..MaxLeaderEvents]]
  <2>1. CASE delivered' = delivered
        BY <2>1 DEF IInv, TypeOK
  <2>2. CASE Forward(w) /\ delivered' # delivered
    <3>1. PICK e : e = Head(chan[w])
          OBVIOUS
    <3>2. chan[w] \in Seq(Event) /\ chan[w] # <<>>
          BY <2>2 DEF Forward, IInv, TypeOK
    <3>3. e \in Event
          BY <3>1, <3>2
    <3>4. delivered' = [delivered EXCEPT ![w] = [delivered[w] EXCEPT ![e.group] = e.n]]
          BY <2>2, <3>1 DEF Forward
    <3>5. [delivered[w] EXCEPT ![e.group] = e.n] \in [Group -> 0..MaxLeaderEvents]
          BY <3>3 DEF Event, IInv, TypeOK
    <3> QED
        BY <3>4, <3>5 DEF IInv, TypeOK
  <2> QED
      BY <2>1, <2>2 DEF Cancel, HandlerStep, Forward, FailSend, EndHandler
<1>5. TypeOK'
      BY <1>1, <1>2, <1>3, <1>4 DEF IInv, TypeOK
<1>6. \A v \in Watcher : handler[v] = "none" <=> handler'[v] = "none"
      BY DEF IInv, TypeOK, Cancel, HandlerStep, Forward, FailSend, EndHandler
<1> QED
    BY <1>1, <1>5, <1>6, OutsideStep

LEMMA StartGroupStep == ASSUME IInv, NEW g \in Group, StartGroup(g) PROVE IInv'
<1>1. TypeOK'
      BY DEF IInv, TypeOK, StartGroup, lockVars, nodeVars, pubVars, watchVars, callVars
<1> QED
    BY <1>1, OutsideStep DEF StartGroup, lockVars, nodeVars, pubVars, watchVars, callVars

\* A call that begins, or draws its identifier.
LEMMA IdentifierStep ==
  ASSUME IInv, NEW w \in Watcher, ClientWatch(w) \/ LoadID(w) \/ StoreID(w) \/ ReadID(w)
  PROVE IInv'
<1> DEFINE Before == {"none", "loading", "storing", "naming", "locking"}
<1>1. /\ UNCHANGED <<writer, readers, queued, partitions, leader, ready, watchers, pubPc, event,
                     todo, replay, startPc, done, chan, closed, sent, delivered>>
      BY DEF ClientWatch, LoadID, StoreID, ReadID, lockVars, nodeVars, pubVars, callVars
<1>2. /\ watchPc[w] \in Before
      /\ \E pc \in Before \ {"none"} : watchPc' = [watchPc EXCEPT ![w] = pc]
      BY DEF IInv, ReplaysFollow, ClientWatch, LoadID, StoreID, ReadID
<1>3. /\ watchPc' \in [Watcher -> Before \cup {"replaying", "watching", "closed"}]
      /\ watchPc'[w] \in Before \ {"none"}
      /\ \A v \in Watcher \ {w} : watchPc'[v] = watchPc[v]
  <2>1. PICK pc \in Before \ {"none"} : watchPc' = [watchPc EXCEPT ![w] = pc]
        BY <1>2
  <2>2. watchPc \in [Watcher -> Before \cup {"replaying", "watching", "closed"}]
        BY DEF IInv, TypeOK
  <2> QED
      BY <2>1, <2>2
<1>4. \A v \in Watcher : watchPc[v] \in {"replaying", "watching", "closed"}
                           \/ watchPc'[v] \in {"replaying", "watching", "closed"} => v # w
      BY <1>2, <1>3
<1>5. /\ id' \in [Watcher -> Nat] /\ watcherID' \in Nat
      /\ \A v \in Watcher \ {w} : id'[v] = id[v]
  <2>1. id \in [Watcher -> Nat] /\ watcherID \in Nat
        BY DEF IInv, TypeOK
  <2>2. watcherID' \in Nat
        BY <2>1 DEF ClientWatch, LoadID, StoreID, ReadID, nodeVars
  <2>3. id' = id \/ \E i \in Nat : id' = [id EXCEPT ![w] = i]
        BY <2>1 DEF ClientWatch, LoadID, StoreID, ReadID
  <2>4. CASE id' = id
        BY <2>1, <2>2, <2>4
  <2>5. CASE \E i \in Nat : id' = [id EXCEPT ![w] = i]
    <3>1. PICK i \in Nat : id' = [id EXCEPT ![w] = i]
          BY <2>5
    <3> QED
        BY <2>1, <2>2, <3>1
  <2> QED
      BY <2>3, <2>4, <2>5
<1>6. /\ handler' \in [Watcher -> {"none", "receiving", "returned"}]
      /\ handler'[w] # "none"
      /\ \A v \in Watcher \ {w} : handler'[v] = handler[v]
  <2>1. CASE ClientWatch(w)
        BY <2>1 DEF IInv, TypeOK, ClientWatch
  <2>2. CASE LoadID(w) \/ StoreID(w) \/ ReadID(w)
    <3>1. handler' = handler /\ watchPc[w] # "none"
          BY <2>2 DEF LoadID, StoreID, ReadID, callVars
    <3> QED
        BY <3>1 DEF IInv, TypeOK, ReplaysFollow
  <2> QED
      BY <2>1, <2>2
<1>7. TypeOK'
      BY <1>1, <1>3, <1>5, <1>6 DEF IInv, TypeOK
<1>8. Registered' = Registered
      BY <1>1 DEF Registered
<1>9. LockExcludes' /\ PublishersFollow' /\ EventsFollow' /\ NothingBeforeStart' /\ WatcherCurrent'
  <2>1. LockExcludes'
        BY <1>1, <1>3, <1>4 DEF IInv, LockExcludes
  <2> QED
      BY <1>1, <1>8, <2>1
      DEF IInv, PublishersFollow, EventsFollow, NothingBeforeStart, WatcherCurrent
<1>10. ReplaysFollow'
  <2> SUFFICES ASSUME NEW v \in Watcher
               PROVE /\ watchPc'[v] = "none" <=> handler'[v] = "none"
                     /\ watchPc'[v] # "replaying" => replay[v] = {}
                     /\ \A e \in replay[v] :
                          /\ e.group \in partitions
                          /\ e.kind = "leader" => e.n = leader[e.group] /\ sent[v][e.group] = 0
                     /\ watchPc'[v] \in Before => \A g \in Group : sent[v][g] = 0
                     /\ closed[v] <=> watchPc'[v] = "closed"
      BY <1>1 DEF ReplaysFollow
  <2>1. CASE v = w
    <3>1. watchPc[w] # "replaying" /\ watchPc[w] # "closed" /\ watchPc'[w] # "closed"
          BY <1>2, <1>3
    <3> QED
        BY <2>1, <3>1, <1>2, <1>3, <1>6 DEF IInv, ReplaysFollow
  <2>2. CASE v # w
        BY <2>2, <1>3, <1>6 DEF IInv, ReplaysFollow
  <2> QED
      BY <2>1, <2>2
<1>11. EntriesFollow'
  <2> SUFFICES ASSUME NEW r \in watchers
               PROVE r[1] = id'[r[2]] /\ watchPc'[r[2]] \in {"replaying", "watching"}
      BY <1>1 DEF EntriesFollow
  <2>1. r[2] \in Watcher /\ r[1] = id[r[2]] /\ watchPc[r[2]] \in {"replaying", "watching"}
        BY DEF IInv, TypeOK, EntriesFollow
  <2>2. r[2] # w
        BY <1>4, <2>1
  <2> QED
      BY <1>3, <1>5, <2>1, <2>2
<1>12. EntriesKept'
  <2> SUFFICES ASSUME NEW v \in Watcher, watchPc'[v] \in {"replaying", "watching"}, v \notin Registered
               PROVE \E u \in Watcher \ {v} :
                       id'[u] = id'[v] /\ watchPc'[u] \in {"replaying", "watching", "closed"}
      BY <1>8 DEF EntriesKept
  <2>1. v # w /\ watchPc[v] = watchPc'[v] /\ id'[v] = id[v]
        BY <1>3, <1>4, <1>5
  <2>2. PICK u \in Watcher \ {v} :
               id[u] = id[v] /\ watchPc[u] \in {"replaying", "watching", "closed"}
        BY <2>1 DEF IInv, EntriesKept
  <2>3. u # w
        BY <1>4, <2>2
  <2> QED
      BY <1>3, <1>5, <2>1, <2>2, <2>3
<1> QED
    BY <1>7, <1>9, <1>10, <1>11, <1>12 DEF IInv

\* A writer that gets in line.
LEMMA AnnounceStep ==
  ASSUME IInv, NEW t \in Watcher \cup Group, Announce(t),
         UNCHANGED <<nodeVars, pubVars, watchVars, startPc, callVars>>
  PROVE IInv'
<1>1. /\ writer = Nobody /\ writer' = t
      /\ UNCHANGED <<readers, queued, partitions, leader, ready, watcherID, watchers, pubPc, event,
                     todo, watchPc, id, replay, startPc, handler, done, chan, closed, sent, delivered>>
      BY DEF Announce, nodeVars, pubVars, watchVars, callVars
<1>2. TypeOK'
      BY <1>1 DEF IInv, TypeOK
<1>3. LockExcludes'
      BY <1>1, FanoutAssumption DEF IInv, LockExcludes
<1>4. Registered' = Registered
      BY <1>1 DEF Registered
<1>5. PublishersFollow' /\ EventsFollow' /\ ReplaysFollow'
      BY <1>1, <1>4 DEF IInv, PublishersFollow, EventsFollow, ReplaysFollow
<1>6. EntriesFollow' /\ EntriesKept' /\ NothingBeforeStart' /\ WatcherCurrent'
      BY <1>1, <1>4 DEF IInv, EntriesFollow, EntriesKept, NothingBeforeStart, WatcherCurrent
<1> QED
    BY <1>2, <1>3, <1>5, <1>6 DEF IInv

\* What Unlock does to the readers: those that had queued up enter.
LEMMA UnlockStep ==
  ASSUME IInv, NEW t \in Watcher \cup Group, Locked(t), Unlock, UNCHANGED <<pubPc, todo>>,
         \A w \in Watcher : watchPc'[w] = "replaying" => w # t /\ watchPc[w] = "replaying"
  PROVE /\ writer' \in Watcher \cup Group \cup {Nobody}
        /\ readers' \subseteq Publisher /\ queued' \subseteq Publisher
        /\ LockExcludes'
        /\ \A p \in Publisher : todo[p] = {} /\ pubPc[p] # "sending"
        /\ PublishersFollow'
<1>1. /\ writer = t /\ readers = {} /\ writer' = Nobody /\ readers' = queued /\ queued' = {}
      BY DEF Locked, Unlock
<1>2. \A p \in Publisher : todo[p] = {} /\ pubPc[p] # "sending"
      BY <1>1, NothingSent
<1>3. LockExcludes'
      BY <1>1 DEF IInv, LockExcludes
<1>4. PublishersFollow'
      BY <1>1, <1>2 DEF IInv, PublishersFollow
<1> QED
    BY <1>1, <1>2, <1>3, <1>4 DEF IInv, TypeOK

\* Of a group that starts nothing has been announced.
LEMMA AddPartitionStep == ASSUME IInv, NEW g \in Group, AddPartition(g) PROVE IInv'
<1>1. /\ Locked(g) /\ Unlock /\ partitions' = partitions \cup {g}
      /\ UNCHANGED <<leader, ready, watcherID, watchers, pubPc, event, todo, watchPc, id, replay,
                     handler, done, chan, closed, sent, delivered>>
      BY DEF AddPartition, pubVars, watchVars, callVars
<1>2. \A w \in Watcher : watchPc'[w] = "replaying" => w # g /\ watchPc[w] = "replaying"
      BY <1>1, FanoutAssumption
<1>3. /\ writer' \in Watcher \cup Group \cup {Nobody}
      /\ readers' \subseteq Publisher /\ queued' \subseteq Publisher
      /\ LockExcludes' /\ PublishersFollow'
      BY <1>1, <1>2, UnlockStep
<1>4. startPc' \in [Group -> {"none", "locking", "done"}]
      BY DEF IInv, TypeOK, AddPartition
<1>5. TypeOK'
      BY <1>1, <1>3, <1>4 DEF IInv, TypeOK
<1>6. Registered' = Registered
      BY <1>1 DEF Registered
<1>7. EventsFollow' /\ ReplaysFollow' /\ EntriesFollow' /\ EntriesKept' /\ NothingBeforeStart'
      BY <1>1, <1>6 DEF IInv, EventsFollow, ReplaysFollow, EntriesFollow, EntriesKept, NothingBeforeStart
<1>8. WatcherCurrent'
  <2> SUFFICES ASSUME NEW w \in Registered, NEW h \in partitions \cup {g}
               PROVE \/ sent[w][h] = leader[h]
                     \/ LeaderUpdated(h, leader[h]) \in replay[w]
                     \/ \E p \in Publisher : w \in todo[p] /\ event[p] = LeaderUpdated(h, leader[h])
      BY <1>1, <1>6 DEF WatcherCurrent
  <2>1. CASE h \in partitions
        BY <2>1 DEF IInv, WatcherCurrent
  <2>2. CASE h \notin partitions
    <3>1. w \in Watcher /\ h \in Group
          BY DEF IInv, TypeOK, Registered
    <3> QED
        BY <2>2, <3>1 DEF IInv, NothingBeforeStart
  <2> QED
      BY <2>1, <2>2
<1> QED
    BY <1>3, <1>5, <1>7, <1>8 DEF IInv

-----------------------------------------------------------------------------
\* publish

\* The next leader event of a group, or its readiness.
LEMMA PublishStep ==
  ASSUME IInv, NEW p \in Publisher, NEW e \in Event, Publish(p, e)
  PROVE IInv'
<1>1. /\ pubPc[p] = "idle" /\ RLock(p)
      /\ pubPc' = [pubPc EXCEPT ![p] = "locking"] /\ event' = [event EXCEPT ![p] = e]
      /\ UNCHANGED <<partitions, leader, ready, watcherID, watchers, todo, watchPc, id, replay,
                     startPc, handler, done, chan, closed, sent, delivered>>
      BY DEF Publish, nodeVars, watchVars, callVars
<1>2. /\ e.group \in partitions
      /\ e.kind = "leader" => p = "raft" /\ leader[e.group] = e.n - 1
  <2>1. PICK g \in partitions :
          \/ p = "raft" /\ leader[g] < MaxLeaderEvents /\ e = LeaderUpdated(g, leader[g] + 1)
          \/ p = "system" /\ ~ready[g] /\ e = MemberReady(g)
        BY DEF Publish, Occurs
  <2>2. leader[g] \in Nat
        BY FanoutAssumption DEF IInv, TypeOK
  <2> QED
      BY <2>1, <2>2 DEF LeaderUpdated, MemberReady
<1>3. /\ pubPc' \in [Publisher -> {"idle", "locking", "sending"}] /\ pubPc'[p] = "locking"
      /\ event' \in [Publisher -> Event \cup {NoEvent}] /\ event'[p] = e
      /\ \A q \in Publisher \ {p} : pubPc'[q] = pubPc[q] /\ event'[q] = event[q]
      BY <1>1 DEF IInv, TypeOK
<1>4. /\ p \notin readers \cup queued /\ todo[p] = {}
      /\ writer' = writer /\ readers' \cup queued' = readers \cup queued \cup {p}
      /\ \/ readers' = readers
         \/ writer = Nobody /\ readers' = readers \cup {p}
      /\ readers \subseteq readers'
      /\ p \notin readers' \cap queued'
      /\ \A q \in Publisher \ {p} : /\ q \in readers' <=> q \in readers
                                    /\ q \in queued' <=> q \in queued
      BY <1>1 DEF IInv, PublishersFollow, RLock
<1>5. TypeOK'
      BY <1>1, <1>3, <1>4 DEF IInv, TypeOK
<1>6. Registered' = Registered
      BY <1>1 DEF Registered
<1>7. LockExcludes'
      BY <1>1, <1>4, FanoutAssumption DEF IInv, LockExcludes
<1>8. PublishersFollow'
  <2> SUFFICES ASSUME NEW q \in Publisher
               PROVE /\ pubPc'[q] = "idle" <=> q \notin readers' \cup queued'
                     /\ q \notin readers' \cap queued'
                     /\ IF pubPc'[q] = "sending" THEN q \in readers' ELSE todo[q] = {}
                     /\ todo[q] \subseteq Registered
      BY <1>1, <1>6 DEF PublishersFollow
  <2>1. CASE q = p
        BY <2>1, <1>3, <1>4
  <2>2. CASE q # p
        BY <2>2, <1>3, <1>4 DEF IInv, PublishersFollow
  <2> QED
      BY <2>1, <2>2
<1>9. EventsFollow'
  <2> SUFFICES ASSUME NEW q \in Publisher, pubPc'[q] # "idle"
               PROVE /\ event'[q] \in Event /\ event'[q].group \in partitions
                     /\ event'[q].kind = "leader" =>
                          /\ q = "raft"
                          /\ leader[event'[q].group] =
                               IF pubPc'[q] = "locking" THEN event'[q].n - 1 ELSE event'[q].n
                          /\ \A w \in todo[q] : sent[w][event'[q].group] = event'[q].n - 1
      BY <1>1 DEF EventsFollow
  <2>1. CASE q = p
        BY <2>1, <1>2, <1>3, <1>4
  <2>2. CASE q # p
        BY <2>2, <1>3 DEF IInv, EventsFollow
  <2> QED
      BY <2>1, <2>2
<1>10. ReplaysFollow' /\ EntriesFollow' /\ EntriesKept' /\ NothingBeforeStart'
      BY <1>1, <1>6 DEF IInv, ReplaysFollow, EntriesFollow, EntriesKept, NothingBeforeStart
<1>11. WatcherCurrent'
  <2> SUFFICES ASSUME NEW w \in Registered, NEW g \in partitions
               PROVE \/ sent[w][g] = leader[g]
                     \/ LeaderUpdated(g, leader[g]) \in replay[w]
                     \/ \E q \in Publisher : w \in todo[q] /\ event'[q] = LeaderUpdated(g, leader[g])
      BY <1>1, <1>6 DEF WatcherCurrent
  <2>1. CASE \E q \in Publisher : w \in todo[q] /\ event[q] = LeaderUpdated(g, leader[g])
    <3>1. PICK q \in Publisher : w \in todo[q] /\ event[q] = LeaderUpdated(g, leader[g])
          BY <2>1
    <3>2. q # p
          BY <3>1, <1>4
    <3> QED
        BY <3>1, <3>2, <1>3
  <2>2. CASE sent[w][g] = leader[g] \/ LeaderUpdated(g, leader[g]) \in replay[w]
        BY <2>2
  <2> QED
      BY <2>1, <2>2 DEF IInv, WatcherCurrent
<1> QED
    BY <1>5, <1>7, <1>8, <1>9, <1>10, <1>11 DEF IInv

\* The Partition changes when no replay is under way and no loop, so that every
\* registered watcher has been sent what the Partition was until now.
LEMMA UpdatePartitionStep == ASSUME IInv, NEW p \in Publisher, UpdatePartition(p) PROVE IInv'
<1> DEFINE e == event[p]
<1>1. /\ pubPc[p] = "locking" /\ p \in readers /\ pubPc' = [pubPc EXCEPT ![p] = "sending"]
      /\ todo' = [todo EXCEPT ![p] = Registered]
      /\ UNCHANGED <<writer, readers, queued, partitions, watcherID, watchers, event, watchPc, id,
                     replay, startPc, handler, done, chan, closed, sent, delivered>>
      BY DEF UpdatePartition, lockVars, watchVars, callVars
<1>2. /\ e \in Event /\ e.group \in partitions /\ e.group \in Group /\ e.n \in 0..MaxLeaderEvents
      /\ e.kind = "leader" => p = "raft" /\ leader[e.group] = e.n - 1
  <2>1. /\ e \in Event /\ e.group \in partitions
        /\ e.kind = "leader" => p = "raft" /\ leader[e.group] = e.n - 1
        BY <1>1 DEF IInv, EventsFollow
  <2> HIDE DEF e
  <2> QED
      BY <2>1 DEF Event
<1>3. \A w \in Watcher : replay[w] = {} /\ watchPc[w] # "replaying"
      BY <1>1 DEF IInv, LockExcludes, ReplaysFollow
<1>4. Registered \subseteq Watcher /\ Registered' = Registered
      BY <1>1 DEF IInv, TypeOK, Registered
<1>5. /\ leader' \in [Group -> 0..MaxLeaderEvents] /\ ready' \in [Group -> BOOLEAN]
      /\ e.kind = "leader" => leader' = [leader EXCEPT ![e.group] = e.n]
      /\ e.kind # "leader" => leader' = leader
  <2>1. /\ e.kind = "leader" => leader' = [leader EXCEPT ![e.group] = e.n] /\ ready' = ready
        /\ e.kind # "leader" => ready' = [ready EXCEPT ![e.group] = TRUE] /\ leader' = leader
        BY DEF UpdatePartition
  <2> HIDE DEF e
  <2>2. CASE e.kind = "leader"
        BY <2>1, <2>2, <1>2 DEF IInv, TypeOK
  <2>3. CASE e.kind # "leader"
        BY <2>1, <2>3, <1>2 DEF IInv, TypeOK
  <2> QED
      BY <2>2, <2>3
<1> HIDE DEF e
<1>6. /\ leader \in [Group -> 0..MaxLeaderEvents]
      /\ e.kind = "leader" => leader'[e.group] = e.n
      /\ \A g \in Group : ~(e.kind = "leader" /\ g = e.group) => leader'[g] = leader[g]
      BY <1>2, <1>5 DEF IInv, TypeOK
<1>7. /\ pubPc' \in [Publisher -> {"idle", "locking", "sending"}] /\ pubPc'[p] = "sending"
      /\ todo' \in [Publisher -> SUBSET Watcher] /\ todo'[p] = Registered
      /\ \A q \in Publisher \ {p} : pubPc'[q] = pubPc[q] /\ todo'[q] = todo[q]
      BY <1>1, <1>4 DEF IInv, TypeOK
<1>8. TypeOK'
      BY <1>1, <1>5, <1>7 DEF IInv, TypeOK
<1>9. LockExcludes' /\ EntriesFollow' /\ EntriesKept'
      BY <1>1, <1>4 DEF IInv, LockExcludes, EntriesFollow, EntriesKept
<1>10. PublishersFollow'
  <2> SUFFICES ASSUME NEW q \in Publisher
               PROVE /\ pubPc'[q] = "idle" <=> q \notin readers \cup queued
                     /\ q \notin readers \cap queued
                     /\ IF pubPc'[q] = "sending" THEN q \in readers ELSE todo'[q] = {}
                     /\ todo'[q] \subseteq Registered
      BY <1>1, <1>4 DEF PublishersFollow
  <2>1. CASE q = p
        BY <2>1, <1>1, <1>7 DEF IInv, PublishersFollow
  <2>2. CASE q # p
        BY <2>2, <1>7 DEF IInv, PublishersFollow
  <2> QED
      BY <2>1, <2>2
\* Only the Raft thread has leader events, so that there is no other loop of one.
<1>11. \A w \in Registered, g \in partitions : sent[w][g] = leader[g] \/ p # "raft"
  <2> SUFFICES ASSUME NEW w \in Registered, NEW g \in partitions, p = "raft"
               PROVE sent[w][g] = leader[g]
      OBVIOUS
  <2>1. replay[w] = {}
        BY <1>3, <1>4
  <2>2. ASSUME NEW q \in Publisher, w \in todo[q], event[q] = LeaderUpdated(g, leader[g]) PROVE FALSE
    <3>1. event[q].kind = "leader" /\ pubPc[q] = "sending"
          BY <2>2 DEF LeaderUpdated, IInv, PublishersFollow
    <3>2. q = "raft"
          BY <3>1 DEF IInv, EventsFollow
    <3> QED
        BY <3>1, <3>2, <1>1
  <2> QED
      BY <2>1, <2>2 DEF IInv, WatcherCurrent
<1>12. EventsFollow'
  <2> SUFFICES ASSUME NEW q \in Publisher, pubPc'[q] # "idle"
               PROVE /\ event[q] \in Event /\ event[q].group \in partitions
                     /\ event[q].kind = "leader" =>
                          /\ q = "raft"
                          /\ leader'[event[q].group] =
                               IF pubPc'[q] = "locking" THEN event[q].n - 1 ELSE event[q].n
                          /\ \A w \in todo'[q] : sent[w][event[q].group] = event[q].n - 1
      BY <1>1 DEF EventsFollow
  <2>1. CASE q = p
    <3>1. e.kind = "leader" => \A w \in todo'[q] : sent[w][e.group] = e.n - 1
          BY <2>1, <1>2, <1>7, <1>11
    <3> QED
        BY <2>1, <3>1, <1>2, <1>6, <1>7 DEF e
  <2>2. CASE q # p
    <3>1. /\ event[q] \in Event /\ event[q].group \in partitions
          /\ event[q].kind = "leader" =>
               /\ q = "raft"
               /\ leader[event[q].group] =
                    IF pubPc[q] = "locking" THEN event[q].n - 1 ELSE event[q].n
               /\ \A w \in todo[q] : sent[w][event[q].group] = event[q].n - 1
          BY <2>2, <1>7 DEF IInv, EventsFollow
    <3>2. event[q].group \in Group
          BY <3>1 DEF Event
    <3>3. event[q].kind = "leader" => leader'[event[q].group] = leader[event[q].group]
          BY <2>2, <3>1, <3>2, <1>2, <1>6
    <3> QED
        BY <2>2, <3>1, <3>3, <1>7
  <2> QED
      BY <2>1, <2>2
<1>13. ReplaysFollow'
      BY <1>1, <1>3 DEF IInv, ReplaysFollow
<1>14. NothingBeforeStart'
      BY <1>1, <1>2, <1>6 DEF IInv, NothingBeforeStart
<1>15. WatcherCurrent'
  <2> SUFFICES ASSUME NEW w \in Registered, NEW g \in partitions
               PROVE \/ sent[w][g] = leader'[g]
                     \/ \E q \in Publisher : w \in todo'[q] /\ event[q] = LeaderUpdated(g, leader'[g])
      BY <1>1, <1>4 DEF WatcherCurrent
  <2>1. CASE e.kind = "leader" /\ g = e.group
    <3>1. e = LeaderUpdated(g, leader'[g])
          BY <2>1, <1>2, <1>6 DEF LeaderUpdated, Event
    <3> QED
        BY <3>1, <1>7 DEF e
  <2>2. CASE ~(e.kind = "leader" /\ g = e.group)
    <3>1. leader'[g] = leader[g] /\ replay[w] = {}
          BY <2>2, <1>3, <1>4, <1>6 DEF IInv, TypeOK
    <3>2. CASE sent[w][g] = leader[g]
          BY <3>1, <3>2
    <3>3. CASE \E q \in Publisher : w \in todo[q] /\ event[q] = LeaderUpdated(g, leader[g])
      <4>1. PICK q \in Publisher : w \in todo[q] /\ event[q] = LeaderUpdated(g, leader[g])
            BY <3>3
      <4>2. q # p
            BY <4>1, <1>1 DEF IInv, PublishersFollow
      <4> QED
          BY <3>1, <4>1, <4>2, <1>7
    <3> QED
        BY <3>1, <3>2, <3>3 DEF IInv, WatcherCurrent
  <2> QED
      BY <2>1, <2>2
<1> QED
    BY <1>8, <1>9, <1>10, <1>12, <1>13, <1>14, <1>15 DEF IInv

\* An event on a channel: of a leader, it is the next one of its group there.
LEMMA SendEventStep ==
  ASSUME IInv, NEW p \in Publisher, NEW w \in Watcher, SendEvent(p, w)
  PROVE IInv'
<1> DEFINE e == event[p]
<1>1. /\ pubPc[p] = "sending" /\ w \in todo[p] /\ Send(w, e)
      /\ todo' = [todo EXCEPT ![p] = todo[p] \ {w}]
      /\ UNCHANGED <<writer, readers, queued, partitions, leader, ready, watcherID, watchers, pubPc,
                     event, watchPc, id, replay, startPc, handler, done, closed, delivered>>
      BY DEF SendEvent, lockVars, nodeVars, watchVars
<1>2. /\ e \in Event /\ e.group \in partitions
      /\ e.kind = "leader" => p = "raft" /\ leader[e.group] = e.n
      BY <1>1 DEF IInv, EventsFollow
<1>3. /\ chan' \in [Watcher -> Seq(Event)]
      /\ sent' \in [Watcher -> [Group -> 0..MaxLeaderEvents]]
      /\ e.kind = "leader" => sent'[w][e.group] = e.n
      /\ \A v \in Watcher, g \in Group :
           ~(v = w /\ e.kind = "leader" /\ g = e.group) => sent'[v][g] = sent[v][g]
      BY <1>1, <1>2, SendStep DEF IInv
<1>4. /\ todo' \in [Publisher -> SUBSET Watcher] /\ todo'[p] = todo[p] \ {w}
      /\ \A q \in Publisher \ {p} : todo'[q] = todo[q]
      BY <1>1 DEF IInv, TypeOK
<1>5. TypeOK'
      BY <1>1, <1>3, <1>4 DEF IInv, TypeOK
<1>6. Registered' = Registered /\ Registered \subseteq Watcher
      BY <1>1 DEF Registered, IInv, TypeOK
<1>7. LockExcludes' /\ EntriesFollow' /\ EntriesKept'
      BY <1>1, <1>6 DEF IInv, LockExcludes, EntriesFollow, EntriesKept
<1>8. PublishersFollow'
  <2>1. \A q \in Publisher : todo'[q] \subseteq todo[q] /\ todo'[p] = todo[p] \ {w}
        BY <1>4
  <2> QED
      BY <1>1, <1>6, <2>1 DEF IInv, PublishersFollow
<1>9. p \in readers /\ w \in Registered
      BY <1>1 DEF IInv, PublishersFollow
<1>10. \A v \in Watcher : replay[v] = {}
      BY <1>9 DEF IInv, LockExcludes, ReplaysFollow
<1>11. watchPc[w] \in {"replaying", "watching"}
  <2>1. PICK r \in watchers : r[2] = w
        BY <1>9, RegisteredHas
  <2> QED
      BY <2>1 DEF IInv, EntriesFollow
<1> HIDE DEF e
<1>12. ReplaysFollow'
  <2> SUFFICES ASSUME NEW v \in Watcher,
                      watchPc[v] \in {"none", "loading", "storing", "naming", "locking"},
                      NEW g \in Group
               PROVE sent'[v][g] = 0
      BY <1>1, <1>10 DEF IInv, ReplaysFollow
  <2>1. v # w
        BY <1>11
  <2>2. sent[v][g] = 0
        BY DEF IInv, ReplaysFollow
  <2> QED
      BY <2>1, <2>2, <1>3
<1>13. EventsFollow'
  <2> SUFFICES ASSUME NEW q \in Publisher, pubPc[q] # "idle"
               PROVE /\ event[q] \in Event /\ event[q].group \in partitions
                     /\ event[q].kind = "leader" =>
                          /\ q = "raft"
                          /\ leader[event[q].group] =
                               IF pubPc[q] = "locking" THEN event[q].n - 1 ELSE event[q].n
                          /\ \A v \in todo'[q] : sent'[v][event[q].group] = event[q].n - 1
      BY <1>1 DEF EventsFollow
  <2>1. /\ event[q] \in Event /\ event[q].group \in partitions
        /\ event[q].kind = "leader" =>
             /\ q = "raft"
             /\ leader[event[q].group] =
                  IF pubPc[q] = "locking" THEN event[q].n - 1 ELSE event[q].n
             /\ \A v \in todo[q] : sent[v][event[q].group] = event[q].n - 1
        BY DEF IInv, EventsFollow
  <2>2. ASSUME event[q].kind = "leader", NEW v \in todo'[q]
        PROVE sent'[v][event[q].group] = event[q].n - 1
    <3>1. v \in Watcher /\ v \in todo[q] /\ event[q].group \in Group
          BY <1>4, <2>1 DEF IInv, TypeOK, Event
    <3>2. sent[v][event[q].group] = event[q].n - 1
          BY <2>1, <2>2, <3>1
    <3>3. ~(v = w /\ e.kind = "leader")
          BY <1>2, <1>4, <2>1, <2>2
    <3> QED
        BY <3>1, <3>2, <3>3, <1>3
  <2> QED
      BY <2>1, <2>2
<1>14. NothingBeforeStart'
      BY <1>1, <1>2, <1>3 DEF IInv, NothingBeforeStart
<1>15. WatcherCurrent'
  <2> SUFFICES ASSUME NEW v \in Registered, NEW g \in partitions
               PROVE \/ sent'[v][g] = leader[g]
                     \/ \E q \in Publisher : v \in todo'[q] /\ event[q] = LeaderUpdated(g, leader[g])
      BY <1>1, <1>6 DEF WatcherCurrent
  <2>1. v \in Watcher /\ g \in Group
        BY <1>6 DEF IInv, TypeOK
  <2>2. CASE v = w /\ e.kind = "leader" /\ g = e.group
        BY <2>2, <1>2, <1>3
  <2>3. CASE ~(v = w /\ e.kind = "leader" /\ g = e.group)
    <3>1. sent'[v][g] = sent[v][g] /\ replay[v] = {}
          BY <2>1, <2>3, <1>3, <1>10
    <3>2. CASE sent[v][g] = leader[g]
          BY <3>1, <3>2
    <3>3. CASE \E q \in Publisher : v \in todo[q] /\ event[q] = LeaderUpdated(g, leader[g])
      <4>1. PICK q \in Publisher : v \in todo[q] /\ event[q] = LeaderUpdated(g, leader[g])
            BY <3>3
      <4>2. q # p \/ v # w
            BY <4>1, <2>3 DEF LeaderUpdated, e
      <4> QED
          BY <4>1, <4>2, <1>4
    <3> QED
        BY <3>1, <3>2, <3>3 DEF IInv, WatcherCurrent
  <2> QED
      BY <2>2, <2>3
<1> QED
    BY <1>5, <1>7, <1>8, <1>12, <1>13, <1>14, <1>15 DEF IInv

LEMMA EndPublishStep == ASSUME IInv, NEW p \in Publisher, EndPublish(p) PROVE IInv'
<1>1. /\ pubPc[p] = "sending" /\ todo[p] = {} /\ pubPc' = [pubPc EXCEPT ![p] = "idle"]
      /\ event' = [event EXCEPT ![p] = NoEvent] /\ readers' = readers \ {p}
      /\ UNCHANGED <<writer, queued, partitions, leader, ready, watcherID, watchers, todo, watchPc, id,
                     replay, startPc, handler, done, chan, closed, sent, delivered>>
      BY DEF EndPublish, RUnlock, nodeVars, watchVars, callVars
<1>2. /\ pubPc' \in [Publisher -> {"idle", "locking", "sending"}] /\ pubPc'[p] = "idle"
      /\ event' \in [Publisher -> Event \cup {NoEvent}]
      /\ \A q \in Publisher \ {p} : pubPc'[q] = pubPc[q] /\ event'[q] = event[q]
      BY <1>1 DEF IInv, TypeOK
<1>3. TypeOK'
      BY <1>1, <1>2 DEF IInv, TypeOK
<1>4. Registered' = Registered
      BY <1>1 DEF Registered
<1>5. p \in readers /\ p \notin queued
      BY <1>1 DEF IInv, PublishersFollow
<1>6. LockExcludes' /\ EntriesFollow' /\ EntriesKept' /\ ReplaysFollow' /\ NothingBeforeStart'
      BY <1>1, <1>4
      DEF IInv, LockExcludes, EntriesFollow, EntriesKept, ReplaysFollow, NothingBeforeStart
<1>7. PublishersFollow'
  <2> SUFFICES ASSUME NEW q \in Publisher
               PROVE /\ pubPc'[q] = "idle" <=> q \notin readers' \cup queued
                     /\ q \notin readers' \cap queued
                     /\ IF pubPc'[q] = "sending" THEN q \in readers' ELSE todo[q] = {}
                     /\ todo[q] \subseteq Registered
      BY <1>1, <1>4 DEF PublishersFollow
  <2>1. CASE q = p
        BY <2>1, <1>1, <1>2, <1>5
  <2>2. CASE q # p
        BY <2>2, <1>1, <1>2 DEF IInv, PublishersFollow
  <2> QED
      BY <2>1, <2>2
<1>8. EventsFollow'
  <2> SUFFICES ASSUME NEW q \in Publisher, pubPc'[q] # "idle"
               PROVE /\ event'[q] \in Event /\ event'[q].group \in partitions
                     /\ event'[q].kind = "leader" =>
                          /\ q = "raft"
                          /\ leader[event'[q].group] =
                               IF pubPc'[q] = "locking" THEN event'[q].n - 1 ELSE event'[q].n
                          /\ \A w \in todo[q] : sent[w][event'[q].group] = event'[q].n - 1
      BY <1>1 DEF EventsFollow
  <2>1. q # p
        BY <1>2
  <2> QED
      BY <2>1, <1>2 DEF IInv, EventsFollow
<1>9. WatcherCurrent'
  <2> SUFFICES ASSUME NEW w \in Registered, NEW g \in partitions
               PROVE \/ sent[w][g] = leader[g]
                     \/ LeaderUpdated(g, leader[g]) \in replay[w]
                     \/ \E q \in Publisher : w \in todo[q] /\ event'[q] = LeaderUpdated(g, leader[g])
      BY <1>1, <1>4 DEF WatcherCurrent
  <2>1. ASSUME NEW q \in Publisher, w \in todo[q], event[q] = LeaderUpdated(g, leader[g])
        PROVE event'[q] = LeaderUpdated(g, leader[g])
    <3>1. q # p
          BY <2>1, <1>1
    <3> QED
        BY <2>1, <3>1, <1>2
  <2> QED
      BY <2>1 DEF IInv, WatcherCurrent
<1> QED
    BY <1>3, <1>6, <1>7, <1>8, <1>9 DEF IInv

-----------------------------------------------------------------------------
\* Watch

\* A call that registers: no publish is in its loop, the replay holds what the
\* Partitions are, and the call has been sent nothing yet.
LEMMA RegisterStep == ASSUME IInv, NEW w \in Watcher, Register(w) PROVE IInv'
<1>1. /\ watchPc[w] = "locking" /\ writer = w /\ readers = {}
      /\ watchers' = {r \in watchers : r[1] # id[w]} \cup {<<id[w], w>>}
      /\ watchPc' = [watchPc EXCEPT ![w] = "replaying"]
      /\ UNCHANGED <<writer, readers, queued, partitions, leader, ready, watcherID, pubPc, event, todo,
                     id, startPc, handler, done, chan, closed, sent, delivered>>
      BY DEF Register, WatchLocked, Locked, lockVars, pubVars, callVars
<1> DEFINE now == {LeaderUpdated(g, leader[g]) : g \in {g \in partitions : leader[g] > 0}}
                  \cup {MemberReady(g) : g \in {g \in partitions : ready[g]}}
<1>2. replay' = [replay EXCEPT ![w] = now]
      BY DEF Register
<1>3. /\ now \subseteq Event
      /\ \A e \in now : /\ e.group \in partitions
                        /\ e.kind = "leader" => e.n = leader[e.group]
      /\ \A g \in partitions : leader[g] = 0 \/ LeaderUpdated(g, leader[g]) \in now
  <2>1. partitions \subseteq Group /\ \A g \in Group : leader[g] \in 0..MaxLeaderEvents
        BY DEF IInv, TypeOK
  <2>2. \A g \in partitions :
          /\ LeaderUpdated(g, leader[g]) \in Event /\ LeaderUpdated(g, leader[g]).group = g
          /\ LeaderUpdated(g, leader[g]).n = leader[g]
          /\ MemberReady(g) \in Event /\ MemberReady(g).group = g /\ MemberReady(g).kind # "leader"
        BY <2>1, FanoutAssumption DEF LeaderUpdated, MemberReady, Event
  <2>3. \A g \in partitions : leader[g] = 0 \/ leader[g] > 0
        BY <2>1, FanoutAssumption
  <2> QED
      BY <2>2, <2>3
<1> HIDE DEF now
<1>4. /\ replay' \in [Watcher -> SUBSET Event] /\ replay'[w] = now
      /\ \A v \in Watcher \ {w} : replay'[v] = replay[v]
      BY <1>2, <1>3 DEF IInv, TypeOK
<1>5. /\ watchPc'[w] = "replaying" /\ \A v \in Watcher \ {w} : watchPc'[v] = watchPc[v]
      /\ watchPc' \in [Watcher -> {"none", "loading", "storing", "naming", "locking",
                                   "replaying", "watching", "closed"}]
      BY <1>1 DEF IInv, TypeOK
<1>6. watchers' \subseteq Nat \X Watcher /\ id[w] \in Nat
      BY <1>1 DEF IInv, TypeOK
<1>7. TypeOK'
      BY <1>1, <1>4, <1>5, <1>6 DEF IInv, TypeOK
<1>8. \A p \in Publisher : pubPc[p] # "sending" /\ todo[p] = {}
      BY <1>1, NothingSent
<1>9. LockExcludes'
      BY <1>1, <1>5 DEF IInv, LockExcludes
<1>10. PublishersFollow'
      BY <1>1, <1>8 DEF IInv, PublishersFollow
<1>11. EventsFollow' /\ NothingBeforeStart'
      BY <1>1 DEF IInv, EventsFollow, NothingBeforeStart
<1>12. ReplaysFollow'
  <2> SUFFICES ASSUME NEW v \in Watcher
               PROVE /\ watchPc'[v] = "none" <=> handler[v] = "none"
                     /\ watchPc'[v] # "replaying" => replay'[v] = {}
                     /\ \A e \in replay'[v] :
                          /\ e.group \in partitions
                          /\ e.kind = "leader" => e.n = leader[e.group] /\ sent[v][e.group] = 0
                     /\ watchPc'[v] \in {"none", "loading", "storing", "naming", "locking"} =>
                          \A g \in Group : sent[v][g] = 0
                     /\ closed[v] <=> watchPc'[v] = "closed"
      BY <1>1 DEF ReplaysFollow
  <2>1. CASE v = w
    <3>1. /\ \A g \in Group : sent[w][g] = 0
          /\ ~closed[w] /\ handler[w] # "none"
          BY <1>1 DEF IInv, ReplaysFollow
    <3>2. \A e \in now : e.group \in Group
          BY <1>3 DEF IInv, TypeOK
    <3> QED
        BY <2>1, <3>1, <3>2, <1>3, <1>4, <1>5
  <2>2. CASE v # w
        BY <2>2, <1>4, <1>5 DEF IInv, ReplaysFollow
  <2> QED
      BY <2>1, <2>2
<1>13. EntriesFollow'
  <2> SUFFICES ASSUME NEW r \in watchers'
               PROVE r[1] = id[r[2]] /\ watchPc'[r[2]] \in {"replaying", "watching"}
      BY <1>1 DEF EntriesFollow
  <2>1. CASE r = <<id[w], w>>
        BY <2>1, <1>5
  <2>2. CASE r \in watchers
    <3>1. r[2] \in Watcher /\ r[1] = id[r[2]] /\ watchPc[r[2]] \in {"replaying", "watching"}
          BY <2>2 DEF IInv, TypeOK, EntriesFollow
    <3> QED
        BY <3>1, <1>1, <1>5
  <2> QED
      BY <1>1, <2>1, <2>2
<1>14. \A v \in Watcher : v \in Registered' <=> v = w \/ (v \in Registered /\ id[v] # id[w])
  <2> SUFFICES ASSUME NEW v \in Watcher
               PROVE (\E r \in watchers' : r[2] = v)
                       <=> v = w \/ (id[v] # id[w] /\ \E r \in watchers : r[2] = v)
      BY DEF Registered
  <2>1. \A r \in watchers : r[1] = id[r[2]]
        BY DEF IInv, EntriesFollow
  <2>2. <<id[w], w>>[2] = w /\ <<id[w], w>> \in watchers'
        BY <1>1
  <2>3. \A r : r \in watchers' <=> r = <<id[w], w>> \/ (r \in watchers /\ r[1] # id[w])
        BY <1>1
  <2> HIDE DEF now
  <2> QED
      BY <2>1, <2>2, <2>3
<1>15. EntriesKept'
  <2> SUFFICES ASSUME NEW v \in Watcher, watchPc'[v] \in {"replaying", "watching"}, v \notin Registered'
               PROVE \E u \in Watcher \ {v} :
                       id[u] = id[v] /\ watchPc'[u] \in {"replaying", "watching", "closed"}
      BY <1>1 DEF EntriesKept
  <2>1. v # w /\ watchPc[v] \in {"replaying", "watching"}
        BY <1>5, <1>14
  <2>2. CASE v \in Registered
        BY <2>1, <2>2, <1>5, <1>14
  <2>3. CASE v \notin Registered
    <3>1. PICK u \in Watcher \ {v} :
                 id[u] = id[v] /\ watchPc[u] \in {"replaying", "watching", "closed"}
          BY <2>1, <2>3 DEF IInv, EntriesKept
    <3> QED
        BY <3>1, <1>5
  <2> QED
      BY <2>2, <2>3
<1>16. WatcherCurrent'
  <2> SUFFICES ASSUME NEW v \in Registered', NEW g \in partitions
               PROVE sent[v][g] = leader[g] \/ LeaderUpdated(g, leader[g]) \in replay'[v]
      BY <1>1 DEF WatcherCurrent
  <2>1. v \in Watcher /\ g \in Group
        BY <1>6 DEF Registered, IInv, TypeOK
  <2>2. CASE v = w
        BY <2>1, <2>2, <1>1, <1>3, <1>4 DEF IInv, ReplaysFollow
  <2>3. CASE v # w
        BY <2>1, <2>3, <1>4, <1>8, <1>14 DEF IInv, WatcherCurrent
  <2> QED
      BY <2>2, <2>3
<1> QED
    BY <1>7, <1>9, <1>10, <1>11, <1>12, <1>13, <1>15, <1>16 DEF IInv

\* A replayed event: the first of its group on the channel.
LEMMA ReplayStep == ASSUME IInv, NEW w \in Watcher, NEW e \in Event, Replay(w, e) PROVE IInv'
<1>1. /\ watchPc[w] = "replaying" /\ e \in replay[w] /\ Send(w, e)
      /\ replay' = [replay EXCEPT ![w] = replay[w] \ {e}]
      /\ UNCHANGED <<writer, readers, queued, partitions, leader, ready, watcherID, watchers, pubPc,
                     event, todo, watchPc, id, startPc, handler, done, closed, delivered>>
      BY DEF Replay, lockVars, nodeVars, pubVars
<1>2. /\ e.group \in partitions /\ e.group \in Group
      /\ e.kind = "leader" => e.n = leader[e.group]
      BY <1>1 DEF IInv, TypeOK, ReplaysFollow
<1>3. /\ chan' \in [Watcher -> Seq(Event)]
      /\ sent' \in [Watcher -> [Group -> 0..MaxLeaderEvents]]
      /\ e.kind = "leader" => sent'[w][e.group] = e.n
      /\ \A v \in Watcher, g \in Group :
           ~(v = w /\ e.kind = "leader" /\ g = e.group) => sent'[v][g] = sent[v][g]
      BY SendStep, <1>1 DEF IInv
<1>4. /\ replay' \in [Watcher -> SUBSET Event] /\ replay'[w] = replay[w] \ {e}
      /\ \A v \in Watcher \ {w} : replay'[v] = replay[v]
      BY <1>1 DEF IInv, TypeOK
<1>5. TypeOK'
      BY <1>1, <1>3, <1>4 DEF IInv, TypeOK
<1>6. Registered' = Registered /\ Registered \subseteq Watcher
      BY <1>1 DEF Registered, IInv, TypeOK
<1>7. LockExcludes' /\ PublishersFollow' /\ EntriesFollow' /\ EntriesKept'
      BY <1>1, <1>6 DEF IInv, LockExcludes, PublishersFollow, EntriesFollow, EntriesKept
<1>8. \A p \in Publisher : pubPc[p] # "sending" /\ todo[p] = {}
      BY <1>1, NothingSent DEF IInv, LockExcludes
<1>9. EventsFollow'
      BY <1>1, <1>8 DEF IInv, EventsFollow
<1>10. NothingBeforeStart'
      BY <1>1, <1>2, <1>3 DEF IInv, NothingBeforeStart
\* No two leader events of a group are replayed to one call.
<1>11. \A f \in replay[w] : f.kind = "leader" /\ f.group = e.group /\ e.kind = "leader" => f = e
  <2> SUFFICES ASSUME NEW f \in replay[w], f.kind = "leader", f.group = e.group, e.kind = "leader"
               PROVE f = e
      OBVIOUS
  <2>1. f \in Event /\ f.n = leader[f.group]
        BY DEF IInv, TypeOK, ReplaysFollow
  <2>2. e.n = f.n /\ e.kind = f.kind
        BY <1>2, <2>1
  <2> QED
      BY <2>1, <2>2 DEF Event
<1>12. ReplaysFollow'
  <2> SUFFICES ASSUME NEW v \in Watcher
               PROVE /\ watchPc[v] = "none" <=> handler[v] = "none"
                     /\ watchPc[v] # "replaying" => replay'[v] = {}
                     /\ \A f \in replay'[v] :
                          /\ f.group \in partitions
                          /\ f.kind = "leader" => f.n = leader[f.group] /\ sent'[v][f.group] = 0
                     /\ watchPc[v] \in {"none", "loading", "storing", "naming", "locking"} =>
                          \A g \in Group : sent'[v][g] = 0
                     /\ closed[v] <=> watchPc[v] = "closed"
      BY <1>1 DEF ReplaysFollow
  <2>1. CASE v = w
    <3>1. ASSUME NEW f \in replay'[w]
          PROVE /\ f.group \in partitions
                /\ f.kind = "leader" => f.n = leader[f.group] /\ sent'[w][f.group] = 0
      <4>1. f \in replay[w] /\ f # e
            BY <1>4
      <4>2. /\ f.group \in partitions /\ f.group \in Group
            /\ f.kind = "leader" => f.n = leader[f.group] /\ sent[w][f.group] = 0
            BY <4>1 DEF IInv, TypeOK, ReplaysFollow
      <4>3. f.kind = "leader" => ~(e.kind = "leader" /\ f.group = e.group)
            BY <4>1, <1>11
      <4>4. f.kind = "leader" => sent'[w][f.group] = sent[w][f.group]
            BY <4>2, <4>3, <1>3
      <4> QED
          BY <4>2, <4>4
    <3>2. /\ watchPc[w] = "none" <=> handler[w] = "none"
          /\ closed[w] <=> watchPc[w] = "closed"
          BY DEF IInv, ReplaysFollow
    <3> QED
        BY <2>1, <3>1, <3>2, <1>1
  <2>2. CASE v # w
    <3>1. \A g \in Group : sent'[v][g] = sent[v][g]
          BY <2>2, <1>3
    <3>2. replay'[v] = replay[v] /\ \A f \in replay[v] : f.group \in Group
          BY <2>2, <1>4 DEF IInv, TypeOK, Event
    <3> QED
        BY <3>1, <3>2 DEF IInv, ReplaysFollow
  <2> QED
      BY <2>1, <2>2
<1>13. WatcherCurrent'
  <2> SUFFICES ASSUME NEW v \in Registered, NEW g \in partitions
               PROVE sent'[v][g] = leader[g] \/ LeaderUpdated(g, leader[g]) \in replay'[v]
      BY <1>1, <1>6 DEF WatcherCurrent
  <2>1. v \in Watcher /\ g \in Group
        BY <1>6 DEF IInv, TypeOK
  <2>2. CASE v = w /\ e.kind = "leader" /\ g = e.group
        BY <2>2, <1>2, <1>3
  <2>3. CASE ~(v = w /\ e.kind = "leader" /\ g = e.group)
    <3>1. sent'[v][g] = sent[v][g]
          BY <2>1, <2>3, <1>3
    <3>2. LeaderUpdated(g, leader[g]) \in replay[v] => LeaderUpdated(g, leader[g]) \in replay'[v]
          BY <2>1, <2>3, <1>4 DEF LeaderUpdated
    <3>3. sent[v][g] = leader[g] \/ LeaderUpdated(g, leader[g]) \in replay[v]
          BY <1>8 DEF IInv, WatcherCurrent
    <3> QED
        BY <3>1, <3>2, <3>3
  <2> QED
      BY <2>2, <2>3
<1> QED
    BY <1>5, <1>7, <1>9, <1>10, <1>12, <1>13 DEF IInv

LEMMA EndRegisterStep == ASSUME IInv, NEW w \in Watcher, EndRegister(w) PROVE IInv'
<1>1. /\ watchPc[w] = "replaying" /\ replay[w] = {} /\ Unlock
      /\ watchPc' = [watchPc EXCEPT ![w] = "watching"]
      /\ UNCHANGED <<partitions, leader, ready, watcherID, watchers, pubPc, event, todo, id, replay,
                     startPc, handler, done, chan, closed, sent, delivered>>
      BY DEF EndRegister, nodeVars, pubVars, callVars
<1>2. /\ watchPc' \in [Watcher -> {"none", "loading", "storing", "naming", "locking",
                                   "replaying", "watching", "closed"}]
      /\ watchPc'[w] = "watching" /\ \A v \in Watcher \ {w} : watchPc'[v] = watchPc[v]
      BY <1>1 DEF IInv, TypeOK
<1>3. Locked(w)
      BY <1>1 DEF IInv, LockExcludes, Locked
<1>4. \A v \in Watcher : watchPc'[v] = "replaying" => v # w /\ watchPc[v] = "replaying"
      BY <1>2
<1>5. /\ writer' \in Watcher \cup Group \cup {Nobody}
      /\ readers' \subseteq Publisher /\ queued' \subseteq Publisher
      /\ LockExcludes' /\ PublishersFollow'
      BY <1>1, <1>3, <1>4, UnlockStep
<1>6. TypeOK'
      BY <1>1, <1>2, <1>5 DEF IInv, TypeOK
<1>7. Registered' = Registered
      BY <1>1 DEF Registered
<1>8. EventsFollow' /\ NothingBeforeStart' /\ WatcherCurrent'
      BY <1>1, <1>7 DEF IInv, EventsFollow, NothingBeforeStart, WatcherCurrent
<1>9. EntriesFollow'
  <2>1. \A r \in watchers : r[2] \in Watcher
        BY DEF IInv, TypeOK
  <2> QED
      BY <1>1, <1>2, <2>1 DEF IInv, EntriesFollow
<1>10. EntriesKept'
  <2>1. \A v \in Watcher : /\ watchPc'[v] \in {"replaying", "watching"} <=> watchPc[v] \in {"replaying", "watching"}
                           /\ watchPc'[v] = "closed" <=> watchPc[v] = "closed"
        BY <1>1, <1>2
  <2> QED
      BY <1>1, <1>7, <2>1 DEF IInv, EntriesKept
<1>11. ReplaysFollow'
  <2>1. \A v \in Watcher : /\ watchPc'[v] = "none" <=> watchPc[v] = "none"
                           /\ watchPc'[v] = "closed" <=> watchPc[v] = "closed"
                           /\ watchPc'[v] \in {"none", "loading", "storing", "naming", "locking"}
                                <=> watchPc[v] \in {"none", "loading", "storing", "naming", "locking"}
                           /\ watchPc'[v] # "replaying" => v = w \/ watchPc[v] # "replaying"
        BY <1>1, <1>2
  <2> QED
      BY <1>1, <2>1 DEF IInv, ReplaysFollow
<1> QED
    BY <1>5, <1>6, <1>8, <1>9, <1>10, <1>11 DEF IInv

\* The entry under the call's identifier is its own, or another's that clashed.
LEMMA CloseWatchStep == ASSUME IInv, NEW w \in Watcher, CloseWatch(w) PROVE IInv'
<1>1. /\ watchPc[w] = "watching" /\ Locked(w) /\ Unlock
      /\ closed' = [closed EXCEPT ![w] = TRUE]
      /\ watchers' = {r \in watchers : r[1] # id[w]}
      /\ watchPc' = [watchPc EXCEPT ![w] = "closed"]
      /\ UNCHANGED <<partitions, leader, ready, watcherID, pubPc, event, todo, id, replay,
                     startPc, handler, done, chan, sent, delivered>>
      BY DEF CloseWatch, WithoutID, pubVars
<1>2. /\ watchPc' \in [Watcher -> {"none", "loading", "storing", "naming", "locking",
                                   "replaying", "watching", "closed"}]
      /\ watchPc'[w] = "closed" /\ \A v \in Watcher \ {w} : watchPc'[v] = watchPc[v]
      BY <1>1 DEF IInv, TypeOK
<1>3. /\ closed' \in [Watcher -> BOOLEAN] /\ closed'[w]
      /\ \A v \in Watcher \ {w} : closed'[v] = closed[v]
      BY <1>1 DEF IInv, TypeOK
<1>4. Registered' \subseteq Registered
      BY <1>1 DEF Registered
<1>5. \A p \in Publisher : pubPc[p] # "sending" /\ todo[p] = {}
      BY <1>1, NothingSent DEF Locked
<1>6. /\ readers = {} /\ writer' = Nobody /\ readers' = queued /\ queued' = {}
      BY <1>1 DEF Locked, Unlock
<1>7. LockExcludes'
      BY <1>1, <1>2 DEF IInv, LockExcludes, Locked
<1>8. PublishersFollow'
      BY <1>1, <1>5, <1>6 DEF IInv, PublishersFollow
<1>9. TypeOK'
  <2>1. /\ readers' \subseteq Publisher /\ queued' \subseteq Publisher
        /\ watchers' \subseteq Nat \X Watcher /\ writer' \in Watcher \cup Group \cup {Nobody}
        BY <1>1, <1>6 DEF IInv, TypeOK
  <2> QED
      BY <1>1, <1>2, <1>3, <2>1 DEF IInv, TypeOK
<1>10. EventsFollow' /\ NothingBeforeStart'
      BY <1>1 DEF IInv, EventsFollow, NothingBeforeStart
<1>11. ReplaysFollow'
  <2> SUFFICES ASSUME NEW v \in Watcher
               PROVE /\ watchPc'[v] = "none" <=> handler[v] = "none"
                     /\ watchPc'[v] # "replaying" => replay[v] = {}
                     /\ \A f \in replay[v] :
                          /\ f.group \in partitions
                          /\ f.kind = "leader" => f.n = leader[f.group] /\ sent[v][f.group] = 0
                     /\ watchPc'[v] \in {"none", "loading", "storing", "naming", "locking"} =>
                          \A g \in Group : sent[v][g] = 0
                     /\ closed'[v] <=> watchPc'[v] = "closed"
      BY <1>1 DEF ReplaysFollow
  <2>1. CASE v = w
    <3>1. handler[w] # "none" /\ replay[w] = {}
          BY <1>1 DEF IInv, ReplaysFollow
    <3> QED
        BY <2>1, <3>1, <1>2, <1>3
  <2>2. CASE v # w
        BY <2>2, <1>2, <1>3 DEF IInv, ReplaysFollow
  <2> QED
      BY <2>1, <2>2
<1>12. \A r \in watchers : r[2] \in Watcher /\ r[1] = id[r[2]]
      BY DEF IInv, TypeOK, EntriesFollow
<1>13. EntriesFollow'
  <2> SUFFICES ASSUME NEW r \in watchers, r[1] # id[w]
               PROVE r[1] = id[r[2]] /\ watchPc'[r[2]] \in {"replaying", "watching"}
      BY <1>1 DEF EntriesFollow
  <2>1. r[2] # w /\ watchPc[r[2]] \in {"replaying", "watching"}
        BY <1>12 DEF IInv, EntriesFollow
  <2> QED
      BY <2>1, <1>2, <1>12
<1>14. \A v \in Registered : v \in Registered' \/ id[v] = id[w]
      BY <1>1, <1>12 DEF Registered
<1>15. EntriesKept'
  <2> SUFFICES ASSUME NEW v \in Watcher, watchPc'[v] \in {"replaying", "watching"}, v \notin Registered'
               PROVE \E u \in Watcher \ {v} :
                       id[u] = id[v] /\ watchPc'[u] \in {"replaying", "watching", "closed"}
      BY <1>1 DEF EntriesKept
  <2>1. v # w /\ watchPc[v] \in {"replaying", "watching"}
        BY <1>2
  <2>2. CASE v \in Registered
        BY <2>1, <2>2, <1>2, <1>14
  <2>3. CASE v \notin Registered
    <3>1. PICK u \in Watcher \ {v} :
                 id[u] = id[v] /\ watchPc[u] \in {"replaying", "watching", "closed"}
          BY <2>1, <2>3 DEF IInv, EntriesKept
    <3> QED
        BY <3>1, <1>2
  <2> QED
      BY <2>2, <2>3
<1>16. WatcherCurrent'
      BY <1>1, <1>4 DEF IInv, WatcherCurrent
<1> QED
    BY <1>7, <1>8, <1>9, <1>10, <1>11, <1>13, <1>15, <1>16 DEF IInv

-----------------------------------------------------------------------------
\* Theorems

LEMMA NextIInv == IInv /\ [Next]_vars => IInv'
<1> SUFFICES ASSUME IInv, [Next]_vars PROVE IInv'
    OBVIOUS
<1>1. CASE UNCHANGED vars
  <2>1. TypeOK'
        BY <1>1 DEF IInv, TypeOK, vars, lockVars, nodeVars, pubVars, watchVars, callVars
  <2> QED
      BY <1>1, <2>1, OutsideStep DEF vars, lockVars, nodeVars, pubVars, watchVars, callVars
<1>2. ASSUME NEW g \in Group, StartGroup(g) \/ AnnounceStart(g) \/ AddPartition(g) PROVE IInv'
      BY <1>2, StartGroupStep, AnnounceStep, AddPartitionStep DEF AnnounceStart
<1>3. ASSUME NEW p \in Publisher, NEW e \in Event, Publish(p, e) PROVE IInv'
      BY <1>3, PublishStep
<1>4. ASSUME NEW p \in Publisher, PublisherStep(p) PROVE IInv'
      BY <1>4, UpdatePartitionStep, SendEventStep, EndPublishStep DEF PublisherStep
<1>5. ASSUME NEW w \in Watcher, ClientWatch(w) \/ AnnounceWatch(w) PROVE IInv'
      BY <1>5, IdentifierStep, AnnounceStep DEF AnnounceWatch
<1>6. ASSUME NEW w \in Watcher, WatchStep(w) PROVE IInv'
      BY <1>6, IdentifierStep, RegisterStep, ReplayStep, EndRegisterStep, CloseWatchStep
      DEF WatchStep
<1>7. ASSUME NEW w \in Watcher, Cancel(w) \/ HandlerStep(w) PROVE IInv'
      BY <1>7, HandlerStepStep
<1> QED
    BY <1>1, <1>2, <1>3, <1>4, <1>5, <1>6, <1>7 DEF Next

\* The invariant holds in every state: while Protocol.publish sends to the channels
\* under the read lock, no call registers, replays or closes (protocol.go, publish and
\* Watch).
THEOREM InvariantCorrect == Spec => []IInv
<1>1. Init => IInv
      BY InitIInv
<1>2. IInv /\ [Next]_vars => IInv'
      BY NextIInv
<1> QED
    BY <1>1, <1>2, PTL DEF Spec

\* No event is ever sent on a closed channel, which would panic the process: the
\* goroutine that closes it takes it out of the map under the same write lock, and
\* publish has no loop open then (protocol.go, publish and Watch).
THEOREM NoSendOnClosedCorrect == Spec => []NoSendOnClosed
<1>1. IInv => NoSendOnClosed
  <2> SUFFICES ASSUME IInv, NEW w \in Watcher, closed[w]
               PROVE /\ w \notin Registered
                     /\ \A p \in Publisher : w \notin todo[p]
                     /\ replay[w] = {}
      BY DEF NoSendOnClosed
  <2>1. watchPc[w] = "closed"
        BY DEF IInv, ReplaysFollow
  <2>2. w \notin Registered
        BY <2>1 DEF IInv, EntriesFollow, Registered
  <2> QED
      BY <2>1, <2>2 DEF IInv, ReplaysFollow, PublishersFollow
<1> QED
    BY <1>1, InvariantCorrect, PTL

\* A registered watcher has been told of each Partition's leader, or is about to be by
\* its replay or by the publish that is under way: nothing falls between the two
\* (protocol.go, the replay in Watch).
THEOREM WatcherCurrentCorrect == Spec => []WatcherCurrent
<1>1. IInv => WatcherCurrent
      BY DEF IInv
<1> QED
    BY <1>1, InvariantCorrect, PTL

\* A call that watches is in the map unless another one drew the same identifier
\* (protocol.go, the unlocked n.watcherID++ in Watch).
THEOREM LostOnlyByClashCorrect == Spec => []LostOnlyByClash
<1>1. IInv => LostOnlyByClash
      BY DEF IInv, EntriesKept, LostOnlyByClash
<1> QED
    BY <1>1, InvariantCorrect, PTL

\* A channel has a group's leaders in order, and none is missing after the first
\* (protocol.go, publish and the replay in Watch).
THEOREM InOrderCorrect == Spec => InOrder
<1>1. ASSUME IInv, [Next]_vars, NEW w \in Watcher, NEW g \in Group
      PROVE sent'[w][g] \in {sent[w][g], sent[w][g] + 1} \/ sent[w][g] = 0
  <2>1. CASE sent' = sent
        BY <2>1
  <2>2. ASSUME NEW p \in Publisher, NEW v \in Watcher, SendEvent(p, v)
        PROVE sent'[w][g] \in {sent[w][g], sent[w][g] + 1}
    <3>1. PICK e : e = event[p]
          OBVIOUS
    <3>2. pubPc[p] = "sending" /\ v \in todo[p] /\ Send(v, e)
          BY <2>2, <3>1 DEF SendEvent
    <3>3. e \in Event /\ (e.kind = "leader" => sent[v][e.group] = e.n - 1)
          BY <1>1, <3>1, <3>2 DEF IInv, EventsFollow
    <3>4. sent \in [Watcher -> [Group -> Nat]] /\ e.group \in Group /\ e.n \in Nat
          BY <1>1, <3>3, FanoutAssumption DEF IInv, TypeOK, Event
    <3>5. CASE e.kind = "leader" /\ v = w /\ e.group = g
      <4>1. sent'[w][g] = e.n
            BY <3>2, <3>4, <3>5 DEF Send
      <4> QED
          BY <4>1, <3>3, <3>4, <3>5
    <3>6. CASE ~(e.kind = "leader" /\ v = w /\ e.group = g)
      <4>1. sent'[w][g] = sent[w][g]
            BY <3>2, <3>4, <3>6 DEF Send
      <4> QED
          BY <4>1
    <3> QED
        BY <3>5, <3>6
  <2>3. ASSUME NEW v \in Watcher, NEW e \in Event, Replay(v, e)
        PROVE sent'[w][g] = sent[w][g] \/ sent[w][g] = 0
    <3>1. e \in replay[v] /\ Send(v, e)
          BY <2>3 DEF Replay
    <3>2. e.kind = "leader" => sent[v][e.group] = 0
          BY <1>1, <3>1 DEF IInv, ReplaysFollow
    <3>3. sent \in [Watcher -> [Group -> Nat]] /\ e.group \in Group
          BY <1>1, FanoutAssumption DEF IInv, TypeOK, Event
    <3>4. ~(e.kind = "leader" /\ v = w /\ e.group = g) => sent'[w][g] = sent[w][g]
          BY <3>1, <3>3 DEF Send
    <3> QED
        BY <3>2, <3>4
  <2>4. CASE UNCHANGED vars
        BY <2>4 DEF vars, callVars
  <2>5. ASSUME NEW h \in Group, StartGroup(h) \/ AnnounceStart(h) \/ AddPartition(h)
        PROVE sent' = sent
        BY <2>5 DEF StartGroup, AnnounceStart, AddPartition, callVars
  <2>6. ASSUME NEW p \in Publisher, NEW e \in Event, Publish(p, e) PROVE sent' = sent
        BY <2>6 DEF Publish, callVars
  <2>7. ASSUME NEW p \in Publisher, UpdatePartition(p) \/ EndPublish(p) PROVE sent' = sent
        BY <2>7 DEF UpdatePartition, EndPublish, callVars
  <2>8. ASSUME NEW v \in Watcher, ClientWatch(v) \/ LoadID(v) \/ StoreID(v) \/ ReadID(v)
        PROVE sent' = sent
        BY <2>8 DEF ClientWatch, LoadID, StoreID, ReadID, callVars
  <2>9. ASSUME NEW v \in Watcher, \/ Register(v) \/ EndRegister(v) \/ CloseWatch(v)
                                 \/ AnnounceWatch(v) \/ Cancel(v)
        PROVE sent' = sent
        BY <2>9 DEF Register, EndRegister, CloseWatch, AnnounceWatch, Cancel, callVars
  <2>10. ASSUME NEW v \in Watcher, HandlerStep(v) PROVE sent' = sent
        BY <2>10 DEF HandlerStep, Forward, FailSend, EndHandler
  <2>11. ASSUME NEW p \in Publisher, PublisherStep(p)
         PROVE sent'[w][g] \in {sent[w][g], sent[w][g] + 1}
         BY <2>11, <2>1, <2>2, <2>7 DEF PublisherStep
  <2>12. ASSUME NEW v \in Watcher, WatchStep(v)
         PROVE sent'[w][g] = sent[w][g] \/ sent[w][g] = 0
         BY <2>12, <2>3, <2>8, <2>9 DEF WatchStep
  <2> QED
      BY <1>1, <2>1, <2>4, <2>5, <2>6, <2>8, <2>9, <2>10, <2>11, <2>12 DEF Next
<1>2. IInv /\ [Next]_vars =>
        [\A w \in Watcher, g \in Group :
           sent'[w][g] \in {sent[w][g], sent[w][g] + 1} \/ sent[w][g] = 0]_vars
      BY <1>1
<1> QED
    BY <1>2, InvariantCorrect, PTL DEF Spec, InOrder
=============================================================================
