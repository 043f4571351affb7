----------------------------- MODULE Proposals -----------------------------
(***************************************************************************)
(* The proposal path of a consensus node, for one Raft group: the Partition *)
(* that caches the group's (term, leader), Executor.Propose, which tags a   *)
(* client's command with that term and a local sequence number, the         *)
(* protocolContext that maps the tag to the client's output stream, and     *)
(* stateMachine.Update, which looks the stream up again when the command    *)
(* comes back out of the Raft log.                                          *)
(*                                                                          *)
(* The Raft library (dragonboat) and the primitives' state machine are      *)
(* external: they are modelled from how the node uses them. Raft elects at  *)
(* most one leader per term, announces (term, leader) to each member        *)
(* through an in-order queue, commits a submitted command at most once, and *)
(* hands the committed commands to every member in the same order.          *)
(*                                                                          *)
(* The control modelled finely is the control that races: setLeader and     *)
(* getLeader are two atomic operations each, and nothing keeps the two      *)
(* halves of one from interleaving with the halves of the other.            *)
(***************************************************************************)
EXTENDS Naturals, Sequences, FiniteSets

CONSTANTS
  Member,     \* the members of the group (MemberID, never 0)
  NoMember,   \* MemberID 0: no leader is known
  Proposal,   \* the calls clients make to Propose, one element per call
  NoProposal, \* the owner of the nil stream
  MaxTerm,    \* bound: the number of terms
  MaxStarts,  \* bound: how often a member's state machine is created
  SnapshotAt, \* the log indexes at which members take snapshots
  MaxPending  \* bound: announcements a member's listener has not finished with

ASSUME ProposalsAssumption ==
  /\ NoMember \notin Member
  /\ NoProposal \notin Proposal
  /\ MaxTerm \in Nat
  /\ MaxStarts \in Nat
  /\ SnapshotAt \subseteq Nat
  /\ MaxPending \in Nat

\* An instance is one life of a member's Partition, context and state machine,
\* created together by newStateMachine.
Instance == Member \X (1..MaxStarts)
NoInstance == <<NoMember, 0>>

LeaderInfo == [term : 0..MaxTerm, leader : Member \cup {NoMember}]
NoInfo == [term |-> 0, leader |-> NoMember]

\* protocolStreamID. Sequence numbers start at 1; NoTag is that of a call that
\* has not reached addStream.
StreamID == [term : 0..MaxTerm, sequenceNum : Nat]
NoTag == [term |-> 0, sequenceNum |-> 0]

VARIABLES
  \* Raft (external)
  elected,      \* the instance that won each term, or NoInstance
  view,         \* the (term, leader) each member's Raft node last announced
  queue,        \* announcements not yet passed to the event listener
  running,      \* whether the group is started on the member's NodeHost
  log,          \* the committed commands
  applied,      \* how many of them each instance's state machine has seen
  \* the node
  starts,       \* how often newStateMachine has run on a member
  partition,    \* which of those instances n.partitions holds (0: none)
  term, leader, \* Partition.term and Partition.leader of each instance
  setting,      \* the announcement setLeader has stored only the term of
  sequenceNum,  \* protocolContext.sequenceNum of each instance
  streams,      \* protocolContext.streams: the calls whose stream is in it
  held,         \* streams the state machine was handed and has not closed
  \* the calls to Propose
  pc, inst, tag,
  via,          \* the instance whose Raft node took the call's command
  \* history
  outputs       \* what each execution of Update was handed

raftVars == <<elected, view, queue, running, log, applied>>
nodeVars == <<starts, partition, term, leader, setting, sequenceNum, streams, held>>
callVars == <<pc, inst, tag, via>>
vars == <<raftVars, nodeVars, callVars, outputs>>

\* Where a call to Propose stands: its position in the function, or how it ended.
InCall == {"loaded", "checked", "added", "waiting"}
Ended  == {"failed", "ok", "dead"}

Current(m) == <<m, partition[m]>>
Live(i) == i \in Instance /\ running[i[1]] /\ i = Current(i[1])
Submitted(p) == via[p] # NoInstance
Committed(p) == \E k \in DOMAIN log : log[k] = p

Init ==
  /\ elected = [t \in 1..MaxTerm |-> NoInstance]
  /\ view = [m \in Member |-> NoInfo]
  /\ queue = [m \in Member |-> <<>>]
  /\ running = [m \in Member |-> FALSE]
  /\ log = <<>>
  /\ applied = [i \in Instance |-> 0]
  /\ starts = [m \in Member |-> 0]
  /\ partition = [m \in Member |-> 0]
  /\ term = [i \in Instance |-> 0]
  /\ leader = [i \in Instance |-> NoMember]
  /\ setting = [m \in Member |-> NoInfo]
  /\ sequenceNum = [i \in Instance |-> 0]
  /\ streams = [i \in Instance |-> {}]
  /\ held = [i \in Instance |-> {}]
  /\ pc = [p \in Proposal |-> "idle"]
  /\ inst = [p \in Proposal |-> NoInstance]
  /\ tag = [p \in Proposal |-> NoTag]
  /\ via = [p \in Proposal |-> NoInstance]
  /\ outputs = {}

----------------------------------------------------------------------------
(* Raft, as the node sees it.                                              *)

Announce(m, t, l) ==
  /\ Len(queue[m]) + (IF setting[m] = NoInfo THEN 0 ELSE 1) < MaxPending
  /\ view' = [view EXCEPT ![m] = [term |-> t, leader |-> l]]
  /\ queue' = [queue EXCEPT ![m] = Append(@, [term |-> t, leader |-> l])]

\* m wins the election of term t. No later term has been won: the votes that
\* elect m come from members that have not moved on.
Elect(m, t) ==
  /\ running[m]
  /\ \A u \in t..MaxTerm : elected[u] = NoInstance
  /\ \/ t > view[m].term
     \/ t = view[m].term /\ view[m].leader = NoMember
  /\ elected' = [elected EXCEPT ![t] = Current(m)]
  /\ Announce(m, t, m)
  /\ UNCHANGED <<running, log, applied, nodeVars, callVars, outputs>>

\* m moves to a later term, learns who leads its term, or, as the leader, steps
\* down because it no longer hears a quorum (CheckQuorum); bound: not in the last
\* term, which no other follows.
Observe(m, t, l) ==
  /\ running[m]
  /\ l # m
  /\ l \in {NoMember, elected[t][1]}
  /\ \/ t > view[m].term
     \/ t = view[m].term /\ view[m].leader = NoMember /\ l # NoMember
     \/ t = view[m].term /\ view[m].leader = m /\ l = NoMember /\ t < MaxTerm
  /\ Announce(m, t, l)
  /\ UNCHANGED <<elected, running, log, applied, nodeVars, callVars, outputs>>

\* A submitted command is committed. The call may have given up on it by now,
\* and the member it was made on may have crashed or handed leadership over.
Commit(p) ==
  /\ Submitted(p)
  /\ ~Committed(p)
  /\ log' = Append(log, p)
  /\ UNCHANGED <<elected, view, queue, running, applied, nodeVars, callVars, outputs>>

----------------------------------------------------------------------------
(* Starting, stopping and losing a member.                                 *)

\* Bootstrap or Join: StartCluster calls newStateMachine, whose write lock waits
\* for a publish in progress. Starting a running group changes nothing
\* (ErrClusterAlreadyExist).
StartCluster(m) ==
  /\ ~running[m]
  /\ starts[m] < MaxStarts
  /\ setting[m] = NoInfo
  /\ starts' = [starts EXCEPT ![m] = @ + 1]
  /\ partition' = [partition EXCEPT ![m] = starts[m] + 1]
  /\ running' = [running EXCEPT ![m] = TRUE]
  /\ view' = [view EXCEPT ![m] = [term |-> @.term, leader |-> NoMember]]
  /\ UNCHANGED <<elected, queue, log, applied, term, leader, setting, sequenceNum,
                 streams, held, callVars, outputs>>

\* Leave stops the group; the Partition stays in n.partitions. A member that
\* stops for good is one that takes no further step, so Leave and Crash are left
\* to members that can start again.
Leave(m) ==
  /\ running[m]
  /\ starts[m] < MaxStarts
  /\ running' = [running EXCEPT ![m] = FALSE]
  /\ UNCHANGED <<elected, view, queue, log, applied, nodeVars, callVars, outputs>>

\* The node's process dies, with its calls, its partitions and its events.
Crash(m) ==
  /\ partition[m] # 0
  /\ starts[m] < MaxStarts
  /\ running' = [running EXCEPT ![m] = FALSE]
  /\ queue' = [queue EXCEPT ![m] = <<>>]
  /\ setting' = [setting EXCEPT ![m] = NoInfo]
  /\ partition' = [partition EXCEPT ![m] = 0]
  /\ streams' = [i \in Instance |-> IF i[1] = m THEN {} ELSE streams[i]]
  /\ held' = [i \in Instance |-> IF i[1] = m THEN {} ELSE held[i]]
  /\ pc' = [p \in Proposal |->
              IF inst[p][1] = m /\ pc[p] \in InCall THEN "dead" ELSE pc[p]]
  /\ UNCHANGED <<elected, view, log, applied, starts, term, leader, sequenceNum,
                 inst, tag, via, outputs>>

----------------------------------------------------------------------------
(* Protocol.publish of a LeaderUpdated event: setLeader is two stores.      *)

\* An event for a group that is not in n.partitions updates nothing.
SetTerm(m) ==
  /\ queue[m] # <<>>
  /\ setting[m] = NoInfo
  /\ queue' = [queue EXCEPT ![m] = Tail(@)]
  /\ IF partition[m] = 0
     THEN UNCHANGED <<term, setting>>
     ELSE /\ term' = [term EXCEPT ![Current(m)] = Head(queue[m]).term]
          /\ setting' = [setting EXCEPT ![m] = Head(queue[m])]
  /\ UNCHANGED <<elected, view, running, log, applied, starts, partition, leader,
                 sequenceNum, streams, held, callVars, outputs>>

SetLeader(m) ==
  /\ setting[m] # NoInfo
  /\ leader' = [leader EXCEPT ![Current(m)] = setting[m].leader]
  /\ setting' = [setting EXCEPT ![m] = NoInfo]
  /\ UNCHANGED <<raftVars, starts, partition, term, sequenceNum, streams, held,
                 callVars, outputs>>

----------------------------------------------------------------------------
(* Executor.Propose.                                                       *)

\* The first load of getLeader, on the Partition the client's call was routed to.
GetTerm(p, m) ==
  /\ pc[p] = "idle"
  /\ partition[m] # 0
  /\ inst' = [inst EXCEPT ![p] = Current(m)]
  /\ tag' = [tag EXCEPT ![p].term = term[Current(m)]]
  /\ pc' = [pc EXCEPT ![p] = "loaded"]
  /\ UNCHANGED <<raftVars, nodeVars, via, outputs>>

\* Whether the leader loaded second lets the call pass.
MayPropose(p) == leader[inst[p]] = inst[p][1]

GetLeader(p) ==
  /\ pc[p] = "loaded"
  /\ MayPropose(p)
  /\ pc' = [pc EXCEPT ![p] = "checked"]
  /\ UNCHANGED <<raftVars, nodeVars, inst, tag, via, outputs>>

\* The member is not the leader, or the input cannot be marshalled: the call
\* returns before it has touched the context, and the client may try again.
Refuse(p) ==
  /\ \/ pc[p] = "loaded" /\ ~MayPropose(p)
     \/ pc[p] = "checked"
  /\ pc' = [pc EXCEPT ![p] = "idle"]
  /\ inst' = [inst EXCEPT ![p] = NoInstance]
  /\ tag' = [tag EXCEPT ![p] = NoTag]
  /\ UNCHANGED <<raftVars, nodeVars, via, outputs>>

\* Variants of addStream and removeStream that lose the counter's increment, count
\* in the wrong direction, or lose the entry's removal.
RepeatedSequenceNum(i) == IF sequenceNum[i] = 0 THEN 1 ELSE sequenceNum[i]
SequenceNumBefore(i) == sequenceNum[i] - 1
NothingRemoved(i, id) == streams[i]

NextSequenceNum(i) == sequenceNum[i] + 1
Without(i, id) == {p \in streams[i] : tag[p] # id}

AddStream(p) ==
  LET i  == inst[p]
      id == [term |-> tag[p].term, sequenceNum |-> NextSequenceNum(i)]
  IN /\ pc[p] = "checked"
     /\ sequenceNum' = [sequenceNum EXCEPT ![i] = id.sequenceNum]
     /\ tag' = [tag EXCEPT ![p] = id]
     /\ streams' = [streams EXCEPT ![i] = Without(i, id) \cup {p}]
     /\ pc' = [pc EXCEPT ![p] = "added"]
     /\ UNCHANGED <<raftVars, starts, partition, term, leader, setting, held, inst,
                    via, outputs>>

\* SyncPropose hands the command to whatever Raft node the group has now, which
\* after Leave and Bootstrap is not the one the Partition was created with.
SyncPropose(p) ==
  LET m == inst[p][1]
  IN /\ pc[p] = "added"
     /\ running[m]
     /\ via' = [via EXCEPT ![p] = Current(m)]
     /\ pc' = [pc EXCEPT ![p] = "waiting"]
     /\ UNCHANGED <<raftVars, nodeVars, inst, tag, outputs>>

\* The command was applied by the Raft node that took it.
Applied(p) == \E o \in outputs : o.at = via[p] /\ o.entry = p

ReturnOk(p) ==
  /\ pc[p] = "waiting"
  /\ Applied(p)
  /\ pc' = [pc EXCEPT ![p] = "ok"]
  /\ UNCHANGED <<raftVars, nodeVars, inst, tag, via, outputs>>

\* The proposal cannot be marshalled, or any error of SyncPropose: rejected,
\* dropped, timed out after defaultClientTimeout, group stopped or not found. The
\* stream stays in the context and a submitted command may still be committed.
ReturnError(p) ==
  /\ pc[p] \in {"added", "waiting"}
  /\ pc' = [pc EXCEPT ![p] = "failed"]
  /\ UNCHANGED <<raftVars, nodeVars, inst, tag, via, outputs>>

----------------------------------------------------------------------------
(* stateMachine: Update, RecoverFromSnapshot, and the closing of a stream.  *)

\* A variant of getStream that looks the stream up by its sequence number alone.
StreamOfSequenceNum(i, id) ==
  {p \in streams[i] : tag[p].sequenceNum = id.sequenceNum}

\* getStream: the stream registered under the identifier, or none.
GetStream(i, id) == {p \in streams[i] : tag[p] = id}

\* The state machine is handed the command and the stream found under its tag,
\* or the nil stream, and writes the command's outputs to it.
Update(i) ==
  LET q     == log[applied[i] + 1]
      found == GetStream(i, tag[q])
  IN /\ Live(i)
     /\ applied[i] < Len(log)
     /\ applied' = [applied EXCEPT ![i] = @ + 1]
     /\ \/ /\ found = {}
           /\ outputs' = outputs \cup {[at |-> i, entry |-> q, to |-> NoProposal]}
           /\ UNCHANGED held
        \/ \E p \in found :
             /\ outputs' = outputs \cup {[at |-> i, entry |-> q, to |-> p]}
             /\ held' = [held EXCEPT ![i] = @ \cup {p}]
     /\ UNCHANGED <<elected, view, queue, running, log, starts, partition, term,
                    leader, setting, sequenceNum, streams, callVars>>

\* A snapshot taken at entry n stands in for the entries up to n: the instance
\* never executes Update for them.
RecoverFromSnapshot(i, n) ==
  /\ Live(i)
  /\ applied[i] < n
  /\ \E j \in Instance : n <= applied[j]
  /\ applied' = [applied EXCEPT ![i] = n]
  /\ UNCHANGED <<elected, view, queue, running, log, nodeVars, callVars, outputs>>

\* The state machine closes a stream it holds; the closer removes its entry.
CloseStream(i, p) ==
  /\ Live(i)
  /\ p \in held[i]
  /\ held' = [held EXCEPT ![i] = @ \ {p}]
  /\ streams' = [streams EXCEPT ![i] = Without(i, tag[p])]
  /\ UNCHANGED <<raftVars, starts, partition, term, leader, setting, sequenceNum,
                 callVars, outputs>>

----------------------------------------------------------------------------
\* The model stops when every call has ended and the bounds are used up.
Next ==
  \/ \E m \in Member, t \in 1..MaxTerm : Elect(m, t)
  \/ \E m \in Member, t \in 1..MaxTerm, l \in Member \cup {NoMember} : Observe(m, t, l)
  \/ \E p \in Proposal : Commit(p)
  \/ \E m \in Member : StartCluster(m)
  \/ \E m \in Member : Leave(m)
  \/ \E m \in Member : Crash(m)
  \/ \E m \in Member : SetTerm(m)
  \/ \E m \in Member : SetLeader(m)
  \/ \E p \in Proposal, m \in Member : GetTerm(p, m)
  \/ \E p \in Proposal : GetLeader(p)
  \/ \E p \in Proposal : Refuse(p)
  \/ \E p \in Proposal : AddStream(p)
  \/ \E p \in Proposal : SyncPropose(p)
  \/ \E p \in Proposal : ReturnOk(p)
  \/ \E p \in Proposal : ReturnError(p)
  \/ \E i \in Instance : Update(i)
  \/ \E i \in Instance, n \in SnapshotAt : RecoverFromSnapshot(i, n)
  \/ \E i \in Instance, p \in Proposal : CloseStream(i, p)

Spec == Init /\ [][Next]_vars

----------------------------------------------------------------------------
(* Properties.                                                             *)

TypeOK ==
  /\ elected \in [1..MaxTerm -> Instance \cup {NoInstance}]
  /\ view \in [Member -> LeaderInfo]
  /\ queue \in [Member -> Seq(LeaderInfo)]
  /\ running \in [Member -> BOOLEAN]
  /\ log \in Seq(Proposal)
  /\ applied \in [Instance -> Nat]
  /\ starts \in [Member -> 0..MaxStarts]
  /\ partition \in [Member -> 0..MaxStarts]
  /\ term \in [Instance -> 0..MaxTerm]
  /\ leader \in [Instance -> Member \cup {NoMember}]
  /\ setting \in [Member -> LeaderInfo]
  /\ sequenceNum \in [Instance -> Nat]
  /\ streams \in [Instance -> SUBSET Proposal]
  /\ held \in [Instance -> SUBSET Proposal]
  /\ pc \in [Proposal -> {"idle"} \cup InCall \cup Ended]
  /\ inst \in [Proposal -> Instance \cup {NoInstance}]
  /\ tag \in [Proposal -> StreamID]
  /\ via \in [Proposal -> Instance \cup {NoInstance}]
  /\ outputs \subseteq [at : Instance, entry : Proposal, to : Proposal \cup {NoProposal}]

\* The call's tag names a term that the call's own instance did not win: the two
\* loads of getLeader straddled an update of the pair, or the instance inherited
\* an announcement that was made to its predecessor.
StaleTag(p) == tag[p].term = 0 \/ elected[tag[p].term] # inst[p]

\* Update never writes a command's outputs to another call's stream, unless one
\* of the two calls passed Propose's leader check with a term its instance did
\* not win. This is what the (term, sequenceNum) key of protocolContext is for:
\* every member replays every command against its own map of streams.
MisdeliveryNeedsStaleTag ==
  \A o \in outputs :
    o.to \notin {o.entry, NoProposal} => StaleTag(o.entry) \/ StaleTag(o.to)

\* Propose returns nil only after the command's outputs went to the call's own
\* stream, unless the group was stopped and started again under the call, so
\* that another context was searched for the stream, or a call with a stale tag
\* shares the call's tag and had its stream.
OkMeansAnswered ==
  \A p \in Proposal :
    pc[p] = "ok" =>
      \/ [at |-> inst[p], entry |-> p, to |-> p] \in outputs
      \/ via[p] # inst[p]
      \/ \E q \in Proposal : tag[q] = tag[p] /\ StaleTag(q)

\* A context holds a stream only until the state machine closes it: a command
\* the instance has executed leaves no entry behind, whether its call returned
\* an answer or gave up waiting.
StreamsReleased ==
  \A o \in outputs : o.to \in Proposal /\ o.to \in streams[o.at] => o.to \in held[o.at]

\* What getStream ("gets a stream by ID") and Propose's "not the leader" promise
\* together: a command's outputs reach the call that made it, and no other.
OutputsToOwnStream ==
  \A o \in outputs : o.to \in {o.entry, NoProposal}

----------------------------------------------------------------------------
(* The inductive invariant behind the routing properties.                  *)

\* A member's Raft node runs only while the process holds a Partition for it,
\* and a call that has started belongs to the instance it was routed to.
StartInv ==
  /\ \A m \in Member : running[m] => partition[m] # 0
  /\ \A p \in Proposal : pc[p] # "idle" => inst[p] \in Instance

Numbered(p) == tag[p].sequenceNum # 0

\* A call has a sequence number from addStream on, and only then a command that
\* can reach the log.
CallInv ==
  /\ \A p \in Proposal :
       /\ pc[p] \in {"idle", "loaded", "checked"} => ~Numbered(p)
       /\ pc[p] \in {"added", "waiting", "ok", "failed"} => Numbered(p)
       /\ Numbered(p) => /\ inst[p] \in Instance
                         /\ tag[p].sequenceNum <= sequenceNum[inst[p]]
       /\ Submitted(p) => Numbered(p)
  /\ \A k \in DOMAIN log : Submitted(log[k])

\* No two calls of one context share a sequence number.
UniqueTags ==
  \A p, q \in Proposal :
    p # q /\ inst[p] = inst[q] /\ Numbered(p)
      => tag[p].sequenceNum # tag[q].sequenceNum

\* A context holds streams of its own calls only, and so does a state machine,
\* which has each of its streams from an execution of Update.
StreamsInv ==
  /\ \A i \in Instance : \A p \in streams[i] \cup held[i] : inst[p] = i /\ Numbered(p)
  /\ \A i \in Instance : \A p \in held[i] : \E o \in outputs : o.at = i /\ o.to = p

\* Outputs go to the nil stream or to a stream of the same context whose tag is
\* the command's.
OutputsInv ==
  \A o \in outputs :
    /\ Numbered(o.entry)
    /\ o.to \in Proposal => inst[o.to] = o.at /\ tag[o.to] = tag[o.entry]

\* No call belongs to an instance that is yet to be created.
InstanceInv ==
  /\ \A m \in Member : partition[m] <= starts[m]
  /\ \A p \in Proposal : inst[p] \in Instance => inst[p][2] <= starts[inst[p][1]]

\* While its instance is the current one, a call's stream is in the context or
\* has been found there by an execution of Update.
PresentInv ==
  \A p \in Proposal :
    Numbered(p) /\ inst[p] = Current(inst[p][1])
      => \/ p \in streams[inst[p]]
         \/ \E o \in outputs : o.at = inst[p] /\ o.to = p

\* A command that was executed on its call's instance met its call's stream, now
\* or earlier; a call that returned nil was executed.
AnsweredInv ==
  /\ \A o \in outputs : o.at = inst[o.entry]
       => \E a \in outputs : a.at = o.at /\ a.to = o.entry
  /\ \A p \in Proposal : pc[p] = "ok" => Applied(p)

RoutingInv ==
  /\ CallInv
  /\ UniqueTags
  /\ StreamsInv
  /\ OutputsInv
  /\ InstanceInv
  /\ PresentInv
  /\ AnsweredInv
  /\ StreamsReleased

IndInv == TypeOK /\ StartInv /\ RoutingInv
=============================================================================
