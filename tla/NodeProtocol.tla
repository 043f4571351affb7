----------------------------- MODULE NodeProtocol -----------------------------
(***************************************************************************)
(* What travels between the controller, the nodes and the Raft log, as bytes *)
(* (protocol.pb.go): the bootstrap of the groups with requests that are      *)
(* marshalled and read again, and, in a cluster whose members have all been   *)
(* bootstrapped, the events a replica announces (events.go), the proposals    *)
(* it appends to its log and the remaining requests of the Node service.     *)
(*                                                                          *)
(* The writer may be newer than the reader, controller and node being two     *)
(* images: a message may end with fields the reader does not know.            *)
(***************************************************************************)
EXTENDS GroupBootstrap, Messages

CONSTANTS
  Numbers,    \* terms, indices and sequence numbers: the edges of the encoding
  Addresses,  \* of connections
  Commands,   \* of proposals
  Timestamps  \* what the library makes of a time

\* The values are those of their Go types: uint32 identifiers, uint64 terms and
\* indices, an int32 port, and strings.
ASSUME ProtocolAssumption ==
  /\ \A n \in Group \cup MemberId : n < pow2[NarrowBits]
  /\ Numbers \subseteq 0..(pow2[WideBits] - 1)
  /\ protocolPort < pow2[NarrowBits - 1]
  /\ Addresses \subseteq Seq(Nat) /\ Commands \subseteq Seq(Nat) /\ Timestamps \subseteq Seq(Nat)

\* A message fits a slice, whose length is an int: a text leaves room for the
\* tags and the lengths of the message it is in.
ASSUME LengthAssumption ==
  /\ \A t \in Addresses \cup Commands \cup Timestamps : Len(t) + 2 * WideBits < pow2[WideBits - 1]
  /\ \A s \in Specs, g \in Group, m \in MemberId, type \in MemberType :
       SizeGroupConfig(groupConfig(s, g, m, type)) < pow2[WideBits - 1]

\* GroupBootstrap's Carried.
CarriedRequest(request) == Unmarshal("BootstrapRequest", Marshal("BootstrapRequest", request).v).v

VARIABLE wire   \* a message on its way, or Silent

Silent == [state |-> "silent"]

\* Fields numbered 20 of a newer writer, one of each wire type; a group has
\* fields in it.
Tag20(wireType) == encodeVarint[20 * 8 + wireType]
UnknownValue(wireType) ==
  CASE wireType = 0 -> <<200, 1>>
    [] wireType = 1 -> <<1, 2, 3, 4, 5, 6, 7, 8>>
    [] wireType = 2 -> <<2, 8, 1>>
    [] wireType = 3 -> <<\h8, 1, \hb, \h12, 1, 12, \hc>> \o Tag20(4)
    [] wireType = 5 -> <<1, 2, 3, 4>>
UnknownField(wireType) == Tag20(wireType) \o UnknownValue(wireType)
FromNewer == {<<>>} \cup {UnknownField(wireType) : wireType \in {0, 1, 2, 3, 5}}

-----------------------------------------------------------------------------
\* What the library's listener is called with, about a replica of this node.

NodeInfo(p, g) == [ClusterID |-> g, NodeID |-> nodes[p][g].raft.NodeID]
LeaderInfo(p, g) ==
  {[ClusterID |-> g, NodeID |-> nodes[p][g].raft.NodeID, Term |-> t, LeaderID |-> leader] :
     t \in Numbers, leader \in MemberId \cup {0}}
SnapshotInfo(p, g) ==
  {[ClusterID |-> g, NodeID |-> nodes[p][g].raft.NodeID, From |-> from, Index |-> i] :
     from \in MemberId, i \in Numbers}
EntryInfo(p, g) ==
  {[ClusterID |-> g, NodeID |-> nodes[p][g].raft.NodeID, Index |-> i] : i \in Numbers}
ConnectionInfo == {[Address |-> a, SnapshotConnection |-> s] : a \in Addresses, s \in BOOLEAN}

\* eventListener: the events it makes of these.
Member(info) == [GroupID |-> Unsigned(info.ClusterID, NarrowBits), MemberID |-> Unsigned(info.NodeID, NarrowBits)]
Connection(info) == [Address |-> info.Address, Snapshot |-> info.SnapshotConnection]

LeaderUpdated(info) ==
  [case |-> "LeaderUpdated", v |->
     [MemberEvent |-> Member(info), Term |-> info.Term, Leader |-> Unsigned(info.LeaderID, NarrowBits)]]
NodeReady(info) == [case |-> "MemberReady", v |-> [MemberEvent |-> Member(info)]]
MembershipChanged(info) == [case |-> "MembershipChanged", v |-> [MemberEvent |-> Member(info)]]
ConnectionEstablished(info) ==
  [case |-> "ConnectionEstablished", v |-> [ConnectionInfo |-> Connection(info)]]
ConnectionFailed(info) == [case |-> "ConnectionFailed", v |-> [ConnectionInfo |-> Connection(info)]]

\* The three events of a snapshot being sent name NodeID twice.
SendSnapshot(info) ==
  [MemberEvent |-> Member(info), Index |-> info.Index, To |-> Unsigned(info.NodeID, NarrowBits)]
SendSnapshotStarted(info) == [case |-> "SendSnapshotStarted", v |-> SendSnapshot(info)]
SendSnapshotCompleted(info) == [case |-> "SendSnapshotCompleted", v |-> SendSnapshot(info)]
SendSnapshotAborted(info) == [case |-> "SendSnapshotAborted", v |-> SendSnapshot(info)]
SnapshotReceived(info) ==
  [case |-> "SnapshotReceived", v |->
     [MemberEvent |-> Member(info), Index |-> info.Index, From |-> Unsigned(info.From, NarrowBits)]]

Indexed(info) == [MemberEvent |-> Member(info), Index |-> info.Index]
SnapshotRecovered(info) == [case |-> "SnapshotRecovered", v |-> Indexed(info)]
SnapshotCreated(info) == [case |-> "SnapshotCreated", v |-> Indexed(info)]
SnapshotCompacted(info) == [case |-> "SnapshotCompacted", v |-> Indexed(info)]
LogCompacted(info) == [case |-> "LogCompacted", v |-> Indexed(info)]
LogDBCompacted(info) == [case |-> "LogdbCompacted", v |-> Indexed(info)]

-----------------------------------------------------------------------------
ProtocolInit == Init /\ wire = Silent

\* The messages below are looked at in a cluster at rest, as it was first
\* bootstrapped, one at a time (bound).
Settled ==
  /\ wire = Silent /\ call.state = "none"
  /\ edits = 0 /\ \A p \in Pod : container[p] = 1
  /\ AllRecorded

Send(type, m) ==
  /\ wire' = [state |-> "sent", type |-> type, m |-> m, bytes |-> Marshal(type, m)]
  /\ UNCHANGED vars

publish(event) == \E t \in Timestamps : Send("Event", [Timestamp |-> t, Event |-> event])

Announce(p, g) ==
  /\ nodes[p][g] # Nil
  /\ \/ publish(NodeReady(NodeInfo(p, g)))
     \/ publish(MembershipChanged(NodeInfo(p, g)))
     \/ \E info \in LeaderInfo(p, g) : publish(LeaderUpdated(info))
     \/ \E info \in SnapshotInfo(p, g) :
          \/ publish(SendSnapshotStarted(info))
          \/ publish(SendSnapshotCompleted(info))
          \/ publish(SendSnapshotAborted(info))
          \/ publish(SnapshotReceived(info))
          \/ publish(SnapshotRecovered(info))
          \/ publish(SnapshotCreated(info))
          \/ publish(SnapshotCompacted(info))
     \/ \E info \in EntryInfo(p, g) : publish(LogCompacted(info)) \/ publish(LogDBCompacted(info))
     \/ \E info \in ConnectionInfo :
          publish(ConnectionEstablished(info)) \/ publish(ConnectionFailed(info))

\* The entry that Partition.Propose appends and stateMachine.Update reads.
Propose ==
  \E t, n \in Numbers, data \in Commands :
    Send("RaftProposal", [Term |-> t, SequenceNum |-> n, Data |-> data])

\* The other requests of the Node service, and its answers.
Request ==
  \/ \E g \in Group, m \in MemberId, type \in MemberType :
       Send("JoinRequest", [Group |-> groupConfig(cluster, g, m, type)])
  \/ \E g \in Group : Send("LeaveRequest", [GroupID |-> g])
  \/ \E type \in {"WatchRequest", "BootstrapResponse", "JoinResponse", "LeaveResponse"} : Send(type, <<>>)

Receive ==
  /\ wire.state = "sent"
  /\ \E more \in FromNewer :
       wire' = [state |-> "received", m |-> wire.m,
                got |-> IF wire.bytes.err # "" THEN wire.bytes ELSE Unmarshal(wire.type, wire.bytes.v \o more)]
  /\ UNCHANGED vars

Done ==
  /\ wire.state = "received"
  /\ wire' = Silent
  /\ UNCHANGED vars

ProtocolNext ==
  \/ wire = Silent /\ Next /\ UNCHANGED wire
  \/ Settled /\ ((\E p \in Pod, g \in Group : Announce(p, g)) \/ Propose \/ Request)
  \/ Receive \/ Done

ProtocolSpec == ProtocolInit /\ [][ProtocolNext]_<<vars, wire>>

FairProtocolSpec == ProtocolSpec /\ Fairness

\* A reader understands every message as it was meant, at the edges of the
\* integers' widths and of the lengths' encodings, however the fields of its
\* parts nest, and although a newer writer appends fields (Marshal, Size,
\* Unmarshal and skipProtocol).
UnderstoodAsSent == wire.state = "received" => wire.got = Read(wire.m, <<>>)
=============================================================================
