------------------------------ MODULE Messages ------------------------------
(***************************************************************************)
(* The messages of the Node service and of the Raft log as bytes: Marshal,  *)
(* Size and Unmarshal of protocol.pb.go.  Writer and reader are separate     *)
(* code and are translated separately: per message, MarshalX is the writer's *)
(* sequence of tags and values, SizeX the size of the buffer it allocates,   *)
(* and XFields the cases of the reader's switch on the field number.         *)
(*                                                                          *)
(* Bytes are 0..255 and the format is the real one.  The integer types are   *)
(* narrower than Go's: uint64 and int have WideBits bits and uint32 and int32 *)
(* have NarrowBits, which leave, as 64 and 32 do, 1 and 4 bits for the last   *)
(* group of seven.  Strings are sequences of bytes.  A message that is part  *)
(* of another is a record in a field named like Go's.                        *)
(***************************************************************************)
EXTENDS Integers, Sequences

CONSTANTS WideBits, NarrowBits

ASSUME WidthAssumption == WideBits \in Nat /\ NarrowBits \in 9..WideBits

\* Two to the power n.
pow2[n \in Nat] == IF n = 0 THEN 1 ELSE 2 * pow2[n - 1]

\* The bits v leaves in an integer of that many, without and with a sign.
Unsigned(v, bits) == v % pow2[bits]
Signed(v, bits) ==
  LET u == Unsigned(v, bits) IN IF u < pow2[bits - 1] THEN u ELSE u - pow2[bits]

-----------------------------------------------------------------------------
\* Writing

\* encodeVarintProtocol: groups of seven bits, the lowest first, all but the
\* last with the high bit set.
LastGroup(v) == <<v>>
GroupAndMore(v, higher) == <<(v % 128) + 128>> \o higher
encodeVarint[v \in Nat] ==
  IF v < 128 THEN LastGroup(v) ELSE GroupAndMore(v, encodeVarint[v \div 128])

\* sovProtocol: the length of an encoded integer, from bits.Len64(x | 1).
Len64(x) == CHOOSE n \in 1..WideBits : x < pow2[n] /\ \A k \in 1..(n - 1) : x >= pow2[k]
sov(x) == (Len64(x) + 6) \div 7

\* A scalar is written unless it is zero, bytes unless there are none; a
\* message that is a part of another is always written.
Varint(tag, v) == IF v = 0 THEN <<>> ELSE <<tag>> \o encodeVarint[Unsigned(v, WideBits)]
Delimited(tag, bytes) == <<tag>> \o encodeVarint[Len(bytes)] \o bytes
Text(tag, bytes) == IF bytes = <<>> THEN <<>> ELSE Delimited(tag, bytes)

VarintSize(v) == IF v = 0 THEN 0 ELSE 1 + sov(Unsigned(v, WideBits))
DelimitedSize(n) == 1 + n + sov(n)
TextSize(bytes) == IF bytes = <<>> THEN 0 ELSE DelimitedSize(Len(bytes))

-----------------------------------------------------------------------------
\* Reading

\* What a read yields: an error, or a value and the bytes that are left.
Failed(e) == [err |-> e]
Read(v, rest) == [err |-> "", v |-> v, rest |-> rest]

DropFirst(d, n) == SubSeq(d, n + 1, Len(d))

\* The loop over shift = 0, 7, ... that reads an integer: a group in each of
\* its turns, the lowest first, and an error when there are no more turns to
\* take, or no more bytes.
MaxGroups == (WideBits + 6) \div 7
NoTurn == [d \in Seq(Nat) |-> Failed("overflow")]
GroupTurn(further) ==
  [d \in Seq(Nat) |->
     IF d = <<>> THEN Failed("EOF")
     ELSE IF Head(d) < 128 THEN Read(Head(d), Tail(d))
     ELSE LET higher == further[Tail(d)]
          IN IF higher.err # "" THEN higher
             ELSE Read((Head(d) % 128) + 128 * higher.v, higher.rest)]
groups[turns \in Nat] == IF turns = 0 THEN NoTurn ELSE GroupTurn(groups[turns - 1])
readVarint(d) == groups[MaxGroups][d]

\* A length and that many bytes; the rest is what follows them.
readDelimited(d) ==
  LET length == readVarint(d)
      n      == Signed(length.v, WideBits)
  IN IF length.err # "" THEN length
     ELSE IF n < 0 THEN Failed("invalid length")
     ELSE IF n > Len(length.rest) THEN Failed("EOF")
     ELSE Read(SubSeq(length.rest, 1, n), DropFirst(length.rest, n))

\* The bytes from the n-th on, if there are so many.
Advance(d, n) == IF n > Len(d) THEN Failed("EOF") ELSE Read(n, DropFirst(d, n))

\* skipProtocol: past a field of unknown number, a group with all that is in
\* it.  A turn of its loop goes past one tag and its value, at some depth of
\* groups, which is the value so far; there are no more turns than bytes, and
\* one that finds none.  The code counts the bytes; here they are what the
\* result lacks of d.
SkipTurn(depth, d) ==
  LET tag      == readVarint(d)
      wireType == tag.v % 8
      value    == CASE wireType = 0 -> readVarint(tag.rest)
                    [] wireType = 1 -> Advance(tag.rest, 8)
                    [] wireType = 2 -> readDelimited(tag.rest)
                    [] wireType = 3 -> tag
                    [] wireType = 4 -> IF depth = 0 THEN Failed("unexpected end of group") ELSE tag
                    [] wireType = 5 -> Advance(tag.rest, 4)
                    [] OTHER -> Failed("illegal wireType")
      inside   == CASE wireType = 3 -> depth + 1 [] wireType = 4 -> depth - 1 [] OTHER -> depth
  IN IF tag.err # "" THEN tag
     ELSE IF value.err # "" THEN value
     ELSE Read(inside, value.rest)
SkipFurther(r) == IF r.err # "" \/ r.v = 0 THEN r ELSE SkipTurn(r.v, r.rest)

skip(d) ==
  LET past[n \in Nat] == IF n = 0 THEN SkipTurn(0, d) ELSE SkipFurther(past[n - 1])
  IN past[Len(d)]

-----------------------------------------------------------------------------
\* The cases of a reader's switch, in the order of their field numbers, which
\* are 1, 2, ...: the Go field, the wire type and how the value is stored.

Uint64(name) == [name |-> name, wire |-> 0, store |-> "uint", bits |-> WideBits]
Uint32(name) == [name |-> name, wire |-> 0, store |-> "uint", bits |-> NarrowBits]
Int32(name) == [name |-> name, wire |-> 0, store |-> "int", bits |-> NarrowBits]
Bool(name) == [name |-> name, wire |-> 0, store |-> "bool"]
Bytes(name) == [name |-> name, wire |-> 2, store |-> "bytes"]
Part(name, type) == [name |-> name, wire |-> 2, store |-> "part", type |-> type]
Parts(name, type) == [name |-> name, wire |-> 2, store |-> "parts", type |-> type]
OneOf(case, type) == [name |-> "Event", wire |-> 2, store |-> "case", case |-> case, type |-> type]

NoEvent == [case |-> "", v |-> <<>>]

-----------------------------------------------------------------------------
\* The messages

MemberConfigFields == <<Uint32("MemberID"), Bytes("Host"), Int32("Port")>>
MarshalMemberConfig(m) == Varint(\h8, m.MemberID) \o Text(\h12, m.Host) \o Varint(\h18, m.Port)
SizeMemberConfig(m) == VarintSize(m.MemberID) + TextSize(m.Host) + VarintSize(m.Port)

GroupConfigFields ==
  <<Uint32("GroupID"), Uint32("MemberID"), Int32("Role"), Parts("Members", "MemberConfig")>>
\* The list is written from its end, and its size is counted from its start.
MarshalEntry(entry, following) == Delimited(\h22, MarshalMemberConfig(entry)) \o following
MarshalMembers(list) ==
  LET last[n \in Nat] ==
        IF n = 0 THEN <<>> ELSE MarshalEntry(list[Len(list) - n + 1], last[n - 1])
  IN last[Len(list)]
SizeMembers(list) ==
  LET first[n \in Nat] ==
        IF n = 0 THEN 0 ELSE first[n - 1] + DelimitedSize(SizeMemberConfig(list[n]))
  IN first[Len(list)]
MarshalGroupConfig(m) ==
  Varint(\h8, m.GroupID) \o Varint(\h10, m.MemberID) \o Varint(\h18, m.Role)
    \o MarshalMembers(m.Members)
SizeGroupConfig(m) ==
  VarintSize(m.GroupID) + VarintSize(m.MemberID) + VarintSize(m.Role) + SizeMembers(m.Members)

RaftProposalFields == <<Uint64("Term"), Uint64("SequenceNum"), Bytes("Data")>>
MarshalRaftProposal(m) == Varint(\h8, m.Term) \o Varint(\h10, m.SequenceNum) \o Text(\h1a, m.Data)
SizeRaftProposal(m) == VarintSize(m.Term) + VarintSize(m.SequenceNum) + TextSize(m.Data)

BootstrapRequestFields == <<Part("Group", "GroupConfig")>>
MarshalBootstrapRequest(m) == Delimited(\ha, MarshalGroupConfig(m.Group))
SizeBootstrapRequest(m) == DelimitedSize(SizeGroupConfig(m.Group))

JoinRequestFields == <<Part("Group", "GroupConfig")>>
MarshalJoinRequest(m) == Delimited(\ha, MarshalGroupConfig(m.Group))
SizeJoinRequest(m) == DelimitedSize(SizeGroupConfig(m.Group))

LeaveRequestFields == <<Uint32("GroupID")>>
MarshalLeaveRequest(m) == Varint(\h8, m.GroupID)
SizeLeaveRequest(m) == VarintSize(m.GroupID)

\* Messages without fields: their readers only skip.
BootstrapResponseFields == <<>>
JoinResponseFields == <<>>
LeaveResponseFields == <<>>
WatchRequestFields == <<>>

ConnectionInfoFields == <<Bytes("Address"), Bool("Snapshot")>>
MarshalConnectionInfo(m) == Text(\ha, m.Address) \o (IF m.Snapshot THEN <<\h10, 1>> ELSE <<>>)
SizeConnectionInfo(m) == TextSize(m.Address) + (IF m.Snapshot THEN 2 ELSE 0)

\* The .proto says uint64 of member_id; its Go type MemberID is a uint32.
MemberEventFields == <<Uint32("GroupID"), Uint32("MemberID")>>
MarshalMemberEvent(m) == Varint(\h8, m.GroupID) \o Varint(\h10, m.MemberID)
SizeMemberEvent(m) == VarintSize(m.GroupID) + VarintSize(m.MemberID)

\* The member that an event is about comes first in it.
MarshalMember(m) == Delimited(\ha, MarshalMemberEvent(m.MemberEvent))
SizeMember(m) == DelimitedSize(SizeMemberEvent(m.MemberEvent))

MemberReadyEventFields == <<Part("MemberEvent", "MemberEvent")>>
MarshalMemberReadyEvent(m) == MarshalMember(m)
SizeMemberReadyEvent(m) == SizeMember(m)

MembershipChangedEventFields == <<Part("MemberEvent", "MemberEvent")>>
MarshalMembershipChangedEvent(m) == MarshalMember(m)
SizeMembershipChangedEvent(m) == SizeMember(m)

\* A variant that reads the term into 32 bits.
TermNarrowed == <<Part("MemberEvent", "MemberEvent"), Uint32("Term"), Uint32("Leader")>>

LeaderUpdatedEventFields == <<Part("MemberEvent", "MemberEvent"), Uint64("Term"), Uint32("Leader")>>
MarshalLeaderUpdatedEvent(m) == MarshalMember(m) \o Varint(\h10, m.Term) \o Varint(\h18, m.Leader)
SizeLeaderUpdatedEvent(m) == SizeMember(m) + VarintSize(m.Term) + VarintSize(m.Leader)

SendSnapshotStartedEventFields == <<Part("MemberEvent", "MemberEvent"), Uint64("Index"), Uint32("To")>>
MarshalSendSnapshotStartedEvent(m) == MarshalMember(m) \o Varint(\h10, m.Index) \o Varint(\h18, m.To)
SizeSendSnapshotStartedEvent(m) == SizeMember(m) + VarintSize(m.Index) + VarintSize(m.To)

SendSnapshotCompletedEventFields == <<Part("MemberEvent", "MemberEvent"), Uint64("Index"), Uint32("To")>>
MarshalSendSnapshotCompletedEvent(m) == MarshalMember(m) \o Varint(\h10, m.Index) \o Varint(\h18, m.To)
SizeSendSnapshotCompletedEvent(m) == SizeMember(m) + VarintSize(m.Index) + VarintSize(m.To)

SendSnapshotAbortedEventFields == <<Part("MemberEvent", "MemberEvent"), Uint64("Index"), Uint32("To")>>
MarshalSendSnapshotAbortedEvent(m) == MarshalMember(m) \o Varint(\h10, m.Index) \o Varint(\h18, m.To)
SizeSendSnapshotAbortedEvent(m) == SizeMember(m) + VarintSize(m.Index) + VarintSize(m.To)

SnapshotReceivedEventFields == <<Part("MemberEvent", "MemberEvent"), Uint64("Index"), Uint32("From")>>
MarshalSnapshotReceivedEvent(m) == MarshalMember(m) \o Varint(\h10, m.Index) \o Varint(\h18, m.From)
SizeSnapshotReceivedEvent(m) == SizeMember(m) + VarintSize(m.Index) + VarintSize(m.From)

SnapshotRecoveredEventFields == <<Part("MemberEvent", "MemberEvent"), Uint64("Index")>>
MarshalSnapshotRecoveredEvent(m) == MarshalMember(m) \o Varint(\h10, m.Index)
SizeSnapshotRecoveredEvent(m) == SizeMember(m) + VarintSize(m.Index)

SnapshotCreatedEventFields == <<Part("MemberEvent", "MemberEvent"), Uint64("Index")>>
MarshalSnapshotCreatedEvent(m) == MarshalMember(m) \o Varint(\h10, m.Index)
SizeSnapshotCreatedEvent(m) == SizeMember(m) + VarintSize(m.Index)

SnapshotCompactedEventFields == <<Part("MemberEvent", "MemberEvent"), Uint64("Index")>>
MarshalSnapshotCompactedEvent(m) == MarshalMember(m) \o Varint(\h10, m.Index)
SizeSnapshotCompactedEvent(m) == SizeMember(m) + VarintSize(m.Index)

LogCompactedEventFields == <<Part("MemberEvent", "MemberEvent"), Uint64("Index")>>
MarshalLogCompactedEvent(m) == MarshalMember(m) \o Varint(\h10, m.Index)
SizeLogCompactedEvent(m) == SizeMember(m) + VarintSize(m.Index)

LogDBCompactedEventFields == <<Part("MemberEvent", "MemberEvent"), Uint64("Index")>>
MarshalLogDBCompactedEvent(m) == MarshalMember(m) \o Varint(\h10, m.Index)
SizeLogDBCompactedEvent(m) == SizeMember(m) + VarintSize(m.Index)

ConnectionEstablishedEventFields == <<Part("ConnectionInfo", "ConnectionInfo")>>
MarshalConnectionEstablishedEvent(m) == Delimited(\ha, MarshalConnectionInfo(m.ConnectionInfo))
SizeConnectionEstablishedEvent(m) == DelimitedSize(SizeConnectionInfo(m.ConnectionInfo))

ConnectionFailedEventFields == <<Part("ConnectionInfo", "ConnectionInfo")>>
MarshalConnectionFailedEvent(m) == Delimited(\ha, MarshalConnectionInfo(m.ConnectionInfo))
SizeConnectionFailedEvent(m) == DelimitedSize(SizeConnectionInfo(m.ConnectionInfo))

\* An event: its time, whose encoding is external, and one of the above.
EventFields ==
  <<Bytes("Timestamp"),
    OneOf("MemberReady", "MemberReadyEvent"),
    OneOf("LeaderUpdated", "LeaderUpdatedEvent"),
    OneOf("MembershipChanged", "MembershipChangedEvent"),
    OneOf("SendSnapshotStarted", "SendSnapshotStartedEvent"),
    OneOf("SendSnapshotCompleted", "SendSnapshotCompletedEvent"),
    OneOf("SendSnapshotAborted", "SendSnapshotAbortedEvent"),
    OneOf("SnapshotReceived", "SnapshotReceivedEvent"),
    OneOf("SnapshotRecovered", "SnapshotRecoveredEvent"),
    OneOf("SnapshotCreated", "SnapshotCreatedEvent"),
    OneOf("SnapshotCompacted", "SnapshotCompactedEvent"),
    OneOf("LogCompacted", "LogCompactedEvent"),
    OneOf("LogdbCompacted", "LogDBCompactedEvent"),
    OneOf("ConnectionEstablished", "ConnectionEstablishedEvent"),
    OneOf("ConnectionFailed", "ConnectionFailedEvent")>>
MarshalCase(e) ==
  CASE e.case = "MemberReady" -> Delimited(\h12, MarshalMemberReadyEvent(e.v))
    [] e.case = "LeaderUpdated" -> Delimited(\h1a, MarshalLeaderUpdatedEvent(e.v))
    [] e.case = "MembershipChanged" -> Delimited(\h22, MarshalMembershipChangedEvent(e.v))
    [] e.case = "SendSnapshotStarted" -> Delimited(\h2a, MarshalSendSnapshotStartedEvent(e.v))
    [] e.case = "SendSnapshotCompleted" -> Delimited(\h32, MarshalSendSnapshotCompletedEvent(e.v))
    [] e.case = "SendSnapshotAborted" -> Delimited(\h3a, MarshalSendSnapshotAbortedEvent(e.v))
    [] e.case = "SnapshotReceived" -> Delimited(\h42, MarshalSnapshotReceivedEvent(e.v))
    [] e.case = "SnapshotRecovered" -> Delimited(\h4a, MarshalSnapshotRecoveredEvent(e.v))
    [] e.case = "SnapshotCreated" -> Delimited(\h52, MarshalSnapshotCreatedEvent(e.v))
    [] e.case = "SnapshotCompacted" -> Delimited(\h5a, MarshalSnapshotCompactedEvent(e.v))
    [] e.case = "LogCompacted" -> Delimited(\h62, MarshalLogCompactedEvent(e.v))
    [] e.case = "LogdbCompacted" -> Delimited(\h6a, MarshalLogDBCompactedEvent(e.v))
    [] e.case = "ConnectionEstablished" -> Delimited(\h72, MarshalConnectionEstablishedEvent(e.v))
    [] e.case = "ConnectionFailed" -> Delimited(\h7a, MarshalConnectionFailedEvent(e.v))
    [] e = NoEvent -> <<>>
SizeCase(e) ==
  CASE e.case = "MemberReady" -> DelimitedSize(SizeMemberReadyEvent(e.v))
    [] e.case = "LeaderUpdated" -> DelimitedSize(SizeLeaderUpdatedEvent(e.v))
    [] e.case = "MembershipChanged" -> DelimitedSize(SizeMembershipChangedEvent(e.v))
    [] e.case = "SendSnapshotStarted" -> DelimitedSize(SizeSendSnapshotStartedEvent(e.v))
    [] e.case = "SendSnapshotCompleted" -> DelimitedSize(SizeSendSnapshotCompletedEvent(e.v))
    [] e.case = "SendSnapshotAborted" -> DelimitedSize(SizeSendSnapshotAbortedEvent(e.v))
    [] e.case = "SnapshotReceived" -> DelimitedSize(SizeSnapshotReceivedEvent(e.v))
    [] e.case = "SnapshotRecovered" -> DelimitedSize(SizeSnapshotRecoveredEvent(e.v))
    [] e.case = "SnapshotCreated" -> DelimitedSize(SizeSnapshotCreatedEvent(e.v))
    [] e.case = "SnapshotCompacted" -> DelimitedSize(SizeSnapshotCompactedEvent(e.v))
    [] e.case = "LogCompacted" -> DelimitedSize(SizeLogCompactedEvent(e.v))
    [] e.case = "LogdbCompacted" -> DelimitedSize(SizeLogDBCompactedEvent(e.v))
    [] e.case = "ConnectionEstablished" -> DelimitedSize(SizeConnectionEstablishedEvent(e.v))
    [] e.case = "ConnectionFailed" -> DelimitedSize(SizeConnectionFailedEvent(e.v))
    [] e = NoEvent -> 0
MarshalEvent(m) == Delimited(\ha, m.Timestamp) \o MarshalCase(m.Event)
SizeEvent(m) == DelimitedSize(Len(m.Timestamp)) + SizeCase(m.Event)

-----------------------------------------------------------------------------
\* The fields of each type of message.
FieldsOf ==
  [GroupConfig |-> GroupConfigFields,
   MemberConfig |-> MemberConfigFields,
   RaftProposal |-> RaftProposalFields,
   BootstrapRequest |-> BootstrapRequestFields,
   BootstrapResponse |-> BootstrapResponseFields,
   JoinRequest |-> JoinRequestFields,
   JoinResponse |-> JoinResponseFields,
   LeaveRequest |-> LeaveRequestFields,
   LeaveResponse |-> LeaveResponseFields,
   WatchRequest |-> WatchRequestFields,
   Event |-> EventFields,
   ConnectionInfo |-> ConnectionInfoFields,
   MemberEvent |-> MemberEventFields,
   MemberReadyEvent |-> MemberReadyEventFields,
   LeaderUpdatedEvent |-> LeaderUpdatedEventFields,
   MembershipChangedEvent |-> MembershipChangedEventFields,
   SendSnapshotStartedEvent |-> SendSnapshotStartedEventFields,
   SendSnapshotCompletedEvent |-> SendSnapshotCompletedEventFields,
   SendSnapshotAbortedEvent |-> SendSnapshotAbortedEventFields,
   SnapshotReceivedEvent |-> SnapshotReceivedEventFields,
   SnapshotRecoveredEvent |-> SnapshotRecoveredEventFields,
   SnapshotCreatedEvent |-> SnapshotCreatedEventFields,
   SnapshotCompactedEvent |-> SnapshotCompactedEventFields,
   LogCompactedEvent |-> LogCompactedEventFields,
   LogDBCompactedEvent |-> LogDBCompactedEventFields,
   ConnectionEstablishedEvent |-> ConnectionEstablishedEventFields,
   ConnectionFailedEvent |-> ConnectionFailedEventFields]

\* A new message: Go's zero values, given those of the types of its parts.
ZeroOf(f, zero) ==
  CASE f.store \in {"uint", "int"} -> 0
    [] f.store = "bool" -> FALSE
    [] f.store \in {"bytes", "parts"} -> <<>>
    [] f.store = "part" -> zero[f.type]
    [] f.store = "case" -> NoEvent
NewMessage(fields, zero) ==
  [name \in {fields[i].name : i \in DOMAIN fields} |->
     ZeroOf(fields[CHOOSE i \in DOMAIN fields : fields[i].name = name], zero)]
Zero[type \in DOMAIN FieldsOf] == NewMessage(FieldsOf[type], Zero)

\* The field after one more value of it: a scalar is replaced, a part merged
\* into, a list of parts grows, and the last case of a oneof counts.
Stored(f, old, v) ==
  CASE f.store = "uint" -> Unsigned(v, f.bits)
    [] f.store = "int" -> Signed(v, f.bits)
    [] f.store = "bool" -> v # 0
    [] f.store \in {"bytes", "part"} -> v
    [] f.store = "parts" -> Append(old, v)
    [] f.store = "case" -> [case |-> f.case, v |-> v]

\* What a turn of the loop reads: a tag, and the field's value by its wire
\* type, or a field to be skipped.
fieldNum(d) == Signed(readVarint(d).v \div 8, NarrowBits)
readField(fields, d) ==
  LET tag      == readVarint(d)
      wireType == tag.v % 8
  IN IF tag.err # "" THEN tag
     ELSE IF wireType = 4 THEN Failed("end group")
     ELSE IF fieldNum(d) <= 0 THEN Failed("illegal tag")
     ELSE IF fieldNum(d) \notin DOMAIN fields THEN skip(d)
     ELSE IF wireType # fields[fieldNum(d)].wire THEN Failed("wrong wireType")
     ELSE IF wireType = 0 THEN readVarint(tag.rest)
     ELSE readDelimited(tag.rest)

\* What a field says: itself, or, if it is a part, that part, which continues
\* with the one that the message has, or fills a new one.  Its type decides on
\* its reader.
readValue(readPart(_, _, _), m, f, field) ==
  IF f.store \notin {"part", "parts", "case"} THEN field
  ELSE readPart(f.type, IF f.store = "part" THEN m[f.name] ELSE Zero[f.type], field.v)
storeValue(m, f, value, rest) ==
  IF value.err # "" THEN value
  ELSE Read([m EXCEPT ![f.name] = Stored(f, @, value.v)], rest)

\* A turn of the loop over a message's fields: r is the message so far and the
\* bytes that are left.  An error in it or in a part ends it all.
switchField(readPart(_, _, _), fields, num, m, field) ==
  IF field.err # "" THEN field
  ELSE IF num \notin DOMAIN fields THEN Read(m, field.rest)
  ELSE storeValue(m, fields[num], readValue(readPart, m, fields[num], field), field.rest)
TakeField(readPart(_, _, _), type, m, d) ==
  switchField(readPart, FieldsOf[type], fieldNum(d), m, readField(FieldsOf[type], d))
Turn(readPart(_, _, _), type, r) ==
  IF r.err # "" \/ r.rest = <<>> THEN r ELSE TakeField(readPart, type, r.v, r.rest)

\* Unmarshal into m: turns until no bytes are left.  One takes two bytes at
\* least, a tag and a value or a length, unless it ends the loop with an error.
Turns(d) == (Len(d) + 1) \div 2
UnmarshalWith(readPart(_, _, _), type, m, d) ==
  LET after[n \in Nat] == IF n = 0 THEN Read(m, d) ELSE Turn(readPart, type, after[n - 1])
  IN after[Turns(d)]

\* The readers of messages without parts, of those that have such parts, and
\* of those that have these: a message is at most a part of a part.
NoPart(type, m, d) == Failed("no part")
UnmarshalFlat(type, m, d) == UnmarshalWith(NoPart, type, m, d)
UnmarshalNested(type, m, d) == UnmarshalWith(UnmarshalFlat, type, m, d)
UnmarshalInto(type, m, d) == UnmarshalWith(UnmarshalNested, type, m, d)

Unmarshal(type, d) == UnmarshalInto(type, Zero[type], d)

\* The two operators of the message itself.
Written(type, m) ==
  CASE type = "RaftProposal" -> MarshalRaftProposal(m)
    [] type = "BootstrapRequest" -> MarshalBootstrapRequest(m)
    [] type = "JoinRequest" -> MarshalJoinRequest(m)
    [] type = "LeaveRequest" -> MarshalLeaveRequest(m)
    [] type = "Event" -> MarshalEvent(m)
    [] FieldsOf[type] = <<>> -> <<>>
Size(type, m) ==
  CASE type = "RaftProposal" -> SizeRaftProposal(m)
    [] type = "BootstrapRequest" -> SizeBootstrapRequest(m)
    [] type = "JoinRequest" -> SizeJoinRequest(m)
    [] type = "LeaveRequest" -> SizeLeaveRequest(m)
    [] type = "Event" -> SizeEvent(m)
    [] FieldsOf[type] = <<>> -> 0

\* Marshal: a buffer of Size zeros is filled from its end, and the first bytes
\* of it are returned, as many as were written.  One that is too small panics.
Marshal(type, m) ==
  LET written == Written(type, m)
      size    == Size(type, m)
  IN IF size < Len(written) THEN Failed("index out of range")
     ELSE Read(SubSeq([i \in 1..(size - Len(written)) |-> 0] \o written, 1, Len(written)), <<>>)
=============================================================================
