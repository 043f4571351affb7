-------------------------- MODULE ProposalsProofs --------------------------
(* Theorems about Proposals, for every set of members and calls and every    *)
(* bound.                                                                    *)
EXTENDS Proposals, TLAPS

\* An instance is a member and the number of one of its starts.
LEMMA InstanceFields ==
  ASSUME NEW i \in Instance
  PROVE  i[1] \in Member /\ i[2] \in 1..MaxStarts
BY DEF Instance

\* The entry a member has in n.partitions is an instance.
LEMMA CurrentInstance ==
  ASSUME TypeOK, NEW m \in Member, partition[m] # 0
  PROVE  Current(m) \in Instance
BY ProposalsAssumption DEF TypeOK, Current, Instance

\* NewProtocol leaves every variable with its type and no member running.
LEMMA TypeInit == Init => TypeOK /\ StartInv
<1> SUFFICES ASSUME Init PROVE TypeOK /\ StartInv OBVIOUS
<1> USE ProposalsAssumption DEF Init
<1>1. TypeOK
  BY DEF TypeOK, LeaderInfo, NoInfo, NoInstance, StreamID, NoTag, InCall, Ended
<1>2. StartInv
  BY DEF StartInv
<1> QED BY <1>1, <1>2

\* No handler, call or Raft event gives a variable a value of another type.
LEMMA TypeStep == TypeOK /\ StartInv /\ [Next]_vars => TypeOK'
<1> SUFFICES ASSUME TypeOK, StartInv, [Next]_vars PROVE TypeOK' OBVIOUS
<1> USE ProposalsAssumption
<1>1. ASSUME NEW m \in Member, NEW t \in 1..MaxTerm, Elect(m, t) PROVE TypeOK'
  <2>1. Current(m) \in Instance
    BY <1>1, CurrentInstance DEF StartInv, Elect
  <2>2. [term |-> t, leader |-> m] \in LeaderInfo
    BY DEF LeaderInfo
  <2>3. queue' \in [Member -> Seq(LeaderInfo)] /\ view' \in [Member -> LeaderInfo]
    BY <1>1, <2>2 DEF TypeOK, Elect, Announce
  <2> QED BY <1>1, <2>1, <2>3 DEF TypeOK, Elect, nodeVars, callVars
<1>2. ASSUME NEW m \in Member, NEW t \in 1..MaxTerm, NEW l \in Member \cup {NoMember},
             Observe(m, t, l)
      PROVE TypeOK'
  <2>1. [term |-> t, leader |-> l] \in LeaderInfo
    BY DEF LeaderInfo
  <2>2. queue' \in [Member -> Seq(LeaderInfo)] /\ view' \in [Member -> LeaderInfo]
    BY <1>2, <2>1 DEF TypeOK, Observe, Announce
  <2> QED BY <1>2, <2>2 DEF TypeOK, Observe, nodeVars, callVars
<1>3. ASSUME NEW p \in Proposal, Commit(p) PROVE TypeOK'
  BY <1>3 DEF TypeOK, Commit, nodeVars, callVars
<1>4. ASSUME NEW m \in Member, StartCluster(m) PROVE TypeOK'
  <2>1. [term |-> view[m].term, leader |-> NoMember] \in LeaderInfo
    BY DEF TypeOK, LeaderInfo
  <2> QED BY <1>4, <2>1 DEF TypeOK, StartCluster, callVars
<1>5. ASSUME NEW m \in Member, Leave(m) PROVE TypeOK'
  BY <1>5 DEF TypeOK, Leave, nodeVars, callVars
<1>6. ASSUME NEW m \in Member, Crash(m) PROVE TypeOK'
  <2>1. NoInfo \in LeaderInfo
    BY DEF LeaderInfo, NoInfo
  <2>2. queue' \in [Member -> Seq(LeaderInfo)] /\ setting' \in [Member -> LeaderInfo]
    BY <1>6, <2>1 DEF TypeOK, Crash
  <2>3. /\ streams' \in [Instance -> SUBSET Proposal]
        /\ held' \in [Instance -> SUBSET Proposal]
    BY <1>6 DEF TypeOK, Crash
  <2>4. pc' \in [Proposal -> {"idle"} \cup InCall \cup Ended]
    BY <1>6 DEF TypeOK, Crash, Ended
  <2> QED BY <1>6, <2>2, <2>3, <2>4 DEF TypeOK, Crash
<1>7. ASSUME NEW m \in Member, SetTerm(m) PROVE TypeOK'
  <2>1. Head(queue[m]) \in LeaderInfo /\ Tail(queue[m]) \in Seq(LeaderInfo)
    BY <1>7 DEF SetTerm, TypeOK
  <2>2. Head(queue[m]).term \in 0..MaxTerm
    BY <2>1 DEF LeaderInfo
  <2>3. queue' \in [Member -> Seq(LeaderInfo)]
    BY <1>7, <2>1 DEF TypeOK, SetTerm
  <2>4. CASE partition[m] = 0
    BY <1>7, <2>3, <2>4 DEF TypeOK, SetTerm, callVars
  <2>5. CASE partition[m] # 0
    <3>1. setting' \in [Member -> LeaderInfo]
      BY <1>7, <2>1, <2>5 DEF TypeOK, SetTerm
    <3>2. term' \in [Instance -> 0..MaxTerm]
      BY <1>7, <2>2, <2>5 DEF TypeOK, SetTerm
    <3> QED BY <1>7, <2>3, <3>1, <3>2 DEF TypeOK, SetTerm, callVars
  <2> QED BY <2>4, <2>5
<1>8. ASSUME NEW m \in Member, SetLeader(m) PROVE TypeOK'
  <2>1. setting[m].leader \in Member \cup {NoMember} /\ NoInfo \in LeaderInfo
    BY DEF TypeOK, LeaderInfo, NoInfo
  <2> QED BY <1>8, <2>1 DEF TypeOK, SetLeader, raftVars, callVars
<1>9. ASSUME NEW p \in Proposal, NEW m \in Member, GetTerm(p, m) PROVE TypeOK'
  <2>1. Current(m) \in Instance
    BY <1>9, CurrentInstance DEF GetTerm
  <2>2. [tag[p] EXCEPT !.term = term[Current(m)]] \in StreamID
    BY <2>1 DEF TypeOK, StreamID
  <2> QED BY <1>9, <2>1, <2>2 DEF TypeOK, GetTerm, raftVars, nodeVars, InCall
<1>10. ASSUME NEW p \in Proposal, GetLeader(p) PROVE TypeOK'
  BY <1>10 DEF TypeOK, GetLeader, raftVars, nodeVars, InCall
<1>11. ASSUME NEW p \in Proposal, Refuse(p) PROVE TypeOK'
  <2>1. NoTag \in StreamID
    BY DEF NoTag, StreamID
  <2> QED BY <1>11, <2>1 DEF TypeOK, Refuse, raftVars, nodeVars, Ended
<1>12. ASSUME NEW p \in Proposal, AddStream(p) PROVE TypeOK'
  <2>1. inst[p] \in Instance
    BY <1>12 DEF AddStream, StartInv
  <2>2. NextSequenceNum(inst[p]) \in Nat
    BY <2>1 DEF TypeOK, NextSequenceNum
  <2>3. [term |-> tag[p].term, sequenceNum |-> NextSequenceNum(inst[p])] \in StreamID
    BY <2>2 DEF TypeOK, StreamID
  <2>4. Without(inst[p], [term |-> tag[p].term,
                          sequenceNum |-> NextSequenceNum(inst[p])]) \in SUBSET Proposal
    BY <2>1 DEF Without, TypeOK
  <2> QED BY <1>12, <2>1, <2>2, <2>3, <2>4 DEF TypeOK, AddStream, raftVars, InCall
<1>13. ASSUME NEW p \in Proposal, SyncPropose(p) PROVE TypeOK'
  <2>1. inst[p] \in Instance
    BY <1>13 DEF SyncPropose, StartInv
  <2>2. inst[p][1] \in Member
    BY <2>1, InstanceFields
  <2>3. Current(inst[p][1]) \in Instance
    BY <1>13, <2>2, CurrentInstance DEF SyncPropose, StartInv
  <2> QED BY <1>13, <2>3 DEF TypeOK, SyncPropose, raftVars, nodeVars, InCall
<1>14. ASSUME NEW p \in Proposal, ReturnOk(p) PROVE TypeOK'
  BY <1>14 DEF TypeOK, ReturnOk, raftVars, nodeVars, Ended
<1>15. ASSUME NEW p \in Proposal, ReturnError(p) PROVE TypeOK'
  BY <1>15 DEF TypeOK, ReturnError, raftVars, nodeVars, Ended
<1>16. ASSUME NEW i \in Instance, Update(i) PROVE TypeOK'
  <2>1. log[applied[i] + 1] \in Proposal
    BY <1>16 DEF TypeOK, Update
  <2>2. GetStream(i, tag[log[applied[i] + 1]]) \subseteq Proposal
    BY DEF GetStream, TypeOK
  <2>3. \E q \in Proposal \cup {NoProposal} :
          outputs' = outputs \cup {[at |-> i, entry |-> log[applied[i] + 1], to |-> q]}
    BY <1>16, <2>2 DEF Update
  <2>4. outputs' \subseteq [at : Instance, entry : Proposal, to : Proposal \cup {NoProposal}]
    BY <2>1, <2>3 DEF TypeOK
  <2>5. held' \in [Instance -> SUBSET Proposal]
    <3>1. \/ held' = held
          \/ \E p \in Proposal : held' = [held EXCEPT ![i] = @ \cup {p}]
      BY <1>16, <2>2 DEF Update
    <3>2. held \in [Instance -> SUBSET Proposal]
      BY DEF TypeOK
    <3> QED BY <3>1, <3>2
  <2>6. applied' \in [Instance -> Nat]
    BY <1>16 DEF TypeOK, Update
  <2>7. UNCHANGED <<elected, view, queue, running, log, starts, partition, term,
                    leader, setting, sequenceNum, streams, callVars>>
    BY <1>16 DEF Update
  <2> QED BY <2>4, <2>5, <2>6, <2>7 DEF TypeOK, callVars
<1>17. ASSUME NEW i \in Instance, NEW n \in SnapshotAt, RecoverFromSnapshot(i, n)
       PROVE  TypeOK'
  BY <1>17 DEF TypeOK, RecoverFromSnapshot, nodeVars, callVars
<1>18. ASSUME NEW i \in Instance, NEW p \in Proposal, CloseStream(i, p) PROVE TypeOK'
  BY <1>18 DEF TypeOK, CloseStream, Without, raftVars, callVars
<1>19. ASSUME UNCHANGED vars PROVE TypeOK'
  BY <1>19 DEF TypeOK, vars, raftVars, nodeVars, callVars
<1> QED
  BY <1>1, <1>2, <1>3, <1>4, <1>5, <1>6, <1>7, <1>8, <1>9, <1>10, <1>11, <1>12, <1>13,
     <1>14, <1>15, <1>16, <1>17, <1>18, <1>19 DEF Next

\* No step runs a member without a Partition, or a call without an instance.
LEMMA StartStep == TypeOK /\ StartInv /\ [Next]_vars => StartInv'
<1> SUFFICES ASSUME TypeOK, StartInv, [Next]_vars PROVE StartInv' OBVIOUS
<1> USE DEF StartInv
<1>1. ASSUME NEW m \in Member, NEW t \in 1..MaxTerm, Elect(m, t) PROVE StartInv'
  BY <1>1 DEF Elect, nodeVars, callVars
<1>2. ASSUME NEW m \in Member, NEW t \in 1..MaxTerm, NEW l \in Member \cup {NoMember},
             Observe(m, t, l)
      PROVE StartInv'
  BY <1>2 DEF Observe, nodeVars, callVars
<1>3. ASSUME NEW p \in Proposal, Commit(p) PROVE StartInv'
  BY <1>3 DEF Commit, nodeVars, callVars
<1>4. ASSUME NEW m \in Member, StartCluster(m) PROVE StartInv'
  BY <1>4, ProposalsAssumption DEF StartCluster, TypeOK, callVars
<1>5. ASSUME NEW m \in Member, Leave(m) PROVE StartInv'
  BY <1>5 DEF Leave, TypeOK, nodeVars, callVars
<1>6. ASSUME NEW m \in Member, Crash(m) PROVE StartInv'
  BY <1>6 DEF Crash, TypeOK, InCall
<1>7. ASSUME NEW m \in Member, SetTerm(m) PROVE StartInv'
  BY <1>7 DEF SetTerm, callVars
<1>8. ASSUME NEW m \in Member, SetLeader(m) PROVE StartInv'
  BY <1>8 DEF SetLeader, raftVars, callVars
<1>9. ASSUME NEW p \in Proposal, NEW m \in Member, GetTerm(p, m) PROVE StartInv'
  <2>1. Current(m) \in Instance
    BY <1>9, CurrentInstance DEF GetTerm
  <2> QED BY <1>9, <2>1 DEF GetTerm, TypeOK, raftVars, nodeVars
<1>10. ASSUME NEW p \in Proposal, GetLeader(p) PROVE StartInv'
  BY <1>10 DEF GetLeader, TypeOK, raftVars, nodeVars
<1>11. ASSUME NEW p \in Proposal, Refuse(p) PROVE StartInv'
  BY <1>11 DEF Refuse, TypeOK, raftVars, nodeVars
<1>12. ASSUME NEW p \in Proposal, AddStream(p) PROVE StartInv'
  BY <1>12 DEF AddStream, TypeOK, raftVars
<1>13. ASSUME NEW p \in Proposal, SyncPropose(p) PROVE StartInv'
  BY <1>13 DEF SyncPropose, TypeOK, raftVars, nodeVars
<1>14. ASSUME NEW p \in Proposal, ReturnOk(p) PROVE StartInv'
  BY <1>14 DEF ReturnOk, TypeOK, raftVars, nodeVars
<1>15. ASSUME NEW p \in Proposal, ReturnError(p) PROVE StartInv'
  BY <1>15 DEF ReturnError, TypeOK, raftVars, nodeVars
<1>16. ASSUME NEW i \in Instance, Update(i) PROVE StartInv'
  BY <1>16 DEF Update, callVars
<1>17. ASSUME NEW i \in Instance, NEW n \in SnapshotAt, RecoverFromSnapshot(i, n)
       PROVE  StartInv'
  BY <1>17 DEF RecoverFromSnapshot, nodeVars, callVars
<1>18. ASSUME NEW i \in Instance, NEW p \in Proposal, CloseStream(i, p) PROVE StartInv'
  BY <1>18 DEF CloseStream, raftVars, callVars
<1>19. ASSUME UNCHANGED vars PROVE StartInv'
  BY <1>19 DEF vars, raftVars, nodeVars, callVars
<1> QED
  BY <1>1, <1>2, <1>3, <1>4, <1>5, <1>6, <1>7, <1>8, <1>9, <1>10, <1>11, <1>12, <1>13,
     <1>14, <1>15, <1>16, <1>17, <1>18, <1>19 DEF Next

(* Every variable of the proposal path keeps its type; no call and no event   *)
(* handler works on an instance that newStateMachine has not created.         *)
THEOREM TypeCorrect == Spec => [](TypeOK /\ StartInv)
  BY TypeInit, TypeStep, StartStep, PTL DEF Spec

----------------------------------------------------------------------------
(* The routing of outputs.                                                 *)

\* An empty context, with no calls and no outputs, satisfies the invariant.
LEMMA RoutingInit == Init => RoutingInv
<1> SUFFICES ASSUME Init PROVE RoutingInv OBVIOUS
<1>1. \A p \in Proposal : ~Numbered(p) /\ ~Submitted(p) /\ pc[p] = "idle"
  BY DEF Init, Numbered, Submitted, NoTag
<1>2. \A p \in Proposal : inst[p] \notin Instance
  BY ProposalsAssumption, InstanceFields DEF Init, NoInstance, Instance
<1>3. CallInv /\ UniqueTags /\ PresentInv
  BY <1>1 DEF Init, CallInv, UniqueTags, PresentInv
<1>4. StreamsInv /\ OutputsInv /\ AnsweredInv /\ StreamsReleased
  BY <1>1 DEF Init, StreamsInv, OutputsInv, AnsweredInv, StreamsReleased
<1>5. InstanceInv
  BY <1>2 DEF Init, InstanceInv
<1> QED BY <1>3, <1>4, <1>5 DEF RoutingInv

\* Two calls that share the tag they were given share nothing else, unless one
\* of the two has a stale tag.
LEMMA SharedTag ==
  ASSUME UniqueTags, NEW p \in Proposal, NEW q \in Proposal,
         Numbered(p), tag[p] = tag[q], inst[p] = inst[q]
  PROVE  p = q
BY DEF UniqueTags

\* Steps of Raft and of the event listener leave the routing alone.
LEMMA RoutingFrame ==
  ASSUME RoutingInv,
         UNCHANGED <<log, starts, partition, sequenceNum, streams, held, callVars, outputs>>
  PROVE  RoutingInv'
BY DEF RoutingInv, CallInv, UniqueTags, StreamsInv, OutputsInv, InstanceInv, PresentInv,
       AnsweredInv, StreamsReleased, Numbered, Submitted, Applied, Current, callVars

\* Addition of a new stream under the next sequence number disturbs no other.
LEMMA WithoutNext ==
  ASSUME TypeOK, CallInv, StreamsInv, NEW i \in Instance, NEW t
  PROVE  Without(i, [term |-> t, sequenceNum |-> NextSequenceNum(i)]) = streams[i]
<1> DEFINE id == [term |-> t, sequenceNum |-> NextSequenceNum(i)]
<1> SUFFICES ASSUME NEW p \in streams[i] PROVE p \in Proposal /\ tag[p] # id
  BY DEF Without, TypeOK
<1>1. p \in Proposal /\ inst[p] = i /\ Numbered(p)
  BY DEF TypeOK, StreamsInv
<1>2. tag[p].sequenceNum <= sequenceNum[i]
  BY <1>1 DEF CallInv
<1>3. sequenceNum[i] \in Nat /\ tag[p].sequenceNum \in Nat
  BY <1>1 DEF TypeOK, StreamID
<1>4. tag[p].sequenceNum # id.sequenceNum
  BY <1>2, <1>3 DEF NextSequenceNum
<1> QED BY <1>1, <1>4

\* newStateMachine creates an instance that no call belongs to yet.
LEMMA RoutingStart ==
  ASSUME TypeOK, RoutingInv, NEW m \in Member, StartCluster(m)
  PROVE  RoutingInv'
<1> USE DEF RoutingInv
<1>1. UNCHANGED <<log, sequenceNum, streams, held, pc, inst, tag, via, outputs>>
  BY DEF StartCluster, callVars
<1>2. CallInv' /\ UniqueTags' /\ StreamsInv' /\ OutputsInv' /\ AnsweredInv' /\ StreamsReleased'
  BY <1>1 DEF CallInv, UniqueTags, StreamsInv, OutputsInv, AnsweredInv, StreamsReleased,
              Numbered, Submitted, Applied
<1>3. \A n \in Member :
        /\ starts[n] \in Nat /\ partition[n] \in Nat
        /\ starts'[n] = IF n = m THEN starts[m] + 1 ELSE starts[n]
        /\ partition'[n] = IF n = m THEN starts[m] + 1 ELSE partition[n]
  BY ProposalsAssumption DEF StartCluster, TypeOK
<1>4. InstanceInv'
  <2>1. ASSUME NEW p \in Proposal, inst[p] \in Instance
        PROVE  inst[p][2] <= starts'[inst[p][1]]
    <3>1. inst[p][1] \in Member /\ inst[p][2] \in Nat /\ inst[p][2] <= starts[inst[p][1]]
      BY <2>1, InstanceFields DEF InstanceInv
    <3> QED BY <3>1, <1>3
  <2> QED BY <2>1, <1>1, <1>3 DEF InstanceInv
<1>5. PresentInv'
  <2> SUFFICES ASSUME NEW p \in Proposal, Numbered(p), inst[p] = Current(inst[p][1])'
               PROVE  \/ p \in streams[inst[p]]
                      \/ \E o \in outputs : o.at = inst[p] /\ o.to = p
    BY <1>1 DEF PresentInv, Numbered, Current
  <2>1. inst[p] \in Instance
    BY DEF CallInv
  <2>2. inst[p][1] \in Member /\ inst[p][2] \in Nat /\ inst[p][2] <= starts[inst[p][1]]
    BY <2>1, InstanceFields DEF InstanceInv
  <2>3. inst[p][2] = partition'[inst[p][1]]
    BY <1>1 DEF Current
  <2>4. inst[p][1] # m
    BY <2>2, <2>3, <1>3
  <2>5. inst[p] = Current(inst[p][1])
    BY <2>2, <2>4, <1>1, <1>3 DEF Current
  <2> QED BY <2>5 DEF PresentInv
<1> QED BY <1>2, <1>4, <1>5

\* A crash takes the member's calls and streams away together.
LEMMA RoutingCrash ==
  ASSUME TypeOK, RoutingInv, NEW m \in Member, Crash(m)
  PROVE  RoutingInv'
<1> USE DEF RoutingInv
<1>1. UNCHANGED <<log, starts, sequenceNum, inst, tag, via, outputs>>
  BY DEF Crash
<1>2. \A i \in Instance :
        /\ streams'[i] = IF i[1] = m THEN {} ELSE streams[i]
        /\ held'[i] = IF i[1] = m THEN {} ELSE held[i]
  BY DEF Crash
<1>3. \A p \in Proposal :
        pc'[p] = IF inst[p][1] = m /\ pc[p] \in InCall THEN "dead" ELSE pc[p]
  BY DEF Crash
<1>4. \A n \in Member : partition'[n] = IF n = m THEN 0 ELSE partition[n]
  BY DEF Crash, TypeOK
<1>5. CallInv' /\ UniqueTags' /\ OutputsInv' /\ AnsweredInv'
  BY <1>1, <1>3 DEF CallInv, UniqueTags, OutputsInv, AnsweredInv, Numbered, Submitted, Applied
<1>6. StreamsInv'
  BY <1>1, <1>2 DEF StreamsInv, Numbered
<1>7. InstanceInv'
  <2>1. \A n \in Member : starts[n] \in Nat
    BY ProposalsAssumption DEF TypeOK
  <2> QED BY <2>1, <1>1, <1>4 DEF InstanceInv
<1>8. PresentInv'
  <2> SUFFICES ASSUME NEW p \in Proposal, Numbered(p), inst[p] = Current(inst[p][1])'
               PROVE  \/ p \in streams'[inst[p]]
                      \/ \E o \in outputs : o.at = inst[p] /\ o.to = p
    BY <1>1 DEF PresentInv, Numbered, Current
  <2>1. inst[p] \in Instance
    BY DEF CallInv
  <2>2. inst[p][1] \in Member /\ inst[p][2] \in 1..MaxStarts
    BY <2>1, InstanceFields
  <2>3. inst[p][2] = partition'[inst[p][1]]
    BY <1>1 DEF Current
  <2>4. inst[p][1] # m
    BY <2>2, <2>3, <1>4
  <2>5. inst[p] = Current(inst[p][1])
    BY <2>2, <2>4, <1>1, <1>4 DEF Current
  <2> QED BY <2>1, <2>4, <2>5, <1>2 DEF PresentInv
<1>9. StreamsReleased'
  <2> SUFFICES ASSUME NEW o \in outputs, o.to \in Proposal, o.to \in streams'[o.at]
               PROVE  o.to \in held'[o.at]
    BY <1>1 DEF StreamsReleased
  <2>1. o.at \in Instance
    BY DEF TypeOK
  <2> QED BY <2>1, <1>2 DEF StreamsReleased
<1> QED BY <1>5, <1>6, <1>7, <1>8, <1>9

\* Steps of a call that move its pc but give it no number, or that change the pc
\* of a call that has one.
LEMMA RoutingCall ==
  ASSUME TypeOK, RoutingInv, NEW p \in Proposal,
         UNCHANGED <<raftVars, nodeVars, outputs>>,
         \/ \E m \in Member : GetTerm(p, m)
         \/ GetLeader(p)
         \/ Refuse(p)
         \/ SyncPropose(p)
         \/ ReturnOk(p)
         \/ ReturnError(p)
  PROVE  RoutingInv'
<1> USE DEF RoutingInv
<1>1. UNCHANGED <<log, starts, partition, sequenceNum, streams, held, outputs>>
  BY DEF raftVars, nodeVars
<1>2. \A q \in Proposal \ {p} :
        pc'[q] = pc[q] /\ inst'[q] = inst[q] /\ tag'[q] = tag[q] /\ via'[q] = via[q]
  BY DEF GetTerm, GetLeader, Refuse, SyncPropose, ReturnOk, ReturnError, TypeOK
<1>3. tag'[p].sequenceNum = tag[p].sequenceNum
  <2>1. ASSUME Refuse(p) PROVE tag'[p].sequenceNum = tag[p].sequenceNum
    BY <2>1 DEF Refuse, CallInv, Numbered, NoTag, TypeOK
  <2>2. ASSUME NEW m \in Member, GetTerm(p, m) PROVE tag'[p].sequenceNum = tag[p].sequenceNum
    BY <2>2 DEF GetTerm, TypeOK, StreamID
  <2> QED BY <2>1, <2>2 DEF GetLeader, SyncPropose, ReturnOk, ReturnError
<1>4. Numbered(p) => UNCHANGED <<inst, tag>>
  BY DEF GetTerm, GetLeader, Refuse, SyncPropose, ReturnOk, ReturnError, CallInv
<1>5. Submitted(p) => Submitted(p)'
  <2>1. ASSUME SyncPropose(p) PROVE via'[p] # NoInstance
    <3>1. inst[p][1] \in Member
      BY <2>1, InstanceFields DEF SyncPropose, CallInv
    <3> QED BY <2>1, <3>1, ProposalsAssumption DEF SyncPropose, Current, NoInstance, TypeOK
  <2> QED BY <2>1 DEF GetTerm, GetLeader, Refuse, ReturnOk, ReturnError, Submitted
<1>6. /\ Numbered(p)' <=> Numbered(p)
      /\ Submitted(p)' => Numbered(p)
      /\ pc'[p] \in {"idle", "loaded", "checked"} => ~Numbered(p)
      /\ pc'[p] \in {"added", "waiting", "ok", "failed"} => Numbered(p)
  BY <1>3 DEF GetTerm, GetLeader, Refuse, SyncPropose, ReturnOk, ReturnError, CallInv,
              Numbered, Submitted, TypeOK
<1>7. CallInv'
  <2>1. ASSUME NEW q \in Proposal \ {p}
        PROVE  /\ Numbered(q)' <=> Numbered(q)
               /\ Submitted(q)' <=> Submitted(q)
    BY <1>2 DEF Numbered, Submitted
  <2>2. \A q \in Proposal : Submitted(q) => Submitted(q)'
    BY <1>5, <2>1
  <2>3. \A k \in DOMAIN log' : Submitted(log[k])'
    BY <1>1, <2>2 DEF CallInv, TypeOK
  <2>4. Numbered(p)' => /\ inst'[p] \in Instance
                        /\ tag'[p].sequenceNum <= sequenceNum'[inst'[p]]
    BY <1>1, <1>4, <1>6 DEF CallInv
  <2> QED BY <1>1, <1>2, <1>6, <2>1, <2>3, <2>4 DEF CallInv
<1>8. \A q \in Proposal : /\ Numbered(q)' <=> Numbered(q)
                          /\ Numbered(q) => tag'[q] = tag[q] /\ inst'[q] = inst[q]
  BY <1>2, <1>4, <1>6 DEF Numbered
<1>9. UniqueTags'
  BY <1>8 DEF UniqueTags, Numbered
<1>10. StreamsInv'
  BY <1>1, <1>8 DEF StreamsInv, TypeOK
<1>11. OutputsInv'
  <2> SUFFICES ASSUME NEW o \in outputs
               PROVE  /\ Numbered(o.entry)'
                      /\ o.to \in Proposal => /\ inst'[o.to] = o.at
                                             /\ tag'[o.to] = tag'[o.entry]
    BY <1>1 DEF OutputsInv
  <2>1. o.entry \in Proposal /\ Numbered(o.entry)
    BY DEF TypeOK, OutputsInv
  <2>2. o.to \in Proposal => inst[o.to] = o.at /\ tag[o.to] = tag[o.entry] /\ Numbered(o.to)
    BY <2>1 DEF OutputsInv, Numbered
  <2> QED BY <2>1, <2>2, <1>8
<1>12. InstanceInv'
  <2>1. ASSUME NEW m \in Member, GetTerm(p, m), inst'[p] \in Instance
        PROVE  inst'[p][2] <= starts[inst'[p][1]]
    BY <2>1 DEF GetTerm, Current, TypeOK, InstanceInv
  <2>2. ASSUME Refuse(p) PROVE inst'[p] \notin Instance
    <3>1. NoInstance \notin Instance
      BY InstanceFields, ProposalsAssumption DEF NoInstance, Instance
    <3> QED BY <2>2, <3>1 DEF Refuse, TypeOK
  <2>3. inst'[p] \in Instance => inst'[p][2] <= starts[inst'[p][1]]
    BY <2>1, <2>2 DEF GetLeader, SyncPropose, ReturnOk, ReturnError, InstanceInv
  <2> QED BY <1>1, <1>2, <2>3 DEF InstanceInv
<1>13. PresentInv'
  BY <1>1, <1>8 DEF PresentInv, Current
<1>14. AnsweredInv'
  <2>1. \A o \in outputs : o.entry \in Proposal /\ Numbered(o.entry)
    BY DEF TypeOK, OutputsInv
  <2>2. ASSUME pc'[p] = "ok" PROVE Applied(p)'
    BY <2>2, <1>1 DEF GetTerm, GetLeader, Refuse, SyncPropose, ReturnOk, ReturnError, TypeOK,
                      AnsweredInv, Applied
  <2>3. \A q \in Proposal \ {p} : Applied(q)' <=> Applied(q)
    BY <1>1, <1>2 DEF Applied
  <2> QED BY <1>1, <1>2, <1>8, <2>1, <2>2, <2>3 DEF AnsweredInv
<1>15. StreamsReleased'
  BY <1>1 DEF StreamsReleased
<1> QED BY <1>7, <1>9, <1>10, <1>11, <1>12, <1>13, <1>14, <1>15

\* A command reaches the log only with the tag addStream gave it.
LEMMA RoutingCommit ==
  ASSUME TypeOK, RoutingInv, NEW p \in Proposal, Commit(p)
  PROVE  RoutingInv'
<1> USE DEF RoutingInv
<1>1. UNCHANGED <<starts, partition, sequenceNum, streams, held, pc, inst, tag, via, outputs>>
  BY DEF Commit, nodeVars, callVars
<1>2. CallInv'
  <2>1. ASSUME NEW k \in DOMAIN log' PROVE Submitted(log'[k])
    BY DEF Commit, CallInv, TypeOK
  <2> QED BY <1>1, <2>1 DEF CallInv, Numbered, Submitted
<1> QED
  BY <1>1, <1>2 DEF UniqueTags, StreamsInv, OutputsInv, InstanceInv, PresentInv, AnsweredInv,
                    StreamsReleased, Numbered, Applied, Current

\* addStream gives the call a number that no other call of its context has.
LEMMA RoutingAddStream ==
  ASSUME TypeOK, StartInv, RoutingInv, NEW p \in Proposal, AddStream(p)
  PROVE  RoutingInv'
<1> USE DEF RoutingInv
<1> DEFINE i  == inst[p]
           id == [term |-> tag[p].term, sequenceNum |-> NextSequenceNum(i)]
<1>1. UNCHANGED <<log, starts, partition, held, inst, via, outputs>>
  BY DEF AddStream, raftVars
<1>2. i \in Instance /\ ~Numbered(p) /\ pc[p] = "checked"
  BY DEF AddStream, StartInv, CallInv
<1>3. sequenceNum[i] \in Nat /\ id.sequenceNum = sequenceNum[i] + 1
  BY <1>2 DEF TypeOK, NextSequenceNum
<1>4. \A j \in Instance :
        /\ sequenceNum'[j] = IF j = i THEN id.sequenceNum ELSE sequenceNum[j]
        /\ streams'[j] = IF j = i THEN streams[i] \cup {p} ELSE streams[j]
  BY <1>2, WithoutNext DEF AddStream, TypeOK
<1>5. \A q \in Proposal : /\ tag'[q] = IF q = p THEN id ELSE tag[q]
                          /\ pc'[q] = IF q = p THEN "added" ELSE pc[q]
  BY DEF AddStream, TypeOK
<1>6. \A q \in Proposal : Numbered(q)' <=> q = p \/ Numbered(q)
  BY <1>3, <1>5 DEF Numbered
<1>7. CallInv'
  <2>1. ASSUME NEW q \in Proposal, Numbered(q)'
        PROVE  inst[q] \in Instance /\ tag'[q].sequenceNum <= sequenceNum'[inst[q]]
    <3>1. CASE q = p
      BY <3>1, <1>2, <1>3, <1>4, <1>5
    <3>2. CASE q # p
      <4>1. inst[q] \in Instance /\ tag[q].sequenceNum <= sequenceNum[inst[q]]
        BY <2>1, <3>2, <1>6 DEF CallInv
      <4>2. tag[q].sequenceNum \in Nat
        BY DEF TypeOK, StreamID
      <4> QED BY <3>2, <4>1, <4>2, <1>3, <1>4, <1>5
    <3> QED BY <3>1, <3>2
  <2> QED BY <2>1, <1>1, <1>5, <1>6 DEF CallInv, Submitted
<1>8. UniqueTags'
  <2>1. ASSUME NEW q \in Proposal, q # p, inst[q] = i, Numbered(q)
        PROVE  tag[q].sequenceNum # id.sequenceNum
    <3>1. tag[q].sequenceNum <= sequenceNum[i] /\ tag[q].sequenceNum \in Nat
      BY <2>1 DEF CallInv, TypeOK, StreamID
    <3> QED BY <3>1, <1>3
  <2>2. id.sequenceNum # 0
    BY <1>3
  <2> QED BY <2>1, <2>2, <1>1, <1>5, <1>6 DEF UniqueTags, Numbered
<1>9. StreamsInv'
  <2>1. ASSUME NEW j \in Instance, NEW q \in streams'[j] \cup held[j]
        PROVE  inst[q] = j /\ Numbered(q)'
    <3>1. q \in Proposal /\ ((q = p /\ j = i) \/ q \in streams[j] \cup held[j])
      BY <2>1, <1>2, <1>4 DEF TypeOK
    <3>2. CASE q = p /\ j = i
      BY <3>2, <1>6
    <3>3. CASE q \in streams[j] \cup held[j]
      BY <3>1, <3>3, <1>6 DEF StreamsInv
    <3> QED BY <3>1, <3>2, <3>3
  <2> QED BY <2>1, <1>1 DEF StreamsInv
<1>10. OutputsInv'
  <2> SUFFICES ASSUME NEW o \in outputs
               PROVE  /\ Numbered(o.entry)'
                      /\ o.to \in Proposal => /\ inst[o.to] = o.at
                                             /\ tag'[o.to] = tag'[o.entry]
    BY <1>1 DEF OutputsInv
  <2>1. o.entry \in Proposal /\ Numbered(o.entry)
    BY DEF TypeOK, OutputsInv
  <2>2. o.to \in Proposal => inst[o.to] = o.at /\ tag[o.to] = tag[o.entry] /\ Numbered(o.to)
    BY <2>1 DEF OutputsInv, Numbered
  <2> QED BY <2>1, <2>2, <1>2, <1>5, <1>6
<1>11. InstanceInv'
  BY <1>1 DEF InstanceInv
<1>12. PresentInv'
  <2> SUFFICES ASSUME NEW q \in Proposal, q = p \/ Numbered(q), inst[q] = Current(inst[q][1])
               PROVE  \/ q \in streams'[inst[q]]
                      \/ \E o \in outputs : o.at = inst[q] /\ o.to = q
    BY <1>1, <1>6 DEF PresentInv, Current
  <2>1. CASE q = p
    BY <2>1, <1>2, <1>4
  <2>2. CASE q # p
    <3>1. inst[q] \in Instance
      BY <2>2 DEF CallInv
    <3> QED BY <2>2, <3>1, <1>4 DEF PresentInv
  <2> QED BY <2>1, <2>2
<1>13. AnsweredInv'
  BY <1>1, <1>5 DEF AnsweredInv, Applied
<1>14. StreamsReleased'
  <2>1. ASSUME NEW o \in outputs, o.to \in Proposal, o.to \in streams'[o.at]
        PROVE  o.to \in streams[o.at]
    <3>1. Numbered(o.to) /\ o.at \in Instance
      BY <2>1 DEF OutputsInv, TypeOK, Numbered
    <3> QED BY <2>1, <3>1, <1>2, <1>4
  <2> QED BY <2>1, <1>1 DEF StreamsReleased
<1> QED
  BY <1>7, <1>8, <1>9, <1>10, <1>11, <1>12, <1>13, <1>14

\* Update hands outputs to a stream whose tag is the command's, and a command
\* executed on its call's own instance finds that call's stream or found it before.
LEMMA RoutingUpdate ==
  ASSUME TypeOK, RoutingInv, NEW i \in Instance, Update(i)
  PROVE  RoutingInv'
<1> USE DEF RoutingInv
<1> DEFINE q == log[applied[i] + 1]
           found == GetStream(i, tag[q])
<1>1. UNCHANGED <<log, starts, partition, sequenceNum, streams, pc, inst, tag, via>>
  BY DEF Update, callVars
<1>2. q \in Proposal /\ Numbered(q)
  BY DEF Update, TypeOK, CallInv
<1>3. \A p \in found : p \in Proposal /\ p \in streams[i] /\ inst[p] = i /\ tag[p] = tag[q] /\ Numbered(p)
  BY DEF GetStream, TypeOK, StreamsInv
<1>4. i = Current(i[1])
  BY DEF Update, Live
<1>5. \E to \in Proposal \cup {NoProposal} :
        /\ outputs' = outputs \cup {[at |-> i, entry |-> q, to |-> to]}
        /\ to = NoProposal => found = {} /\ held' = held
        /\ to # NoProposal => /\ to \in found
                              /\ held' = [held EXCEPT ![i] = @ \cup {to}]
  <2>1. NoProposal \notin found
    BY <1>3, ProposalsAssumption
  <2> QED BY <1>3, <2>1 DEF Update
<1>6. PICK to \in Proposal \cup {NoProposal} :
        /\ outputs' = outputs \cup {[at |-> i, entry |-> q, to |-> to]}
        /\ to = NoProposal => found = {} /\ held' = held
        /\ to # NoProposal => /\ to \in found
                              /\ held' = [held EXCEPT ![i] = @ \cup {to}]
  BY <1>5
<1> DEFINE new == [at |-> i, entry |-> q, to |-> to]
<1>7. new \in outputs' /\ new.at = i /\ new.entry = q /\ new.to = to
  BY <1>6
<1>8. to \in Proposal => to \in found
  BY <1>6, ProposalsAssumption
<1>9. \A j \in Instance : /\ held[j] \subseteq held'[j]
                          /\ held'[j] \subseteq held[j] \cup (IF j = i /\ to \in found THEN {to} ELSE {})
                          /\ to \in found => to \in held'[i]
  BY <1>6, <1>3, ProposalsAssumption DEF TypeOK
<1>10. CallInv' /\ UniqueTags' /\ InstanceInv'
  BY <1>1 DEF CallInv, UniqueTags, InstanceInv, Numbered, Submitted
<1>11. StreamsInv'
  <2>1. ASSUME NEW j \in Instance, NEW p \in streams'[j] \cup held'[j]
        PROVE  inst[p] = j /\ Numbered(p)
    BY <2>1, <1>1, <1>3, <1>9 DEF StreamsInv
  <2>2. ASSUME NEW j \in Instance, NEW p \in held'[j]
        PROVE  \E o \in outputs' : o.at = j /\ o.to = p
    <3>1. CASE p \in held[j]
      BY <3>1, <1>6 DEF StreamsInv
    <3>2. CASE p \notin held[j]
      <4>1. j = i /\ p = to
        BY <3>2, <2>2, <1>9
      <4> QED BY <4>1, <1>7
    <3> QED BY <3>1, <3>2
  <2> QED BY <2>1, <2>2, <1>1 DEF StreamsInv, Numbered
<1>12. OutputsInv'
  <2>1. to \in Proposal => inst[to] = i /\ tag[to] = tag[q]
    BY <1>3, <1>8
  <2> QED BY <2>1, <1>1, <1>2, <1>6 DEF OutputsInv, Numbered
<1>13. PresentInv'
  BY <1>1, <1>6 DEF PresentInv, Numbered, Current
<1>14. AnsweredInv'
  <2>1. inst[q] = i => \E a \in outputs' : a.at = i /\ a.to = q
    <3> SUFFICES ASSUME inst[q] = i PROVE \E a \in outputs' : a.at = i /\ a.to = q
      OBVIOUS
    <3>1. CASE q \in streams[i]
      <4>1. q \in found
        BY <3>1 DEF GetStream
      <4>2. to \in found
        BY <4>1, <1>6
      <4>3. to = q
        BY <4>2, <1>2, <1>3, SharedTag
      <4> QED BY <4>3, <1>7
    <3>2. CASE q \notin streams[i]
      BY <3>2, <1>2, <1>4, <1>6 DEF PresentInv
    <3> QED BY <3>1, <3>2
  <2>2. \A p \in Proposal : pc'[p] = "ok" => Applied(p)'
    BY <1>1, <1>6 DEF AnsweredInv, Applied
  <2> QED BY <2>1, <2>2, <1>1, <1>6 DEF AnsweredInv
<1>15. StreamsReleased'
  <2>1. ASSUME NEW o \in outputs', o.to \in Proposal, o.to \in streams[o.at]
        PROVE  o.to \in held'[o.at]
    <3>1. CASE o = new
      BY <2>1, <3>1, <1>8, <1>9
    <3>2. CASE o # new
      <4>1. o \in outputs /\ o.at \in Instance
        BY <3>2, <1>6 DEF TypeOK
      <4> QED BY <2>1, <4>1, <1>9 DEF StreamsReleased
    <3> QED BY <3>1, <3>2
  <2> QED BY <2>1, <1>1 DEF StreamsReleased
<1> QED
  BY <1>10, <1>11, <1>12, <1>13, <1>14, <1>15

\* The closer removes the entry of the stream it closes and no other.
LEMMA RoutingCloseStream ==
  ASSUME TypeOK, RoutingInv, NEW i \in Instance, NEW p \in Proposal, CloseStream(i, p)
  PROVE  RoutingInv'
<1> USE DEF RoutingInv
<1>1. UNCHANGED <<log, starts, partition, sequenceNum, pc, inst, tag, via, outputs>>
  BY DEF CloseStream, raftVars, callVars
<1>2. p \in held[i] /\ inst[p] = i /\ Numbered(p)
  BY DEF CloseStream, StreamsInv
<1>3. Without(i, tag[p]) = streams[i] \ {p}
  <2>1. ASSUME NEW q \in streams[i], tag[q] = tag[p] PROVE q = p
    <3>1. q \in Proposal /\ inst[q] = i
      BY DEF TypeOK, StreamsInv
    <3> QED BY <2>1, <3>1, <1>2, SharedTag
  <2>2. streams[i] \subseteq Proposal
    BY DEF TypeOK
  <2> QED BY <2>1, <2>2 DEF Without
<1>4. \A j \in Instance :
        /\ streams'[j] = IF j = i THEN streams[i] \ {p} ELSE streams[j]
        /\ held'[j] = IF j = i THEN held[i] \ {p} ELSE held[j]
  BY <1>3 DEF CloseStream, TypeOK
<1>5. CallInv' /\ UniqueTags' /\ InstanceInv' /\ OutputsInv' /\ AnsweredInv'
  BY <1>1, <1>4 DEF CallInv, UniqueTags, InstanceInv, OutputsInv, AnsweredInv, Numbered,
                    Submitted, Applied
<1>6. StreamsInv'
  BY <1>1, <1>4 DEF StreamsInv, Numbered
<1>7. PresentInv'
  <2> SUFFICES ASSUME NEW q \in Proposal, Numbered(q), inst[q] = Current(inst[q][1])
               PROVE  \/ q \in streams'[inst[q]]
                      \/ \E o \in outputs : o.at = inst[q] /\ o.to = q
    BY <1>1 DEF PresentInv, Numbered, Current
  <2>1. CASE q = p
    BY <2>1, <1>2 DEF StreamsInv
  <2>2. CASE q # p
    <3>1. inst[q] \in Instance
      BY DEF CallInv
    <3> QED BY <2>2, <3>1, <1>4 DEF PresentInv
  <2> QED BY <2>1, <2>2
<1>8. StreamsReleased'
  BY <1>1, <1>4 DEF StreamsReleased, TypeOK
<1> QED BY <1>5, <1>6, <1>7, <1>8

\* Every step preserves the routing invariant.
LEMMA RoutingStep == TypeOK /\ StartInv /\ RoutingInv /\ [Next]_vars => RoutingInv'
<1> SUFFICES ASSUME TypeOK, StartInv, RoutingInv, [Next]_vars PROVE RoutingInv' OBVIOUS
<1>1. ASSUME NEW m \in Member, NEW t \in 1..MaxTerm, Elect(m, t) PROVE RoutingInv'
  BY <1>1, RoutingFrame DEF Elect, nodeVars
<1>2. ASSUME NEW m \in Member, NEW t \in 1..MaxTerm, NEW l \in Member \cup {NoMember},
             Observe(m, t, l)
      PROVE RoutingInv'
  BY <1>2, RoutingFrame DEF Observe, nodeVars
<1>3. ASSUME NEW p \in Proposal, Commit(p) PROVE RoutingInv'
  BY <1>3, RoutingCommit
<1>4. ASSUME NEW m \in Member, StartCluster(m) PROVE RoutingInv'
  BY <1>4, RoutingStart
<1>5. ASSUME NEW m \in Member, Leave(m) PROVE RoutingInv'
  BY <1>5, RoutingFrame DEF Leave, nodeVars
<1>6. ASSUME NEW m \in Member, Crash(m) PROVE RoutingInv'
  BY <1>6, RoutingCrash
<1>7. ASSUME NEW m \in Member, SetTerm(m) PROVE RoutingInv'
  BY <1>7, RoutingFrame DEF SetTerm
<1>8. ASSUME NEW m \in Member, SetLeader(m) PROVE RoutingInv'
  BY <1>8, RoutingFrame DEF SetLeader, raftVars
<1>9. ASSUME NEW p \in Proposal,
             \/ \E m \in Member : GetTerm(p, m)
             \/ GetLeader(p)
             \/ Refuse(p)
             \/ SyncPropose(p)
             \/ ReturnOk(p)
             \/ ReturnError(p)
      PROVE  RoutingInv'
  <2>1. UNCHANGED <<raftVars, nodeVars, outputs>>
    BY <1>9 DEF GetTerm, GetLeader, Refuse, SyncPropose, ReturnOk, ReturnError
  <2> QED BY <1>9, <2>1, RoutingCall
<1>10. ASSUME NEW p \in Proposal, AddStream(p) PROVE RoutingInv'
  BY <1>10, RoutingAddStream
<1>11. ASSUME NEW i \in Instance, Update(i) PROVE RoutingInv'
  BY <1>11, RoutingUpdate
<1>12. ASSUME NEW i \in Instance, NEW n \in SnapshotAt, RecoverFromSnapshot(i, n)
       PROVE  RoutingInv'
  BY <1>12, RoutingFrame DEF RecoverFromSnapshot, nodeVars
<1>13. ASSUME NEW i \in Instance, NEW p \in Proposal, CloseStream(i, p) PROVE RoutingInv'
  BY <1>13, RoutingCloseStream
<1>14. ASSUME UNCHANGED vars PROVE RoutingInv'
  BY <1>14, RoutingFrame DEF vars, raftVars, nodeVars
<1> QED
  BY <1>1, <1>2, <1>3, <1>4, <1>5, <1>6, <1>7, <1>8, <1>9, <1>10, <1>11, <1>12, <1>13,
     <1>14 DEF Next

\* Every reachable state satisfies the inductive invariant: tags are unique in a
\* context, streams and outputs belong to the instance that holds or made them.
THEOREM IndInvCorrect == Spec => []IndInv
<1>1. Init => IndInv
  BY TypeInit, RoutingInit DEF IndInv
<1>2. IndInv /\ [Next]_vars => IndInv'
  BY TypeStep, StartStep, RoutingStep DEF IndInv
<1> QED BY <1>1, <1>2, PTL DEF Spec

\* Outputs that went to another call's stream went there under a stale tag.
LEMMA IndInvMisdelivery == IndInv => MisdeliveryNeedsStaleTag
<1> SUFFICES ASSUME IndInv, NEW o \in outputs, o.to \notin {o.entry, NoProposal},
                    ~StaleTag(o.entry), ~StaleTag(o.to)
             PROVE  FALSE
  BY DEF MisdeliveryNeedsStaleTag
<1>1. o.entry \in Proposal /\ o.to \in Proposal
  BY DEF IndInv, TypeOK
<1>2. Numbered(o.entry) /\ tag[o.to] = tag[o.entry]
  BY <1>1 DEF IndInv, RoutingInv, OutputsInv
<1>3. inst[o.to] = inst[o.entry]
  BY <1>2 DEF StaleTag
<1> QED BY <1>1, <1>2, <1>3, SharedTag DEF IndInv, RoutingInv

\* A call that returned nil had its outputs on its own stream, or was executed
\* elsewhere, or shares its tag with a call that has a stale one.
LEMMA IndInvAnswered == IndInv => OkMeansAnswered
<1> SUFFICES ASSUME IndInv, NEW p \in Proposal, pc[p] = "ok", via[p] = inst[p],
                    \A q \in Proposal : tag[q] = tag[p] => ~StaleTag(q)
             PROVE  [at |-> inst[p], entry |-> p, to |-> p] \in outputs
  BY DEF OkMeansAnswered
<1>1. PICK o \in outputs : o.at = inst[p] /\ o.entry = p
  BY DEF IndInv, RoutingInv, AnsweredInv, Applied
<1>2. PICK a \in outputs : a.at = inst[p] /\ a.to = p
  BY <1>1 DEF IndInv, RoutingInv, AnsweredInv
<1>3. a \in [at : Instance, entry : Proposal, to : Proposal \cup {NoProposal}]
  BY DEF IndInv, TypeOK
<1>4. tag[a.entry] = tag[p]
  BY <1>2 DEF IndInv, RoutingInv, OutputsInv
<1>5. a.entry = p
  BY <1>2, <1>3, <1>4, IndInvMisdelivery, ProposalsAssumption DEF MisdeliveryNeedsStaleTag
<1> QED BY <1>2, <1>3, <1>5

(* Update hands a command's outputs to the stream of the call that proposed   *)
(* it or to no stream at all, except under a tag whose term its instance did  *)
(* not win: the one hole is Propose's unlocked reading of the (term, leader)  *)
(* pair, or an announcement made to an earlier instance.                      *)
THEOREM MisdeliveryCorrect == Spec => []MisdeliveryNeedsStaleTag
  BY IndInvCorrect, IndInvMisdelivery, PTL

(* A call that Propose reports as done was answered on its own stream, with   *)
(* the same exception, if its group was not restarted under it.               *)
THEOREM AnsweredCorrect == Spec => []OkMeansAnswered
  BY IndInvCorrect, IndInvAnswered, PTL

(* A context drops a stream as soon as the state machine is done with it.     *)
THEOREM ReleasedCorrect == Spec => []StreamsReleased
<1>1. IndInv => StreamsReleased
  BY DEF IndInv, RoutingInv
<1> QED BY <1>1, IndInvCorrect, PTL
=============================================================================
