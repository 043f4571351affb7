------------------------ MODULE GroupBootstrapProofs ------------------------
(***************************************************************************)
(* Proofs about GroupBootstrap, for any sets of specs, pods, groups and      *)
(* members, any number of edits and processes, and any codec that gives a     *)
(* request back.  IInv is the inductive invariant; the properties follow      *)
(* from it, with two facts of arithmetic.                                     *)
(***************************************************************************)
EXTENDS GroupBootstrap, TLAPS

-----------------------------------------------------------------------------
\* Arithmetic

\* Numbers less than the modulus apart have different remainders.
LEMMA RemaindersApart ==
  ASSUME NEW a \in Nat, NEW b \in Nat, NEW r \in Nat \ {0}, a < b, b < a + r
  PROVE a % r # b % r
<1> SUFFICES ASSUME a % r = b % r PROVE FALSE
    OBVIOUS
<1> DEFINE p == a \div r
           q == b \div r
<1>1. p \in Nat /\ q \in Nat /\ a % r \in 0..(r - 1)
      OBVIOUS
<1>2. a = r * p + (a % r) /\ b = r * q + (b % r)
      OBVIOUS
<1>3. b - a = r * (q - p)
      BY <1>1, <1>2
<1> HIDE DEF p, q
<1>4. ASSUME NEW k \in Int PROVE (k >= 1 => r * k >= r) /\ (k <= 0 => r * k <= 0)
  <2>1. CASE k >= 1
    <3>1. PICK n \in Nat : k = n + 1
          BY <2>1
    <3>2. r * k = r * n + r /\ r * n >= 0
          BY <3>1
    <3> QED
        BY <2>1, <3>2
  <2>2. CASE k <= 0
    <3>1. -k \in Nat /\ k = -(-k)
          BY <2>2
    <3>. PICK n \in Nat : k = -n
         BY <3>1
    <3>2. r * k = -(r * n) /\ r * n >= 0
          OBVIOUS
    <3> QED
        BY <2>2, <3>2
  <2> QED
      BY <2>1, <2>2
<1>5. q - p \in Int /\ (q - p >= 1 \/ q - p <= 0)
      BY <1>1
<1>6. b - a > 0 /\ b - a < r
      OBVIOUS
<1> QED
    BY <1>3, <1>4, <1>5, <1>6

\* A quotient, multiplied again, falls short by less than the divisor.
LEMMA QuotientKept ==
  ASSUME NEW t \in Nat, NEW r \in Nat \ {0}
  PROVE /\ t \div r \in Nat
        /\ (t \div r) * r <= t
        /\ t < (t \div r) * r + r
<1> DEFINE n == t \div r
           m == t % r
<1>1. n \in Nat /\ m \in Nat /\ m < r
      OBVIOUS
<1>2. t = r * n + m
      OBVIOUS
<1> HIDE DEF n, m
<1>3. n * r \in Nat /\ t = n * r + m
      BY <1>1, <1>2
<1>4. n \in Nat /\ n * r <= t /\ t < n * r + r
      BY <1>1, <1>3
<1> QED
    BY <1>4 DEF n

-----------------------------------------------------------------------------
\* Placement

LEMMA SpecFacts ==
  ASSUME NEW s \in Specs
  PROVE /\ s \in ClusterSpec /\ s # Nil
        /\ getNumReplicas(s) \in Nat \ {0}
        /\ getNumMembers(s) \in Nat
        /\ 1..getNumGroups(s) \subseteq Group
        /\ 1..getNumMembers(s) \subseteq MemberId
        /\ 0..(getNumReplicas(s) - 1) \subseteq Pod
<1>1. s \in ClusterSpec
      BY BootstrapAssumption
<1>2. getNumReplicas(s) \in Nat \ {0}
      BY <1>1 DEF ClusterSpec, getNumReplicas
<1>3. getNumVotingMembers(s) \in Nat /\ getNumNonVotingMembers(s) \in Nat
      BY <1>1, <1>2 DEF ClusterSpec, OrNil, getNumVotingMembers, getNumNonVotingMembers
<1>4. getNumMembers(s) \in Nat
      BY <1>3 DEF getNumMembers
<1>5. s # Nil
      BY NilAssumption
<1> QED
    BY <1>1, <1>2, <1>4, <1>5, BootstrapAssumption

\* Every member's pod is one of the StatefulSet that the spec describes.
LEMMA PodOfMember ==
  ASSUME NEW s \in Specs, NEW g \in Group, NEW m \in 1..getNumMembers(s)
  PROVE getPodName(s, g, m) \in Pod
<1> DEFINE R == getNumReplicas(s)
           M == getNumMembers(s)
<1>1. R \in Nat \ {0} /\ M \in Nat /\ g \in Nat /\ 0..(R - 1) \subseteq Pod
      BY SpecFacts, BootstrapAssumption
<1> DEFINE n == (M * g) + (m - 1)
<1> HIDE DEF R
<1>2. n \in Nat
      BY <1>1
<1> HIDE DEF n
<1>3. n % R \in 0..(R - 1)
      BY <1>1, <1>2
<1> QED
    BY <1>1, <1>3 DEF getPodName, n, R

\* Two members of a group have pods of their own, if there are enough of them.
LEMMA PodsApart ==
  ASSUME NEW s \in Specs, NEW g \in Group, MorePlaces(s),
         NEW m1 \in 1..getNumMembers(s), NEW m2 \in 1..getNumMembers(s), m1 < m2
  PROVE getPodName(s, g, m1) # getPodName(s, g, m2)
<1> DEFINE R == getNumReplicas(s)
           M == getNumMembers(s)
           a == (M * g) + (m1 - 1)
           b == (M * g) + (m2 - 1)
<1>1. R \in Nat \ {0} /\ M \in Nat /\ g \in Nat /\ M <= R
      BY SpecFacts, BootstrapAssumption DEF MorePlaces
<1>2. M * g \in Nat
      BY <1>1
<1> HIDE DEF R
<1>3. a \in Nat /\ b \in Nat /\ a < b /\ b < a + R
      BY <1>1, <1>2
<1> HIDE DEF a, b
<1>4. a % R # b % R
      BY <1>1, <1>3, RemaindersApart
<1> QED
    BY <1>4 DEF getPodName, a, b, R

\* The address that a node makes of a member's place in the request.
LEMMA PeerAddresses ==
  ASSUME NEW s \in Specs, NEW g \in Group, NEW m \in MemberId, NEW type \in MemberType
  PROVE LET group == groupConfig(s, g, m, type)
        IN /\ initialMembers(group) =
                [i \in 1..getNumMembers(s) |->
                   [host |-> getPodDNSName(getPodName(s, g, i)), port |-> protocolPort]]
           /\ group.GroupID = g /\ group.MemberID = m
<1> DEFINE group == groupConfig(s, g, m, type)
           M == getNumMembers(s)
<1>1. M \in Nat
      BY SpecFacts
<1>2. group.Members = [i \in 1..M |->
        [MemberID |-> i, Host |-> getPodDNSName(getPodName(s, g, i)), Port |-> protocolPort]]
      BY DEF groupConfig, memberConfigs
<1>3. group.GroupID = g /\ group.MemberID = m
      BY DEF groupConfig
<1> HIDE DEF group, M
<1>4. DOMAIN group.Members = 1..M
      BY <1>2
<1>5. \A i \in 1..M : group.Members[i].MemberID = i
      BY <1>2
<1>6. {group.Members[i].MemberID : i \in DOMAIN group.Members} = 1..M
      BY <1>4, <1>5
<1>7. ASSUME NEW id \in 1..M
      PROVE Target(group, id) = [host |-> getPodDNSName(getPodName(s, g, id)), port |-> protocolPort]
  <2> DEFINE entries == {i \in DOMAIN group.Members : group.Members[i].MemberID = id}
             last == CHOOSE i \in entries : \A j \in entries : j <= i
  <2>1. entries = {id}
        BY <1>4, <1>5
  <2>2. id <= id
        BY <1>1
  <2>3. last = id
        BY <2>1, <2>2
  <2>4. group.Members[id] = [MemberID |-> id, Host |-> getPodDNSName(getPodName(s, g, id)), Port |-> protocolPort]
        BY <1>2
  <2>5. Target(group, id) = [host |-> group.Members[last].Host, port |-> group.Members[last].Port]
        BY DEF Target
  <2> HIDE DEF entries, last
  <2> QED
      BY <2>3, <2>4, <2>5
<1> QED
    BY <1>3, <1>6, <1>7 DEF initialMembers, group, M

\* The election timeout in heartbeats, where there is no division by zero.
LEMMA TimeoutInHeartbeats ==
  ASSUME NEW c \in Specs, ~DividesByZero(c)
  PROVE /\ electionRTT(c) \in Nat
        /\ c.electionTimeout # Nil =>
             /\ electionRTT(c) * RTTMillisecond(c) <= Milliseconds(c.electionTimeout)
             /\ Milliseconds(c.electionTimeout) < electionRTT(c) * RTTMillisecond(c) + RTTMillisecond(c)
<1>1. c \in ClusterSpec
      BY SpecFacts
<1>2. GetHeartbeatPeriod(c) \in Nat
      BY <1>1 DEF ClusterSpec, OrNil, GetHeartbeatPeriod, defaultHeartbeatPeriod
<1>3. 1000 \in Nat \ {0}
      OBVIOUS
<1>4. \A d \in Nat : Milliseconds(d) \in Nat
      BY <1>3, QuotientKept DEF Milliseconds
<1>5. RTTMillisecond(c) \in Nat
      BY <1>2, <1>4 DEF RTTMillisecond
<1>6. CASE c.electionTimeout = Nil
      BY <1>6 DEF electionRTT
<1>7. CASE c.electionTimeout # Nil
  <2> DEFINE T == Milliseconds(c.electionTimeout)
             H == RTTMillisecond(c)
  <2>1. T \in Nat
        BY <1>1, <1>4, <1>7 DEF ClusterSpec, OrNil
  <2>2. H \in Nat \ {0}
        BY <1>5, <1>7 DEF DividesByZero
  <2>3. electionRTT(c) = T \div H
        BY <1>7 DEF electionRTT
  <2> HIDE DEF T, H
  <2>4. T \div H \in Nat /\ (T \div H) * H <= T /\ T < (T \div H) * H + H
        BY <2>1, <2>2, QuotientKept
  <2> QED
      BY <2>3, <2>4 DEF T, H
<1> QED
    BY <1>6, <1>7

\* What a node runs for a request is a replica.
LEMMA ReplicaType ==
  ASSUME NEW c \in Specs, ~DividesByZero(c), NEW s \in Specs, NEW g \in Group,
         NEW m \in MemberId, NEW type \in MemberType
  PROVE /\ ReplicaOf(c, s, g, m, type) \in Replica
        /\ ReplicaOf(c, s, g, m, type) # Nil
        /\ ReplicaOf(c, s, g, m, type).spec = s
        /\ ReplicaOf(c, s, g, m, type).raft.NodeID = m
        /\ ReplicaOf(c, s, g, m, type).raft.ElectionRTT = electionRTT(c)
<1> DEFINE group == groupConfig(s, g, m, type)
           M == getNumMembers(s)
           A == [i \in 1..M |-> [host |-> getPodDNSName(getPodName(s, g, i)), port |-> protocolPort]]
<1>1. initialMembers(group) = A /\ group.MemberID = m
      BY PeerAddresses
<1>2. \A i \in 1..M : getPodName(s, g, i) \in Pod
      BY PodOfMember
<1>3. A \in [1..M -> Address]
      BY <1>2 DEF Address
<1>4. electionRTT(c) \in Nat
      BY TimeoutInHeartbeats
<1> HIDE DEF group, A
<1>5. getRaftConfig(c, group) \in [NodeID : MemberId, ElectionRTT : Nat, IsObserver : BOOLEAN, IsWitness : BOOLEAN]
      BY <1>1, <1>4 DEF getRaftConfig
<1>6. ReplicaOf(c, s, g, m, type) = [raft |-> getRaftConfig(c, group), members |-> A, spec |-> s]
      BY <1>1 DEF ReplicaOf, group
<1>7. A \in UNION {[1..getNumMembers(spec) -> Address] : spec \in Specs}
      BY <1>3
<1>8. ReplicaOf(c, s, g, m, type) \in Replica
      BY <1>5, <1>6, <1>7 DEF Replica
<1>9. ReplicaOf(c, s, g, m, type) # Nil
      BY <1>8, NilAssumption
<1>10. getRaftConfig(c, group).NodeID = m /\ getRaftConfig(c, group).ElectionRTT = electionRTT(c)
       BY <1>1 DEF getRaftConfig
<1> QED
    BY <1>6, <1>8, <1>9, <1>10

-----------------------------------------------------------------------------
\* The invariant

LEMMA InitIInv == Init => IInv
<1> SUFFICES ASSUME Init PROVE IInv
    OBVIOUS
<1> USE BootstrapAssumption, NilAssumption
<1>1. TypeOK
      BY DEF Init, TypeOK, OrNil, NoCall
<1>2. ConfigFirst /\ MembersFollow /\ NodesFollow /\ CallFollows
      BY DEF Init, ConfigFirst, MembersFollow, NodesFollow, CallFollows, NoCall
<1> QED
    BY <1>1, <1>2 DEF IInv

\* The reconciler's writes of the configuration and the StatefulSet, a change of
\* the spec, and a call that fails leave every record as it is.
LEMMA ConfigStep ==
  ASSUME IInv, AddConfigMap \/ AddStatefulSet \/ CallFails \/ \E spec \in Specs : Edit(spec)
  PROVE IInv'
<1> USE DEF IInv
<1>1. CASE AddConfigMap
  <2> USE <1>1 DEF AddConfigMap
  <2>1. config' = cluster /\ cluster \in Specs /\ config' # Nil
        BY SpecFacts DEF TypeOK
  <2>2. TypeOK'
        BY <2>1 DEF TypeOK, OrNil
  <2>3. ConfigFirst'
        BY <2>1 DEF ConfigFirst
  <2>4. MembersFollow'
        BY DEF MembersFollow, Recorded
  <2>5. NodesFollow'
        BY DEF NodesFollow
  <2>6. CallFollows'
        BY DEF CallFollows
  <2> QED
      BY <2>2, <2>3, <2>4, <2>5, <2>6
<1>2. CASE AddStatefulSet
  <2> USE <1>2 DEF AddStatefulSet
  <2>1. TypeOK'
        BY SpecFacts DEF TypeOK, OrNil
  <2>2. ConfigFirst' /\ MembersFollow' /\ NodesFollow' /\ CallFollows'
        BY DEF ConfigFirst, MembersFollow, Recorded, NodesFollow, CallFollows
  <2> QED
      BY <2>1, <2>2
<1>3. CASE CallFails
  <2> USE <1>3 DEF CallFails
  <2>1. TypeOK'
        BY DEF TypeOK, NoCall
  <2>2. ConfigFirst' /\ MembersFollow' /\ NodesFollow' /\ CallFollows'
        BY DEF ConfigFirst, MembersFollow, Recorded, NodesFollow, CallFollows, NoCall
  <2> QED
      BY <2>1, <2>2
<1>4. ASSUME NEW spec \in Specs, Edit(spec) PROVE IInv'
  <2> USE <1>4 DEF Edit
  <2>1. edits' \in 0..MaxEdits
        BY BootstrapAssumption DEF TypeOK
  <2>2. TypeOK'
        BY <2>1 DEF TypeOK
  <2>3. ConfigFirst' /\ MembersFollow' /\ NodesFollow' /\ CallFollows'
        BY DEF ConfigFirst, MembersFollow, Recorded, NodesFollow, CallFollows
  <2> QED
      BY <2>2, <2>3
<1> QED
    BY <1>1, <1>2, <1>3, <1>4

\* A member is created on the pod the spec gives it, with no version.
LEMMA CreateMemberStep ==
  ASSUME IInv, NEW g \in Group, NEW m \in MemberId, CreateMember(g, m)
  PROVE IInv'
<1> USE DEF IInv, CreateMember
<1> DEFINE member == [pod |-> getPodName(cluster, g, m), type |-> memberType(cluster, m),
                      version |-> 0, spec |-> cluster]
<1>1. cluster \in Specs /\ g \in 1..getNumGroups(cluster) /\ m \in 1..getNumMembers(cluster)
      BY DEF Reaches, TypeOK
<1>2. getPodName(cluster, g, m) \in Pod
      BY <1>1, PodOfMember
<1>3. memberType(cluster, m) \in MemberType
      BY DEF memberType, MemberType
<1>4. member \in RaftMember /\ member # Nil
      BY <1>1, <1>2, <1>3, NilAssumption DEF RaftMember
<1>5. /\ members \in [Group \X MemberId -> OrNil(RaftMember)]
      /\ members[<<g, m>>] = Nil
      /\ members' = [members EXCEPT ![<<g, m>>] = member]
      BY DEF TypeOK
<1>6. container[member.pod] \in Nat /\ container[member.pod] > 0
      BY <1>2 DEF TypeOK
<1>7. /\ member.pod = getPodName(cluster, g, m) /\ member.version = 0 /\ member.spec = cluster
      BY DEF member
<1> HIDE DEF member
<1>8. members'[<<g, m>>] = member
      BY <1>5
<1>9. \A g2 \in Group, m2 \in MemberId : <<g2, m2>> # <<g, m>> => members'[<<g2, m2>>] = members[<<g2, m2>>]
      BY <1>5
<1>10. \A g2 \in Group, m2 \in MemberId : members[<<g2, m2>>] # Nil => members'[<<g2, m2>>] = members[<<g2, m2>>]
       BY <1>5, <1>9
<1>11. TypeOK'
       BY <1>4, <1>5 DEF TypeOK, OrNil
<1>12. ConfigFirst'
       BY DEF ConfigFirst
<1>13. MembersFollow'
  <2> SUFFICES ASSUME NEW g2 \in Group, NEW m2 \in MemberId, members'[<<g2, m2>>] # Nil
               PROVE LET x == members'[<<g2, m2>>]
                     IN /\ g2 \in 1..getNumGroups(x.spec) /\ m2 \in 1..getNumMembers(x.spec)
                        /\ x.pod = getPodName(x.spec, g2, m2)
                        /\ x.version <= container[x.pod]
                        /\ x.version = container[x.pod] => nodes[x.pod][g2] # Nil
      BY DEF MembersFollow, Recorded
  <2>1. CASE <<g2, m2>> = <<g, m>>
        BY <2>1, <1>1, <1>6, <1>7, <1>8
  <2>2. CASE <<g2, m2>> # <<g, m>>
        BY <2>2, <1>9 DEF MembersFollow, Recorded
  <2> QED
      BY <2>1, <2>2
<1>14. NodesFollow'
       BY <1>10 DEF NodesFollow
<1>15. CallFollows'
  <2> SUFFICES ASSUME call.state # "none" PROVE CallFollows'
      BY DEF CallFollows
  <2>1. call.group \in Group /\ call.member \in MemberId /\ members[<<call.group, call.member>>] # Nil
        BY SpecFacts DEF CallFollows
  <2>2. members'[<<call.group, call.member>>] = members[<<call.group, call.member>>]
        BY <2>1, <1>10
  <2> QED
      BY <2>1, <2>2 DEF CallFollows
<1> QED
    BY <1>11, <1>12, <1>13, <1>14, <1>15

\* A call carries what the spec of now says of a member that exists.
LEMMA CallBootstrapStep ==
  ASSUME IInv, NEW g \in Group, NEW m \in MemberId, CallBootstrap(g, m)
  PROVE IInv'
<1> USE DEF IInv, CallBootstrap
<1> DEFINE p == members[<<g, m>>].pod
<1>1. /\ cluster \in Specs
      /\ g \in 1..getNumGroups(cluster) /\ m \in 1..getNumMembers(cluster)
      /\ replicas # Nil
      BY DEF Reaches, TypeOK
<1>2. members[<<g, m>>] \in RaftMember
      BY DEF TypeOK, OrNil
<1>3. p \in Pod /\ members[<<g, m>>].version \in Nat
      BY <1>2 DEF RaftMember
<1>4. container[p] \in 1..MaxContainers
      BY <1>3 DEF TypeOK
<1>5. \A n \in 1..MaxContainers : n \in 1..n
      BY BootstrapAssumption
<1>6. TypeOK'
      BY DEF TypeOK
<1>7. ConfigFirst' /\ MembersFollow' /\ NodesFollow'
      BY DEF ConfigFirst, MembersFollow, Recorded, NodesFollow
<1>8. CallFollows'
      BY <1>1, <1>4, <1>5 DEF CallFollows, ConfigFirst
<1> QED
    BY <1>6, <1>7, <1>8

\* What a call says, in a state of the invariant.
LEMMA CallFacts ==
  ASSUME IInv, call.state # "none"
  PROVE /\ call.group \in Group /\ call.member \in MemberId /\ call.pod \in Pod
        /\ members[<<call.group, call.member>>] \in RaftMember
        /\ members[<<call.group, call.member>>] # Nil
        /\ members[<<call.group, call.member>>].pod = call.pod
        /\ call.version \in Nat \ {0} /\ call.version <= container[call.pod]
        /\ container[call.pod] \in Nat
<1> USE DEF IInv
<1>1. call.group \in Group /\ call.member \in MemberId
      BY SpecFacts DEF CallFollows
<1>2. /\ members[<<call.group, call.member>>] # Nil
      /\ members[<<call.group, call.member>>].pod = call.pod
      BY DEF CallFollows
<1>3. members[<<call.group, call.member>>] \in RaftMember
      BY <1>1, <1>2 DEF TypeOK, OrNil
<1>4. call.pod \in Pod
      BY <1>2, <1>3 DEF RaftMember
<1>5. container[call.pod] \in Nat
  <2>1. container \in [Pod -> 1..MaxContainers]
        BY DEF TypeOK
  <2>2. 1..MaxContainers \subseteq Nat
        OBVIOUS
  <2> QED
      BY <1>4, <2>1, <2>2
<1>6. call.version \in 1..container[call.pod]
      BY DEF CallFollows
<1> QED
    BY <1>1, <1>2, <1>3, <1>4, <1>5, <1>6

\* The write of the version leaves the member's pod and type, and where it is
\* the present process's, the call has been answered by that process.
LEMMA RecordVersionStep ==
  ASSUME IInv, RecordVersion
  PROVE IInv'
<1> USE DEF IInv, RecordVersion
<1> DEFINE k == <<call.group, call.member>>
           old == members[k]
           new == [old EXCEPT !.version = call.version]
<1>1. call.state # "none"
      OBVIOUS
<1>2. /\ call.group \in Group /\ call.member \in MemberId /\ call.pod \in Pod
      /\ old \in RaftMember /\ old # Nil /\ old.pod = call.pod
      /\ call.version \in Nat /\ call.version <= container[call.pod]
      BY <1>1, CallFacts
<1>3. /\ members \in [Group \X MemberId -> OrNil(RaftMember)]
      /\ k \in Group \X MemberId
      /\ members' = [members EXCEPT ![k] = new]
      BY <1>2 DEF TypeOK
<1>4. /\ new \in RaftMember /\ new.pod = old.pod /\ new.type = old.type
      /\ new.spec = old.spec /\ new.version = call.version
      BY <1>2 DEF RaftMember
<1>5. new # Nil
      BY <1>4, NilAssumption
<1>6. call.version = container[call.pod] => nodes[call.pod][call.group] # Nil
      BY <1>1 DEF CallFollows
<1> HIDE DEF new
<1>7. members'[k] = new /\ \A k2 \in Group \X MemberId : k2 # k => members'[k2] = members[k2]
      BY <1>3
<1>8. TypeOK'
      BY <1>3, <1>4 DEF TypeOK, OrNil, NoCall
<1>9. ConfigFirst' /\ CallFollows'
      BY DEF ConfigFirst, CallFollows, NoCall
<1>10. MembersFollow'
  <2> SUFFICES ASSUME NEW g \in Group, NEW m \in MemberId, members'[<<g, m>>] # Nil
               PROVE LET x == members'[<<g, m>>]
                     IN /\ g \in 1..getNumGroups(x.spec) /\ m \in 1..getNumMembers(x.spec)
                        /\ x.pod = getPodName(x.spec, g, m)
                        /\ x.version <= container[x.pod]
                        /\ x.version = container[x.pod] => nodes[x.pod][g] # Nil
      BY DEF MembersFollow, Recorded
  <2>1. CASE <<g, m>> = k
    <3>1. g = call.group /\ m = call.member
          BY <2>1
    <3>2. /\ g \in 1..getNumGroups(old.spec) /\ m \in 1..getNumMembers(old.spec)
          /\ old.pod = getPodName(old.spec, g, m)
          BY <1>2, <3>1 DEF MembersFollow
    <3> QED
        BY <2>1, <3>1, <3>2, <1>2, <1>4, <1>6, <1>7
  <2>2. CASE <<g, m>> # k
        BY <2>2, <1>7 DEF MembersFollow, Recorded
  <2> QED
      BY <2>1, <2>2
<1>11. NodesFollow'
  <2>1. \A g \in Group, m \in MemberId :
          members[<<g, m>>] # Nil =>
            /\ members'[<<g, m>>] # Nil
            /\ members'[<<g, m>>].pod = members[<<g, m>>].pod
            /\ members'[<<g, m>>].type = members[<<g, m>>].type
        BY <1>4, <1>5, <1>7
  <2> QED
      BY <2>1 DEF NodesFollow
<1> QED
    BY <1>8, <1>9, <1>10, <1>11

\* A node that is asked for a replica of a group it does not run starts it as
\* the request says; in any other case it runs on what it ran.
LEMMA BootstrapStep ==
  ASSUME IInv, Bootstrap
  PROVE IInv'
<1> USE DEF IInv, Bootstrap, Answer
<1> DEFINE g == call.group
           m == call.member
           p == call.pod
           type == members[<<g, m>>].type
           group == groupConfig(call.spec, g, m, type)
           replica == ReplicaOf(config, call.spec, g, m, type)
<1>1. call.state # "none"
      OBVIOUS
<1>2. /\ g \in Group /\ m \in MemberId /\ p \in Pod
      /\ members[<<g, m>>] \in RaftMember /\ members[<<g, m>>] # Nil /\ members[<<g, m>>].pod = p
      BY <1>1, CallFacts
<1>3. /\ call.spec \in Specs /\ config # Nil /\ config \in Specs /\ ~DividesByZero(config)
      BY <1>1 DEF CallFollows, TypeOK, OrNil
<1>4. type \in MemberType
      BY <1>2 DEF RaftMember
<1>5. Carried(call.request).Group = group
  <2>1. call.request = bootstrapRequest(call.spec, g, m, type)
        BY <1>1 DEF CallFollows
  <2>2. Carried(call.request) = bootstrapRequest(call.spec, g, m, type)
        BY <1>2, <1>3, <1>4, <2>1, CodecAssumption
  <2> QED
      BY <2>2 DEF bootstrapRequest
<1>6. group.GroupID = g
      BY <1>2, <1>3, <1>4, PeerAddresses
<1>7. replica = [raft |-> getRaftConfig(config, group), members |-> initialMembers(group), spec |-> call.spec]
      BY DEF ReplicaOf
<1>8. /\ replica \in Replica /\ replica # Nil
      /\ replica.spec = call.spec /\ replica.raft.NodeID = m
      BY <1>2, <1>3, <1>4, ReplicaType
<1>9. nodes' = [nodes EXCEPT ![p][g] = IF @ # Nil THEN @ ELSE replica]
      BY <1>5, <1>6, <1>7
<1>10. nodes \in [Pod -> [Group -> OrNil(Replica)]]
       BY DEF TypeOK
<1>11. call' = [call EXCEPT !.state = "answered"]
       OBVIOUS
<1> DEFINE same == replica = ReplicaOf(config, call.spec, g, m, type)
<1>12. same
       OBVIOUS
<1>20. UNCHANGED <<cluster, edits, config, replicas, members, container>>
       OBVIOUS
<1> HIDE DEF replica, group, type, Bootstrap, Answer
<1>13. \A q \in Pod, h \in Group :
         /\ nodes[q][h] # Nil => nodes'[q][h] = nodes[q][h]
         /\ nodes'[q][h] # Nil => nodes'[q][h] = nodes[q][h] \/ (q = p /\ h = g /\ nodes'[q][h] = replica)
  <2> TAKE q \in Pod, h \in Group
  <2>1. CASE q = p /\ h = g
        BY <2>1, <1>9, <1>10
  <2>2. CASE ~(q = p /\ h = g)
    <3>1. nodes'[q][h] = nodes[q][h]
          BY <2>2, <1>2, <1>9, <1>10
    <3> QED
        BY <3>1
  <2> QED
      BY <2>1, <2>2
<1>14. nodes'[p][g] # Nil
       BY <1>2, <1>8, <1>9, <1>10
<1>15. TypeOK'
  <2> DEFINE new == IF nodes[p][g] # Nil THEN nodes[p][g] ELSE replica
             row == [nodes[p] EXCEPT ![g] = new]
  <2>1. nodes[p] \in [Group -> OrNil(Replica)]
        BY <1>2, <1>10
  <2>2. new \in OrNil(Replica)
        BY <1>2, <1>8, <2>1 DEF OrNil
  <2> HIDE DEF new
  <2>3. row \in [Group -> OrNil(Replica)]
        BY <2>1, <2>2
  <2>4. nodes' = [nodes EXCEPT ![p] = row]
        BY <1>9 DEF new
  <2> HIDE DEF row
  <2>5. nodes' \in [Pod -> [Group -> OrNil(Replica)]]
        BY <1>10, <2>3, <2>4
  <2>6. call'.state = "answered"
        BY <1>1, <1>11 DEF CallFollows
  <2> QED
      BY <1>20, <2>5, <2>6 DEF TypeOK
<1>16. ConfigFirst'
       BY <1>20 DEF ConfigFirst
<1>17. MembersFollow'
  <2> SUFFICES ASSUME NEW h \in Group, NEW n \in MemberId, members[<<h, n>>] # Nil
               PROVE LET x == members[<<h, n>>]
                     IN /\ h \in 1..getNumGroups(x.spec) /\ n \in 1..getNumMembers(x.spec)
                        /\ x.pod = getPodName(x.spec, h, n)
                        /\ x.version <= container[x.pod]
                        /\ x.version = container[x.pod] => nodes'[x.pod][h] # Nil
      BY <1>20 DEF MembersFollow, Recorded
  <2>1. members[<<h, n>>].pod \in Pod
        BY DEF TypeOK, OrNil, RaftMember
  <2>2. nodes[members[<<h, n>>].pod][h] # Nil => nodes'[members[<<h, n>>].pod][h] # Nil
        BY <2>1, <1>13
  <2> QED
      BY <2>2 DEF MembersFollow, Recorded
<1>18. NodesFollow'
  <2> SUFFICES ASSUME NEW q \in Pod, NEW h \in Group, nodes'[q][h] # Nil
               PROVE LET r == nodes'[q][h]
                         n == r.raft.NodeID
                     IN /\ config # Nil /\ ~DividesByZero(config)
                        /\ n \in MemberId /\ members[<<h, n>>] # Nil /\ members[<<h, n>>].pod = q
                        /\ r.spec \in Specs
                        /\ r = ReplicaOf(config, r.spec, h, n, members[<<h, n>>].type)
      BY <1>20 DEF NodesFollow
  <2>1. CASE nodes'[q][h] = nodes[q][h]
        BY <2>1 DEF NodesFollow
  <2>2. CASE q = p /\ h = g /\ nodes'[q][h] = replica
        BY <2>2, <1>2, <1>3, <1>8, <1>12 DEF type
  <2> QED
      BY <2>1, <2>2, <1>13
<1>19. CallFollows'
  <2>1. /\ call'.group = g /\ call'.member = m /\ call'.pod = p /\ call'.spec = call.spec
        /\ call'.version = call.version /\ call'.request = call.request
        BY <1>11
  <2> QED
      BY <2>1, <1>1, <1>14, <1>20 DEF CallFollows
<1> QED
    BY <1>15, <1>16, <1>17, <1>18, <1>19

\* A new process of a pod runs nothing, and what was recorded of its predecessor
\* no longer counts.
LEMMA NewProcessStep ==
  ASSUME IInv, BootstrapPanics \/ \E p \in Pod : Restart(p)
  PROVE IInv'
<1> USE DEF IInv
<1>1. PICK p \in Pod : /\ container[p] < MaxContainers
                       /\ container' = [container EXCEPT ![p] = container[p] + 1]
                       /\ nodes' = [nodes EXCEPT ![p] = [g \in Group |-> Nil]]
                       /\ call' = call \/ call' = NoCall
                       /\ UNCHANGED <<cluster, edits, config, replicas, members>>
  <2>1. CASE BootstrapPanics
    <3>1. call.pod \in Pod
          BY <2>1, CallFacts DEF BootstrapPanics
    <3> QED
        BY <2>1, <3>1 DEF BootstrapPanics, NewProcess
  <2>2. CASE \E p \in Pod : Restart(p)
        BY <2>2 DEF Restart, NewProcess
  <2> QED
      BY <2>1, <2>2
<1>2. container \in [Pod -> 1..MaxContainers] /\ nodes \in [Pod -> [Group -> OrNil(Replica)]]
      BY DEF TypeOK
<1>3. \A n \in 1..MaxContainers : n \in Nat /\ n < n + 1 /\ (n < MaxContainers => n + 1 \in 1..MaxContainers)
      BY BootstrapAssumption
<1>4. /\ container' \in [Pod -> 1..MaxContainers]
      /\ \A q \in Pod : container[q] \in Nat /\ container'[q] \in Nat /\ container[q] <= container'[q]
      /\ container[p] < container'[p]
      /\ \A q \in Pod \ {p} : container'[q] = container[q]
  <2>1. /\ container' = [container EXCEPT ![p] = container[p] + 1]
        /\ container[p] \in 1..MaxContainers /\ container[p] < MaxContainers
        BY <1>1, <1>2
  <2>2. container[p] + 1 \in 1..MaxContainers /\ container[p] < container[p] + 1
        BY <1>3, <2>1
  <2>3. container' \in [Pod -> 1..MaxContainers] /\ container'[p] = container[p] + 1
        BY <1>2, <2>1, <2>2
  <2>4. \A q \in Pod \ {p} : container'[q] = container[q]
        BY <1>2, <2>1
  <2>5. \A q \in Pod : container[q] \in Nat /\ container'[q] \in Nat
        BY <1>2, <1>3, <2>3
  <2> QED
      BY <2>2, <2>3, <2>4, <2>5
<1>5. /\ nodes' \in [Pod -> [Group -> OrNil(Replica)]]
      /\ \A g \in Group : nodes'[p][g] = Nil
      /\ \A q \in Pod \ {p} : nodes'[q] = nodes[q]
  <2> DEFINE nothing == [g \in Group |-> Nil]
  <2>1. nothing \in [Group -> OrNil(Replica)] /\ \A g \in Group : nothing[g] = Nil
        BY DEF OrNil
  <2>2. nodes' = [nodes EXCEPT ![p] = nothing]
        BY <1>1
  <2> HIDE DEF nothing
  <2> QED
      BY <1>2, <2>1, <2>2
<1>6. TypeOK'
      BY <1>1, <1>4, <1>5 DEF TypeOK, NoCall
<1>7. ConfigFirst'
      BY <1>1 DEF ConfigFirst
<1>8. MembersFollow'
  <2> SUFFICES ASSUME NEW g \in Group, NEW m \in MemberId, members[<<g, m>>] # Nil
               PROVE LET x == members[<<g, m>>]
                     IN /\ g \in 1..getNumGroups(x.spec) /\ m \in 1..getNumMembers(x.spec)
                        /\ x.pod = getPodName(x.spec, g, m)
                        /\ x.version <= container'[x.pod]
                        /\ x.version = container'[x.pod] => nodes'[x.pod][g] # Nil
      BY <1>1 DEF MembersFollow, Recorded
  <2> DEFINE x == members[<<g, m>>]
  <2>1. x.pod \in Pod /\ x.version \in Nat
        BY DEF TypeOK, OrNil, RaftMember
  <2>2. /\ g \in 1..getNumGroups(x.spec) /\ m \in 1..getNumMembers(x.spec)
        /\ x.pod = getPodName(x.spec, g, m)
        /\ x.version <= container[x.pod]
        /\ x.version = container[x.pod] => nodes[x.pod][g] # Nil
        BY DEF MembersFollow, Recorded
  <2> HIDE DEF x
  <2>3. x.version <= container'[x.pod]
        BY <2>1, <2>2, <1>4
  <2>4. x.version = container'[x.pod] => nodes'[x.pod][g] # Nil
    <3>1. CASE x.pod = p
          BY <3>1, <2>1, <2>2, <1>4
    <3>2. CASE x.pod # p
          BY <3>2, <2>1, <2>2, <1>4, <1>5
    <3> QED
        BY <3>1, <3>2
  <2> QED
      BY <2>2, <2>3, <2>4 DEF x
<1>9. NodesFollow'
      BY <1>1, <1>5 DEF NodesFollow
<1>10. CallFollows'
  <2> SUFFICES ASSUME call'.state # "none" PROVE CallFollows'
      BY DEF CallFollows
  <2>1. call' = call /\ call.state # "none"
        BY <1>1 DEF NoCall
  <2>2. call.pod \in Pod /\ call.version \in Nat \ {0} /\ call.version <= container[call.pod]
        BY <2>1, CallFacts
  <2>3. call.version \in 1..container'[call.pod]
        BY <2>2, <1>4
  <2>4. call.state = "answered" /\ call.version = container'[call.pod] => nodes'[call.pod][call.group] # Nil
    <3>1. CASE call.pod = p
          BY <3>1, <2>2, <1>4
    <3>2. CASE call.pod # p
          BY <3>2, <2>1, <2>2, <1>4, <1>5 DEF CallFollows
    <3> QED
        BY <3>1, <3>2
  <2> QED
      BY <2>1, <2>3, <2>4, <1>1 DEF CallFollows
<1> QED
    BY <1>6, <1>7, <1>8, <1>9, <1>10

-----------------------------------------------------------------------------
\* Theorems

\* Whatever is configured, edited, restarted and lost, every record of a member,
\* every replica that runs and every call is what the spec it was made from says
\* (reconcileMember, Bootstrap).
THEOREM InvariantCorrect == Spec => []IInv
<1>1. Init => IInv
      BY InitIInv
<1>2. IInv /\ [Next]_vars => IInv'
  <2> SUFFICES ASSUME IInv, [Next]_vars PROVE IInv'
      OBVIOUS
  <2>1. CASE AddConfigMap \/ AddStatefulSet \/ CallFails \/ \E spec \in Specs : Edit(spec)
        BY <2>1, ConfigStep
  <2>2. CASE \E g \in Group, m \in MemberId : CreateMember(g, m)
        BY <2>2, CreateMemberStep
  <2>3. CASE \E g \in Group, m \in MemberId : CallBootstrap(g, m)
        BY <2>3, CallBootstrapStep
  <2>4. CASE RecordVersion
        BY <2>4, RecordVersionStep
  <2>5. CASE Bootstrap
        BY <2>5, BootstrapStep
  <2>6. CASE BootstrapPanics \/ \E p \in Pod : Restart(p)
        BY <2>6, NewProcessStep
  <2>7. CASE UNCHANGED vars
    <3> USE <2>7 DEF vars
    <3>1. TypeOK'
          BY DEF IInv, TypeOK
    <3>2. ConfigFirst' /\ MembersFollow' /\ NodesFollow' /\ CallFollows'
          BY DEF IInv, ConfigFirst, MembersFollow, Recorded, NodesFollow, CallFollows
    <3> QED
        BY <3>1, <3>2 DEF IInv
  <2> QED
      BY <2>1, <2>2, <2>3, <2>4, <2>5, <2>6, <2>7 DEF Next, Reconcile
<1> QED
    BY <1>1, <1>2, PTL DEF Spec

\* The members of a group are on pods of their own, under any spec with no more
\* members than replicas (getPodName).
THEOREM ApartCorrect == Spec => []ReplicasApart
<1>1. IInv => ReplicasApart
  <2> SUFFICES ASSUME IInv, NEW g \in Group, NEW m1 \in MemberId, NEW m2 \in MemberId,
                      m1 # m2, members[<<g, m1>>] # Nil, members[<<g, m2>>] # Nil,
                      members[<<g, m1>>].spec = members[<<g, m2>>].spec,
                      MorePlaces(members[<<g, m1>>].spec)
               PROVE members[<<g, m1>>].pod # members[<<g, m2>>].pod
      BY DEF ReplicasApart
  <2> DEFINE s == members[<<g, m1>>].spec
  <2>1. s \in Specs
        BY DEF IInv, TypeOK, OrNil, RaftMember
  <2>2. /\ m1 \in 1..getNumMembers(s) /\ members[<<g, m1>>].pod = getPodName(s, g, m1)
        /\ m2 \in 1..getNumMembers(s) /\ members[<<g, m2>>].pod = getPodName(s, g, m2)
        BY DEF IInv, MembersFollow
  <2>3. m1 < m2 \/ m2 < m1
        BY <2>1, <2>2, SpecFacts
  <2> HIDE DEF s
  <2>4. MorePlaces(s)
        BY DEF s
  <2> QED
      BY <2>1, <2>2, <2>3, <2>4, PodsApart
<1> QED
    BY <1>1, InvariantCorrect, PTL

\* What the reconciler records as bootstrapped runs on the pod it says
\* (reconcileMember, Bootstrap).
THEOREM RecordedCorrect == Spec => []RecordedRuns
<1>1. IInv /\ ReplicasApart => RecordedRuns
  <2> SUFFICES ASSUME IInv, ReplicasApart, NEW g \in Group, NEW m \in MemberId, Recorded(g, m)
               PROVE LET p == members[<<g, m>>].pod
                     IN /\ nodes[p][g] # Nil
                        /\ \/ nodes[p][g].raft.NodeID = m
                           \/ \E m2 \in MemberId \ {m} : /\ members[<<g, m2>>] # Nil
                                                         /\ members[<<g, m2>>].pod = p
                                                         /\ nodes[p][g].raft.NodeID = m2
                                                         /\ \/ members[<<g, m2>>].spec # members[<<g, m>>].spec
                                                            \/ ~MorePlaces(members[<<g, m>>].spec)
      BY DEF RecordedRuns
  <2> DEFINE p == members[<<g, m>>].pod
             n == nodes[p][g].raft.NodeID
  <2>1. members[<<g, m>>] # Nil /\ p \in Pod
        BY DEF IInv, TypeOK, OrNil, RaftMember, Recorded
  <2>2. nodes[p][g] # Nil
        BY <2>1 DEF IInv, MembersFollow
  <2>3. n \in MemberId /\ members[<<g, n>>] # Nil /\ members[<<g, n>>].pod = p
        BY <2>1, <2>2 DEF IInv, NodesFollow
  <2>4. m # n /\ members[<<g, n>>].spec = members[<<g, m>>].spec => ~MorePlaces(members[<<g, m>>].spec)
        BY <2>1, <2>3 DEF ReplicasApart
  <2> QED
      BY <2>2, <2>3, <2>4
<1> QED
    BY <1>1, InvariantCorrect, ApartCorrect, PTL

\* A replica has its peers where they are (memberConfigs, initialMembers).
THEOREM PeersCorrect == Spec => []PeersFindEachOther
<1>1. IInv => PeersFindEachOther
  <2> SUFFICES ASSUME IInv, NEW g \in Group, NEW p \in Pod, NEW q \in Pod,
                      nodes[p][g] # Nil, nodes[q][g] # Nil,
                      nodes[p][g].spec = members[<<g, nodes[q][g].raft.NodeID>>].spec
               PROVE LET peer == nodes[q][g].raft.NodeID
                     IN /\ peer \in DOMAIN nodes[p][g].members
                        /\ nodes[p][g].members[peer] = [host |-> getPodDNSName(q), port |-> protocolPort]
      BY DEF PeersFindEachOther
  <2> DEFINE peer == nodes[q][g].raft.NodeID
             s == nodes[p][g].spec
             m == nodes[p][g].raft.NodeID
             type == members[<<g, m>>].type
  <2>1. /\ peer \in MemberId /\ members[<<g, peer>>] # Nil /\ members[<<g, peer>>].pod = q
        BY DEF IInv, NodesFollow
  <2>2. peer \in 1..getNumMembers(s) /\ q = getPodName(s, g, peer)
        BY <2>1 DEF IInv, MembersFollow
  <2>3. /\ s \in Specs /\ m \in MemberId /\ members[<<g, m>>] # Nil
        /\ nodes[p][g] = ReplicaOf(config, s, g, m, type)
        BY DEF IInv, NodesFollow
  <2>4. type \in MemberType
        BY <2>3 DEF IInv, TypeOK, OrNil, RaftMember
  <2> HIDE DEF type, m, s, peer
  <2>5. nodes[p][g].members = initialMembers(groupConfig(s, g, m, type))
        BY <2>3 DEF ReplicaOf
  <2>6. nodes[p][g].members = [i \in 1..getNumMembers(s) |->
          [host |-> getPodDNSName(getPodName(s, g, i)), port |-> protocolPort]]
        BY <2>3, <2>4, <2>5, PeerAddresses
  <2> QED
      BY <2>2, <2>6 DEF peer
<1> QED
    BY <1>1, InvariantCorrect, PTL

\* The election timeout that the library counts in heartbeats is the configured
\* one, up to less than a heartbeat (getRaftConfig).
THEOREM TimeoutCorrect == Spec => []TimeoutKept
<1>1. IInv => TimeoutKept
  <2> SUFFICES ASSUME IInv, NEW p \in Pod, NEW g \in Group,
                      nodes[p][g] # Nil, config.electionTimeout # Nil
               PROVE LET timeout == nodes[p][g].raft.ElectionRTT * RTTMillisecond(config)
                     IN /\ timeout <= Milliseconds(config.electionTimeout)
                        /\ Milliseconds(config.electionTimeout) < timeout + RTTMillisecond(config)
      BY DEF TimeoutKept
  <2> DEFINE s == nodes[p][g].spec
             m == nodes[p][g].raft.NodeID
             type == members[<<g, m>>].type
  <2>1. /\ config # Nil /\ ~DividesByZero(config)
        /\ s \in Specs /\ m \in MemberId /\ members[<<g, m>>] # Nil
        /\ nodes[p][g] = ReplicaOf(config, s, g, m, type)
        BY DEF IInv, NodesFollow
  <2>2. config \in Specs
        BY <2>1 DEF IInv, TypeOK, OrNil
  <2>3. type \in MemberType
        BY <2>1 DEF IInv, TypeOK, OrNil, RaftMember
  <2> HIDE DEF type, m, s
  <2>4. nodes[p][g].raft.ElectionRTT = electionRTT(config)
        BY <2>1, <2>2, <2>3, ReplicaType
  <2> QED
      BY <2>1, <2>2, <2>4, TimeoutInHeartbeats
<1> QED
    BY <1>1, InvariantCorrect, PTL

=============================================================================
