------------------------------ MODULE Placement ------------------------------
(***************************************************************************)
(* How the members of a cluster's Raft groups are laid out over its pods,   *)
(* what each is told of its peers, and what a node makes of its Raft         *)
(* configuration: the pure functions of cluster.go, protocol.go and          *)
(* config.go.  A pod is its ordinal in the StatefulSet, which also stands    *)
(* for its DNS name; durations are in microseconds.                          *)
(***************************************************************************)
EXTENDS Integers, Sequences

CONSTANT Nil   \* a pointer that is nil

\* The fields of MultiRaftClusterSpec that these functions read; quorumSize,
\* readReplicas and the two durations are pointers.
OrNil(S) == S \cup {Nil}
ClusterSpec == [groups : Nat, replicas : Nat, quorumSize : OrNil(Nat), readReplicas : OrNil(Nat),
                heartbeatPeriod : OrNil(Nat), electionTimeout : OrNil(Nat)]

getNumGroups(cluster) == IF cluster.groups = 0 THEN 1 ELSE cluster.groups

getNumReplicas(cluster) == IF cluster.replicas = 0 THEN 1 ELSE cluster.replicas

getNumVotingMembers(cluster) ==
  IF cluster.quorumSize = Nil THEN getNumReplicas(cluster) ELSE cluster.quorumSize

getNumNonVotingMembers(cluster) ==
  IF cluster.readReplicas = Nil THEN 0 ELSE cluster.readReplicas

getNumMembers(cluster) == getNumVotingMembers(cluster) + getNumNonVotingMembers(cluster)

\* A pod's DNS name, of which only the ordinal varies: a string of one byte.
getPodDNSName(ordinal) == <<ordinal>>

\* Variants with the parenthesis in another place, and without the remainder.
MembersTimesBoth(cluster, groupID, memberID) ==
  (getNumMembers(cluster) * (groupID + (memberID - 1))) % getNumReplicas(cluster)
NotWrapped(cluster, groupID, memberID) == (getNumMembers(cluster) * groupID) + (memberID - 1)

\* The ordinal of the pod of a member of a group.
getPodName(cluster, groupID, memberID) ==
  ((getNumMembers(cluster) * groupID) + (memberID - 1)) % getNumReplicas(cluster)

\* The type a new RaftMember gets.  getNumMembers counts the observers, so the
\* code's third case, a witness, is not reached from its loop over the members.
MemberType == {"RaftVotingMember", "RaftObserver", "RaftWitness"}
memberType(cluster, memberID) ==
  CASE memberID <= getNumVotingMembers(cluster) -> "RaftVotingMember"
    [] getNumVotingMembers(cluster) < memberID /\ memberID <= getNumMembers(cluster) -> "RaftObserver"
    [] OTHER -> "RaftWitness"

\* MemberRole: the numbers of the enumeration.
MemberRole_MEMBER == 1
MemberRole_OBSERVER == 2
MemberRole_WITNESS == 3
role(type) ==
  CASE type = "RaftVotingMember" -> MemberRole_MEMBER
    [] type = "RaftObserver" -> MemberRole_OBSERVER
    [] type = "RaftWitness" -> MemberRole_WITNESS

-----------------------------------------------------------------------------
\* What Bootstrap is asked for, and what the node makes of it.

protocolPort == 5679

\* A variant whose hosts are those of the loop's variable before it is incremented.
HostsOffByOne(cluster, groupID) ==
  [i \in 1..getNumMembers(cluster) |->
     [MemberID |-> i, Host |-> getPodDNSName(getPodName(cluster, groupID, i - 1)), Port |-> protocolPort]]

\* The members of a group as the request lists them.
memberConfigs(cluster, groupID) ==
  [i \in 1..getNumMembers(cluster) |->
     [MemberID |-> i, Host |-> getPodDNSName(getPodName(cluster, groupID, i)), Port |-> protocolPort]]

groupConfig(cluster, groupID, memberID, type) ==
  [GroupID |-> groupID, MemberID |-> memberID, Role |-> role(type),
   Members |-> memberConfigs(cluster, groupID)]

Milliseconds(duration) == duration \div 1000

defaultHeartbeatPeriod == 200 * 1000
GetHeartbeatPeriod(config) ==
  IF config.heartbeatPeriod = Nil THEN defaultHeartbeatPeriod ELSE config.heartbeatPeriod

\* NodeHostConfig.RTTMillisecond: the unit of all of dragonboat's timers.
RTTMillisecond(config) == Milliseconds(GetHeartbeatPeriod(config))

\* getRaftConfig divides by the milliseconds of the heartbeat period.
DividesByZero(config) == config.electionTimeout # Nil /\ RTTMillisecond(config) = 0

electionRTT(config) ==
  IF config.electionTimeout = Nil THEN 10
  ELSE Milliseconds(config.electionTimeout) \div RTTMillisecond(config)

\* getRaftConfig, and the map of initial members that Bootstrap builds: an
\* address per member identifier, of the last entry that has it.
Target(group, memberID) ==
  LET entries == {i \in DOMAIN group.Members : group.Members[i].MemberID = memberID}
      last == CHOOSE i \in entries : \A j \in entries : j <= i
  IN [host |-> group.Members[last].Host, port |-> group.Members[last].Port]

initialMembers(group) ==
  [id \in {group.Members[i].MemberID : i \in DOMAIN group.Members} |-> Target(group, id)]

getRaftConfig(config, group) ==
  [NodeID |-> group.MemberID, ElectionRTT |-> electionRTT(config),
   IsObserver |-> group.Role = MemberRole_OBSERVER, IsWitness |-> group.Role = MemberRole_WITNESS]
=============================================================================
