---------------------------- MODULE GroupBootstrap ----------------------------
(***************************************************************************)
(* How the Raft groups of a cluster come to run: the cluster reconciler      *)
(* writes the nodes' configuration and the StatefulSet once, then takes the  *)
(* members of the groups in order, gives each a pod by the cluster's spec,    *)
(* and has the pod's node start it with a list of its peers                   *)
(* (MultiRaftClusterReconciler.reconcileMember, nodeServer.Bootstrap).       *)
(*                                                                          *)
(* The spec may be edited at any time, processes restart, calls fail.        *)
(* Which of a run's writes comes first, its conflicts and the readiness it    *)
(* records are MemberLifecycle's subject: here a run is a creation, or a call *)
(* and the write of the version.  NodeHost is external: it refuses a second   *)
(* replica of a group it runs.  Carried is what the node reads of a request    *)
(* that is sent to it.                                                        *)
(***************************************************************************)
EXTENDS Placement

CONSTANTS
  Specs,         \* the specs a cluster may have
  Pod,           \* ordinals of pods
  Group,         \* identifiers of groups
  MemberId,      \* identifiers of members in a group
  Carried(_),    \* a BootstrapRequest as it is received
  MaxEdits,      \* bound: the edits of the spec
  MaxContainers  \* bound: the processes a pod runs, one after the other

bootstrapRequest(spec, g, m, type) == [Group |-> groupConfig(spec, g, m, type)]

\* A replica that runs: its configuration, the addresses it finds its peers
\* at, and the spec (history) its request was built from.
ReplicaOf(c, spec, g, m, type) ==
  [raft |-> getRaftConfig(c, groupConfig(spec, g, m, type)),
   members |-> initialMembers(groupConfig(spec, g, m, type)),
   spec |-> spec]

Address == [host : {getPodDNSName(p) : p \in Pod}, port : {protocolPort}]
Replica == [raft : [NodeID : MemberId, ElectionRTT : Nat, IsObserver : BOOLEAN, IsWitness : BOOLEAN],
            members : UNION {[1..getNumMembers(spec) -> Address] : spec \in Specs},
            spec : Specs]

\* A RaftMember: its pod, type and version (0: nil), and the spec (history) it
\* was created from.
RaftMember == [pod : Pod, type : MemberType, version : Nat, spec : Specs]

ASSUME BootstrapAssumption ==
  /\ Specs \subseteq ClusterSpec
  /\ Group \subseteq Nat /\ MemberId \subseteq Nat /\ Pod \subseteq Nat
  /\ \A s \in Specs : /\ 1..getNumGroups(s) \subseteq Group
                      /\ 1..getNumMembers(s) \subseteq MemberId
                      /\ 0..(getNumReplicas(s) - 1) \subseteq Pod
  /\ MaxEdits \in Nat /\ MaxContainers \in Nat \ {0}

ASSUME NilAssumption ==
  Nil \notin Nat /\ Nil \notin Specs /\ Nil \notin RaftMember /\ Nil \notin Replica

\* What the node reads is what the reconciler sent.
ASSUME CodecAssumption ==
  \A s \in Specs, g \in Group, m \in MemberId, type \in MemberType :
    Carried(bootstrapRequest(s, g, m, type)) = bootstrapRequest(s, g, m, type)

VARIABLES
  cluster,    \* the spec of the MultiRaftCluster
  edits,
  config,     \* the spec the ConfigMap was made from, or Nil
  replicas,   \* of the StatefulSet, or Nil
  members,    \* the RaftMembers, or Nil
  container,  \* which process of its pod runs
  nodes,      \* the replicas each pod's process runs, or Nil
  call        \* the reconciler's Bootstrap call, or NoCall

NoCall == [state |-> "none"]

vars == <<cluster, edits, config, replicas, members, container, nodes, call>>

Init ==
  /\ cluster \in Specs
  /\ edits = 0
  /\ config = Nil
  /\ replicas = Nil
  /\ members = [k \in Group \X MemberId |-> Nil]
  /\ container = [p \in Pod |-> 1]
  /\ nodes = [p \in Pod |-> [g \in Group |-> Nil]]
  /\ call = NoCall

-----------------------------------------------------------------------------
\* The reconciler

\* addConfigMap and addStatefulSet: once, if there is none.
AddConfigMap ==
  /\ config = Nil
  /\ config' = cluster
  /\ UNCHANGED <<cluster, edits, replicas, members, container, nodes, call>>

AddStatefulSet ==
  /\ config # Nil /\ replicas = Nil
  /\ replicas' = getNumReplicas(cluster)
  /\ UNCHANGED <<cluster, edits, config, members, container, nodes, call>>

PodExists(p) == replicas # Nil /\ p < replicas

\* A variant with > for >=.
OnlyNewer(g, m) ==
  /\ members[<<g, m>>] # Nil
  /\ PodExists(members[<<g, m>>].pod)
  /\ members[<<g, m>>].version > container[members[<<g, m>>].pod]

\* A member with which the reconciler has nothing to do.
UpToDate(g, m) ==
  /\ members[<<g, m>>] # Nil
  /\ PodExists(members[<<g, m>>].pod)
  /\ members[<<g, m>>].version >= container[members[<<g, m>>].pod]

\* The loops over groups and members come to this one: a run ends at the first
\* that is not up to date, be it at an error.
Reaches(g, m) ==
  /\ replicas # Nil /\ call.state = "none"
  /\ g \in 1..getNumGroups(cluster) /\ m \in 1..getNumMembers(cluster)
  /\ \A g2 \in 1..g, m2 \in 1..getNumMembers(cluster) :
       (g2 < g \/ m2 < m) => UpToDate(g2, m2)

CreateMember(g, m) ==
  /\ Reaches(g, m)
  /\ members[<<g, m>>] = Nil
  /\ members' = [members EXCEPT ![<<g, m>>] =
       [pod |-> getPodName(cluster, g, m), type |-> memberType(cluster, m), version |-> 0, spec |-> cluster]]
  /\ UNCHANGED <<cluster, edits, config, replicas, container, nodes, call>>

\* The request is built from the spec of now, and goes to the member's pod.
CallBootstrap(g, m) ==
  /\ Reaches(g, m)
  /\ members[<<g, m>>] # Nil
  /\ LET p == members[<<g, m>>].pod
     IN /\ PodExists(p)
        /\ members[<<g, m>>].version < container[p]
        /\ call' = [state |-> "sent", group |-> g, member |-> m, pod |-> p, version |-> container[p],
                    request |-> bootstrapRequest(cluster, g, m, members[<<g, m>>].type),
                    spec |-> cluster]
  /\ UNCHANGED <<cluster, edits, config, replicas, members, container, nodes>>

\* A variant that writes the pod's version after the call, not the one before it.
VersionAfterCall ==
  /\ call.state = "answered"
  /\ members' = [members EXCEPT ![<<call.group, call.member>>].version = container[call.pod]]
  /\ call' = NoCall
  /\ UNCHANGED <<cluster, edits, config, replicas, container, nodes>>

RecordVersion ==
  /\ call.state = "answered"
  /\ members' = [members EXCEPT ![<<call.group, call.member>>].version = call.version]
  /\ call' = NoCall
  /\ UNCHANGED <<cluster, edits, config, replicas, container, nodes>>

\* The call or the write after it fails: the run is repeated.
CallFails ==
  /\ call.state # "none"
  /\ call' = NoCall
  /\ UNCHANGED <<cluster, edits, config, replicas, members, container, nodes>>

-----------------------------------------------------------------------------
\* The node

Answer ==
  /\ call.state = "sent"
  /\ ~DividesByZero(config)
  /\ call' = [call EXCEPT !.state = "answered"]

\* Protocol.Bootstrap; ErrClusterAlreadyExist is no error.
Bootstrap ==
  /\ Answer
  /\ LET group == Carried(call.request).Group
     IN nodes' = [nodes EXCEPT ![call.pod][group.GroupID] =
          IF @ # Nil THEN @
          ELSE [raft |-> getRaftConfig(config, group), members |-> initialMembers(group), spec |-> call.spec]]
  /\ UNCHANGED <<cluster, edits, config, replicas, members, container>>

\* A new process runs nothing until it is told to.
NewProcess(p) ==
  /\ container[p] < MaxContainers
  /\ container' = [container EXCEPT ![p] = @ + 1]
  /\ nodes' = [nodes EXCEPT ![p] = [g \in Group |-> Nil]]

\* getRaftConfig panics, which ends the process and the call.
BootstrapPanics ==
  /\ call.state = "sent"
  /\ DividesByZero(config)
  /\ NewProcess(call.pod)
  /\ call' = NoCall
  /\ UNCHANGED <<cluster, edits, config, replicas, members>>

Restart(p) ==
  /\ PodExists(p)
  /\ NewProcess(p)
  /\ UNCHANGED <<cluster, edits, config, replicas, members, call>>

Edit(spec) ==
  /\ edits < MaxEdits /\ spec # cluster
  /\ edits' = edits + 1
  /\ cluster' = spec
  /\ UNCHANGED <<config, replicas, members, container, nodes, call>>

\* What a run begins with: one of these at a time has something to do.
Reconcile ==
  \/ AddConfigMap \/ AddStatefulSet
  \/ \E g \in Group, m \in MemberId : CreateMember(g, m) \/ CallBootstrap(g, m)

Next ==
  \/ Reconcile
  \/ RecordVersion \/ CallFails
  \/ Bootstrap \/ BootstrapPanics
  \/ \E p \in Pod : Restart(p)
  \/ \E spec \in Specs : Edit(spec)

Spec == Init /\ [][Next]_vars

\* The reconciler's runs go on, and its calls do not fail for ever.
Fairness ==
  /\ WF_vars(Reconcile)
  /\ SF_call(Answer) /\ SF_vars(RecordVersion)

-----------------------------------------------------------------------------
\* Properties

TypeOK ==
  /\ cluster \in Specs
  /\ edits \in 0..MaxEdits
  /\ config \in OrNil(Specs)
  /\ replicas \in OrNil(Nat)
  /\ members \in [Group \X MemberId -> OrNil(RaftMember)]
  /\ container \in [Pod -> 1..MaxContainers]
  /\ nodes \in [Pod -> [Group -> OrNil(Replica)]]
  /\ call.state \in {"none", "sent", "answered"}

\* A member whose present process the reconciler has recorded as bootstrapped.
Recorded(g, m) == members[<<g, m>>] # Nil /\ members[<<g, m>>].version = container[members[<<g, m>>].pod]

MorePlaces(spec) == getNumMembers(spec) <= getNumReplicas(spec)

\* Members of a group are on pods of their own, so that no failure of a pod
\* takes two replicas of a group, if they were placed by the same spec and that
\* has no more members than replicas (getPodName).
ReplicasApart ==
  \A g \in Group : \A m1, m2 \in MemberId :
    LET a == members[<<g, m1>>]
        b == members[<<g, m2>>]
    IN m1 # m2 /\ a # Nil /\ b # Nil /\ a.spec = b.spec /\ MorePlaces(a.spec) => a.pod # b.pod

\* What is recorded as bootstrapped runs: the pod's process has a replica of
\* the group, and it is this member unless another one of the group shares the
\* pod, which takes an edit of the spec between them or more members than
\* replicas.  The node answers a second replica's Bootstrap as if it had
\* started it.
RecordedRuns ==
  \A g \in Group, m \in MemberId :
    Recorded(g, m) =>
      LET p == members[<<g, m>>].pod
      IN /\ nodes[p][g] # Nil
         /\ \/ nodes[p][g].raft.NodeID = m
            \/ \E m2 \in MemberId \ {m} : /\ members[<<g, m2>>] # Nil
                                          /\ members[<<g, m2>>].pod = p
                                          /\ nodes[p][g].raft.NodeID = m2
                                          /\ \/ members[<<g, m2>>].spec # members[<<g, m>>].spec
                                             \/ ~MorePlaces(members[<<g, m>>].spec)

\* A replica that runs finds every other running replica of its group at the
\* address it was given for it, whichever was started first and however often,
\* if its peers were listed by the spec that placed the other.
PeersFindEachOther ==
  \A g \in Group : \A p, q \in Pod :
    nodes[p][g] # Nil /\ nodes[q][g] # Nil =>
      LET peer == nodes[q][g].raft.NodeID
      IN nodes[p][g].spec = members[<<g, peer>>].spec =>
           /\ peer \in DOMAIN nodes[p][g].members
           /\ nodes[p][g].members[peer] = [host |-> getPodDNSName(q), port |-> protocolPort]

\* The election timeout of a replica that runs, counted in heartbeats as the
\* library does, is the configured one up to less than a heartbeat.
TimeoutKept ==
  \A p \in Pod, g \in Group :
    nodes[p][g] # Nil /\ config.electionTimeout # Nil =>
      LET timeout == nodes[p][g].raft.ElectionRTT * RTTMillisecond(config)
      IN /\ timeout <= Milliseconds(config.electionTimeout)
         /\ Milliseconds(config.electionTimeout) < timeout + RTTMillisecond(config)

\* Unless the spec is edited or getRaftConfig panics, every member of every
\* group is recorded as bootstrapped in the end, past failed calls and restarts.
AllRecorded ==
  \A g \in 1..getNumGroups(cluster), m \in 1..getNumMembers(cluster) : Recorded(g, m)
BootstrapEnds ==
  <>(edits > 0 \/ (config # Nil /\ DividesByZero(config)) \/ AllRecorded)

\* The inductive invariant of these: the configuration comes first, and what
\* each record was made from.
ConfigFirst == replicas # Nil => config # Nil

MembersFollow ==
  \A g \in Group, m \in MemberId :
    members[<<g, m>>] # Nil =>
      LET member == members[<<g, m>>]
      IN /\ g \in 1..getNumGroups(member.spec) /\ m \in 1..getNumMembers(member.spec)
         /\ member.pod = getPodName(member.spec, g, m)
         /\ member.version <= container[member.pod]
         /\ Recorded(g, m) => nodes[member.pod][g] # Nil

NodesFollow ==
  \A p \in Pod, g \in Group :
    nodes[p][g] # Nil =>
      LET m == nodes[p][g].raft.NodeID
      IN /\ config # Nil /\ ~DividesByZero(config)
         /\ m \in MemberId /\ members[<<g, m>>] # Nil /\ members[<<g, m>>].pod = p
         /\ nodes[p][g].spec \in Specs
         /\ nodes[p][g] = ReplicaOf(config, nodes[p][g].spec, g, m, members[<<g, m>>].type)

CallFollows ==
  call.state # "none" =>
    LET g == call.group
        m == call.member
    IN /\ config # Nil
       /\ call.spec \in Specs
       /\ g \in 1..getNumGroups(call.spec) /\ m \in 1..getNumMembers(call.spec)
       /\ members[<<g, m>>] # Nil /\ members[<<g, m>>].pod = call.pod
       /\ call.version \in 1..container[call.pod]
       /\ call.request = bootstrapRequest(call.spec, g, m, members[<<g, m>>].type)
       /\ call.state = "answered" /\ call.version = container[call.pod] => nodes[call.pod][g] # Nil

IInv == TypeOK /\ ConfigFirst /\ MembersFollow /\ NodesFollow /\ CallFollows
=============================================================================
