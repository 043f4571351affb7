------------------------- MODULE StorePipelineProofs -------------------------
(***************************************************************************)
(* Proofs about StorePipeline, for any groups, members and addresses and all *)
(* bounds.  IInv is the inductive invariant.  Along the chain each resource  *)
(* says of a group what the one before it has said in a version that the     *)
(* cache has had, and what a run has read and is about to write lies between *)
(* the two.                                                                  *)
(***************************************************************************)
EXTENDS StorePipeline, SequenceTheorems, FiniteSetTheorems, TLAPS

-----------------------------------------------------------------------------
\* Versions of a resource

LEMMA Reading ==
  ASSUME NEW S, NEW s \in Seq(S), s # <<>>
  PROVE /\ 1 \in DOMAIN s /\ Len(s) \in DOMAIN s
        /\ Cached(s) = s[1] /\ Current(s) = s[Len(s)]
        /\ Cached(s) \in S /\ Current(s) \in S
        /\ \A j \in DOMAIN s : j \in Nat /\ 1 <= j /\ j <= Len(s) /\ s[j] \in S
        /\ IsCurrent(s) \in BOOLEAN
        /\ IsCurrent(s) => Cached(s) = Current(s)
BY DEF Cached, Current, IsCurrent, Last

LEMMA Writing ==
  ASSUME NEW S, NEW s \in Seq(S), s # <<>>, NEW x \in S
  PROVE LET t == Append(s, x)
        IN /\ t \in Seq(S) /\ t # <<>> /\ ~IsCurrent(t)
           /\ Cached(t) = Cached(s) /\ Current(t) = x
           /\ \A j \in DOMAIN t : \/ j \in DOMAIN s /\ t[j] = s[j]
                                  \/ j = Len(s) + 1 /\ t[j] = x
BY DEF Cached, Current, IsCurrent, Last

LEMMA Syncing ==
  ASSUME NEW S, NEW s \in Seq(S), Len(s) > 1
  PROVE LET t == Tail(s)
        IN /\ t \in Seq(S) /\ t # <<>> /\ Current(t) = Current(s) /\ Cached(t) = s[2]
           /\ 2 \in DOMAIN s /\ \A j \in DOMAIN t : (j + 1) \in DOMAIN s /\ t[j] = s[j + 1]
<1> DEFINE t == Tail(s)
<1>1. Len(s) \in Nat /\ s # <<>>
      OBVIOUS
<1>2. t \in Seq(S) /\ Len(t) = Len(s) - 1
      BY <1>1, HeadTailProperties
<1>3. \A j \in 1..Len(t) : t[j] = s[j + 1]
      BY <1>1, HeadTailProperties
<1>4. Current(t) = Current(s)
  <2>1. t[Len(t)] = s[Len(t) + 1] /\ Len(t) + 1 = Len(s)
        BY <1>1, <1>2, <1>3
  <2> QED
      BY <2>1 DEF Current, Last
<1>5. \A j \in DOMAIN t : j \in 1..Len(t) /\ (j + 1) \in DOMAIN s
      BY <1>1, <1>2
<1>6. t # <<>>
  <2>1. Len(t) # 0
        BY <1>1, <1>2
  <2> QED
      BY <1>2, <2>1, EmptySeq
<1> HIDE DEF t
<1>7. Cached(t) = s[2] /\ 2 \in DOMAIN s
      BY <1>1, <1>2, <1>3 DEF Cached
<1>8. \A j \in DOMAIN t : (j + 1) \in DOMAIN s /\ t[j] = s[j + 1]
      BY <1>3, <1>5
<1> QED
    BY <1>2, <1>4, <1>6, <1>7, <1>8 DEF t

LEMMA First ==
  ASSUME NEW S, NEW x \in S
  PROVE /\ <<x>> \in Seq(S) /\ <<x>> # <<>> /\ IsCurrent(<<x>>)
        /\ Cached(<<x>>) = x /\ Current(<<x>>) = x
        /\ \A j \in DOMAIN <<x>> : j = 1 /\ <<x>>[j] = x
BY DEF Cached, Current, IsCurrent, Last

-----------------------------------------------------------------------------
\* What is said of a group

LEMMA StatusTypes ==
  /\ NewGroup \in GroupStatus /\ NewGroup.n = 0
  /\ NoPartitions \in Seq(Partition)
  /\ NoCluster \in ClusterStatus /\ NoCluster.state = "absent" /\ NoCluster.partitions = NoPartitions
  /\ NewCluster \in ClusterStatus /\ NewCluster.state = "" /\ NewCluster.partitions = NoPartitions
  /\ NoClusterCopy \in ClusterCopy /\ ~NoClusterCopy.latest /\ NoStoreCopy \in StoreCopy
<1>1. NewGroup \in GroupStatus /\ NewGroup.n = 0
      BY DEF NewGroup, GroupStatus, Leader
<1>2. NoPartitions \in Seq(Partition)
      BY DEF NoPartitions
<1>3. /\ NoCluster \in ClusterStatus /\ NoCluster.state = "absent" /\ NoCluster.partitions = NoPartitions
      /\ NewCluster \in ClusterStatus /\ NewCluster.state = "" /\ NewCluster.partitions = NoPartitions
      BY <1>2 DEF NoCluster, NewCluster, ClusterStatus
<1>4. NoClusterCopy \in ClusterCopy /\ ~NoClusterCopy.latest /\ NoStoreCopy \in StoreCopy
      BY <1>3 DEF NoClusterCopy, ClusterCopy, NoStoreCopy, StoreCopy, StoreState
<1> QED
    BY <1>1, <1>2, <1>3, <1>4

LEMMA Numbers ==
  /\ \A ps \in Seq(Partition), g \in Group : NumberOf(ps)[g] \in Nat
  /\ \A g \in Group : NumberOf(NoPartitions)[g] = 0
  /\ \A ps, g \in Group : g \in DOMAIN ps => NumberOf(ps)[g] = ps[g].n
<1>1. \A ps \in Seq(Partition) : \A g \in DOMAIN ps : ps[g].n \in Nat
  <2>1. \A ps \in Seq(Partition) : \A g \in DOMAIN ps : ps[g] \in Partition
        OBVIOUS
  <2>2. \A p \in Partition : p.n \in Nat
        BY DEF Partition
  <2> QED
      BY <2>1, <2>2
<1> QED
    BY <1>1 DEF NumberOf, NoPartitions

LEMMA AddressesOfFollowers ==
  ASSUME NEW group \in GroupStatus
  PROVE LeaderAddress(group) \in Address \cup {NoMember} /\ FollowerAddresses(group) \in Addresses
<1>1. group.leader \in Member \cup {NoMember} /\ group.followers \subseteq Member
      BY DEF GroupStatus, Leader
<1>2. LeaderAddress(group) \in Address \cup {NoMember}
      BY <1>1, StorePipelineAssumption DEF LeaderAddress
<1> DEFINE S == {AddressOf[m] : m \in group.followers}
           of(a) == {m \in group.followers : AddressOf[m] = a}
<1>3. S \in SUBSET Address
      BY <1>1, StorePipelineAssumption
<1>4. ASSUME NEW a \in S PROVE Cardinality(of(a)) \in 1..Cardinality(Member)
  <2>1. PICK T \in SUBSET Member : T = of(a) /\ T # {}
        BY <1>1, <1>4
  <2>2. IsFiniteSet(Member)
        BY StorePipelineAssumption
  <2>3. IsFiniteSet(T) /\ Cardinality(T) <= Cardinality(Member)
        BY <2>2, FS_Subset
  <2>4. Cardinality(T) \in Nat /\ Cardinality(Member) \in Nat
        BY <2>2, <2>3, FS_CardinalityType
  <2>5. Cardinality(T) # 0
        BY <2>1, <2>3, FS_EmptySet
  <2>6. Cardinality(T) \in 1..Cardinality(Member)
        BY <2>3, <2>4, <2>5
  <2> QED
      BY <2>1, <2>6
<1>5. FollowerAddresses(group) = [a \in S |-> Cardinality(of(a))]
      BY DEF FollowerAddresses
<1>6. FollowerAddresses(group) \in [S -> 1..Cardinality(Member)]
      BY <1>4, <1>5
<1> QED
    BY <1>2, <1>3, <1>6 DEF Addresses

\* The types of the variables and of what is read of them.
LEMMA Types ==
  ASSUME IInv
  PROVE /\ \A g \in Group : /\ groups[g] \in Seq(GroupStatus) /\ groups[g] # <<>>
                            /\ Cached(groups[g]) \in GroupStatus /\ Current(groups[g]) \in GroupStatus
                            /\ Cached(groups[g]).n \in Nat /\ Current(groups[g]).n \in Nat
        /\ Cached(cluster) \in ClusterStatus /\ Current(cluster) \in ClusterStatus
        /\ Cached(cluster).partitions \in Seq(Partition)
        /\ Current(cluster).partitions \in Seq(Partition)
        /\ Cached(store) \in StoreState /\ Current(store) \in StoreState
        /\ Cached(dataStore) \in Seq(Partition) /\ Current(dataStore) \in Seq(Partition)
        /\ source.partitions \in Seq(Partition)
        /\ clusterCopy.status \in ClusterStatus /\ clusterCopy.status.partitions \in Seq(Partition)
        /\ clusterCopy.latest \in BOOLEAN
        /\ storeCopy.state \in StoreState /\ storeCopy.latest \in BOOLEAN
<1>1. ASSUME NEW g \in Group
      PROVE /\ groups[g] \in Seq(GroupStatus) /\ groups[g] # <<>>
            /\ Cached(groups[g]) \in GroupStatus /\ Current(groups[g]) \in GroupStatus
  <2>1. groups[g] \in Seq(GroupStatus) /\ groups[g] # <<>>
        BY DEF IInv, TypeOK
  <2> QED
      BY <2>1, Reading
<1>2. \A s \in GroupStatus : s.n \in Nat
      BY DEF GroupStatus
<1>3. Cached(cluster) \in ClusterStatus /\ Current(cluster) \in ClusterStatus
  <2>1. cluster \in Seq(ClusterStatus) /\ cluster # <<>>
        BY DEF IInv, TypeOK
  <2> QED
      BY <2>1, Reading
<1>4. Cached(store) \in StoreState /\ Current(store) \in StoreState
  <2>1. store \in Seq(StoreState) /\ store # <<>>
        BY DEF IInv, TypeOK
  <2> QED
      BY <2>1, Reading
<1>5. Cached(dataStore) \in Seq(Partition) /\ Current(dataStore) \in Seq(Partition)
  <2>1. dataStore \in Seq(Seq(Partition)) /\ dataStore # <<>>
        BY DEF IInv, TypeOK
  <2> QED
      BY <2>1, Reading
<1>6. \A c \in ClusterStatus : c.partitions \in Seq(Partition)
      BY DEF ClusterStatus
<1>7. /\ source \in ClusterStatus
      /\ clusterCopy.status \in ClusterStatus /\ clusterCopy.latest \in BOOLEAN
      /\ storeCopy.state \in StoreState /\ storeCopy.latest \in BOOLEAN
      BY DEF IInv, TypeOK, ClusterCopy, StoreCopy
<1> QED
    BY <1>1, <1>2, <1>3, <1>4, <1>5, <1>6, <1>7

-----------------------------------------------------------------------------
\* Init

LEMMA InitIInv == Init => IInv
<1> SUFFICES ASSUME Init PROVE IInv
    OBVIOUS
<1> DEFINE gs == <<NewGroup>>
           cs == <<NoCluster>>
           ds == <<NoPartitions>>
           ss == <<"">>
<1>1. /\ groups = [g \in Group |-> gs] /\ cluster = cs /\ store = ss /\ dataStore = ds
      BY DEF Init
<1>2. /\ gs \in Seq(GroupStatus) /\ gs # <<>> /\ Cached(gs) = NewGroup /\ Current(gs) = NewGroup
      /\ \A j \in DOMAIN gs : j = 1 /\ gs[j] = NewGroup
      BY First, StatusTypes
<1>3. /\ cs \in Seq(ClusterStatus) /\ cs # <<>> /\ Cached(cs) = NoCluster /\ Current(cs) = NoCluster
      /\ \A j \in DOMAIN cs : j = 1 /\ cs[j] = NoCluster
      BY First, StatusTypes
<1>4. /\ ds \in Seq(Seq(Partition)) /\ ds # <<>> /\ Current(ds) = NoPartitions
      BY First, StatusTypes
<1>5. ss \in Seq(StoreState) /\ ss # <<>>
  <2>1. "" \in StoreState
        BY DEF StoreState
  <2> QED
      BY <2>1, First
<1> HIDE DEF gs, cs, ds, ss
<1>6. TypeOK
  <2>1. at \in 1..(NumGroups + 1) /\ failures \in Nat
    <3>1. at = 1 /\ failures = 0
          BY DEF Init
    <3> QED
        BY <3>1, StorePipelineAssumption
  <2>2. Len(NoPartitions) = 0 /\ 0 <= NumGroups
        BY StorePipelineAssumption DEF NoPartitions
  <2> QED
      BY <1>1, <1>2, <1>3, <1>4, <1>5, <2>1, <2>2, StatusTypes DEF Init, TypeOK
<1>7. NewGroup.n = 0 /\ NoCluster.partitions = NoPartitions
      BY StatusTypes
<1>8. VersionsForward
      BY <1>1, <1>2, <1>3, <1>7, Numbers DEF VersionsForward
<1>9. ClusterFollows
  <2>1. ~NoClusterCopy.latest
        BY StatusTypes
  <2>2. DOMAIN partitions = {}
    <3>1. partitions = NoPartitions
          BY DEF Init
    <3> QED
        BY <3>1 DEF NoPartitions
  <2>3. \A g \in Group : NumberOf(Current(cluster).partitions)[g] = 0 /\ Cached(groups[g]).n = 0
        BY <1>1, <1>2, <1>3, <1>7, Numbers
  <2>4. clusterPc = "idle" /\ clusterCopy = NoClusterCopy
        BY DEF Init
  <2>5. \A i \in DOMAIN cluster : cluster[i].state = "absent" => cluster[i].partitions = NoPartitions
        BY <1>1, <1>3, <1>7
  <2> QED
      BY <2>1, <2>2, <2>3, <2>4, <2>5 DEF ClusterFollows
<1>10. StoreFollows
  <2>1. \A g \in Group : /\ NumberOf(Current(dataStore))[g] = 0
                         /\ NumberOf(Cached(cluster).partitions)[g] = 0
        BY <1>1, <1>3, <1>4, <1>7, Numbers
  <2>2. storePc = "idle"
        BY DEF Init
  <2> QED
      BY <2>1, <2>2 DEF StoreFollows
<1>11. StoreFindings
      BY DEF Init, StoreFindings
<1> QED
    BY <1>6, <1>8, <1>9, <1>10, <1>11 DEF IInv

-----------------------------------------------------------------------------
\* What a step leaves alone

LEMMA SameCluster ==
  ASSUME IInv, UNCHANGED <<groups, cluster, clusterPc, clusterCopy, partitions>>
  PROVE VersionsForward' /\ ClusterFollows'
BY DEF IInv, VersionsForward, ClusterFollows, NumberOf, Cached, Current

LEMMA SameStore ==
  ASSUME IInv, UNCHANGED <<cluster, dataStore, storePc, source>>
  PROVE StoreFollows'
BY DEF IInv, StoreFollows, NumberOf, Cached, Current

LEMMA SameFindings ==
  ASSUME IInv, UNCHANGED <<cluster, store, storePending, storePc, storeCopy, source>>
  PROVE StoreFindings'
BY DEF IInv, StoreFindings, IsCurrent, Current, Published, BecomesNotReady

\* A run that is requested will find what the last one has not.
LEMMA Requested ==
  ASSUME storePending' = TRUE \/ ~IsCurrent(cluster') \/ ~IsCurrent(store')
  PROVE StoreFindings'
BY DEF StoreFindings

-----------------------------------------------------------------------------
\* The groups

LEMMA GroupTyped ==
  ASSUME NEW status \in GroupStatus
  PROVE /\ \A l \in Leader, S \in SUBSET Member :
             LET new == [status EXCEPT !.n = status.n + 1, !.leader = l, !.followers = S]
             IN new \in GroupStatus /\ new.n = status.n + 1
        /\ \A S \in SUBSET Member :
             LET new == [status EXCEPT !.n = status.n + 1, !.followers = S]
             IN new \in GroupStatus /\ new.n = status.n + 1
        /\ \A b \in BOOLEAN :
             LET new == [status EXCEPT !.n = status.n + 1, !.ready = b]
             IN new \in GroupStatus /\ new.n = status.n + 1
<1>1. PICK k \in Nat : k = status.n + 1
      BY DEF GroupStatus
<1>2. /\ \A l \in Leader, S \in SUBSET Member :
           LET new == [status EXCEPT !.n = k, !.leader = l, !.followers = S]
           IN new \in GroupStatus /\ new.n = k
      /\ \A S \in SUBSET Member :
           LET new == [status EXCEPT !.n = k, !.followers = S] IN new \in GroupStatus /\ new.n = k
      /\ \A b \in BOOLEAN :
           LET new == [status EXCEPT !.n = k, !.ready = b] IN new \in GroupStatus /\ new.n = k
      BY DEF GroupStatus
<1> QED
    BY <1>1, <1>2

LEMMA GroupWritten ==
  ASSUME IInv, NEW g \in Group, NEW status \in GroupStatus, status.n = Current(groups[g]).n + 1,
         WriteGroup(g, status)
  PROVE /\ groups' \in [Group -> Seq(GroupStatus)] /\ \A h \in Group : groups'[h] # <<>>
        /\ \A h \in Group : Cached(groups'[h]) = Cached(groups[h])
        /\ \A h \in Group : Current(groups[h]).n <= Current(groups'[h]).n
        /\ \A h \in Group : \A i, j \in DOMAIN groups'[h] : i <= j => groups'[h][i].n <= groups'[h][j].n
<1>1. /\ groups \in [Group -> Seq(GroupStatus)]
      /\ groups' = [groups EXCEPT ![g] = Append(groups[g], status)]
      BY DEF IInv, TypeOK, WriteGroup
<1> DEFINE s == groups[g]
           t == groups'[g]
<1>2. s \in Seq(GroupStatus) /\ s # <<>> /\ Current(s).n \in Nat
      BY Types
<1>3. t = Append(s, status) /\ \A h \in Group \ {g} : groups'[h] = groups[h]
      BY <1>1
<1>4. /\ t \in Seq(GroupStatus) /\ t # <<>> /\ Cached(t) = Cached(s) /\ Current(t) = status
      /\ \A j \in DOMAIN t : (j \in DOMAIN s /\ t[j] = s[j]) \/ (j = Len(s) + 1 /\ t[j] = status)
      BY <1>2, <1>3, Writing
<1>5. /\ Len(s) \in DOMAIN s /\ Current(s) = s[Len(s)]
      /\ \A j \in DOMAIN s : j \in Nat /\ 1 <= j /\ j <= Len(s) /\ s[j] \in GroupStatus
      BY <1>2, Reading
<1>6. \A h \in Group : \A i, j \in DOMAIN groups[h] : i <= j => groups[h][i].n <= groups[h][j].n
      BY DEF IInv, VersionsForward
<1>7. \A x \in GroupStatus : x.n \in Nat
      BY DEF GroupStatus
<1>8. ASSUME NEW i \in DOMAIN t, NEW j \in DOMAIN t, i <= j PROVE t[i].n <= t[j].n
  <2>1. \A k \in DOMAIN s : s[k].n <= Current(s).n /\ s[k].n \in Nat
        BY <1>5, <1>6, <1>7
  <2> HIDE DEF s, t
  <2>2. CASE j \in DOMAIN s /\ i \in DOMAIN s /\ t[j] = s[j] /\ t[i] = s[i]
        BY <1>6, <1>8, <2>2 DEF s
  <2>3. CASE i \in DOMAIN s /\ t[i] = s[i] /\ t[j] = status
    <3>1. /\ s[i].n <= Current(s).n /\ s[i].n \in Nat /\ Current(s).n \in Nat
          /\ status.n = Current(s).n + 1
          BY <1>2, <2>1, <2>3 DEF s
    <3> QED
        BY <2>3, <3>1
  <2>4. CASE t[i] = status /\ t[j] = status
        BY <1>7, <2>4
  <2>5. CASE j \in DOMAIN s /\ i = Len(s) + 1
        BY <1>5, <1>8, <2>5
  <2> QED
      BY <1>4, <2>2, <2>3, <2>4, <2>5
<1>9. Current(s).n <= Current(t).n
      BY <1>2, <1>4
<1>10. \A h \in Group : Current(groups[h]).n \in Nat
      BY Types
<1>11. groups' \in [Group -> Seq(GroupStatus)]
      BY <1>1, <1>4
<1>12. \A h \in Group : groups[h] # <<>>
      BY Types
<1>13. \A h \in Group : h = g \/ groups'[h] = groups[h]
      BY <1>3
<1> HIDE DEF s, t
<1>14. groups[g] = s /\ groups'[g] = t
      BY DEF s, t
<1>15. \A h \in Group : /\ groups'[h] # <<>> /\ Cached(groups'[h]) = Cached(groups[h])
                        /\ Current(groups[h]).n <= Current(groups'[h]).n
      BY <1>4, <1>9, <1>10, <1>12, <1>13, <1>14
<1>16. \A h \in Group : \A i, j \in DOMAIN groups'[h] :
         i <= j => groups'[h][i].n <= groups'[h][j].n
      BY <1>6, <1>8, <1>13, <1>14
<1> QED
    BY <1>11, <1>15, <1>16

\* A change of the groups that the cache follows leaves what is said of them behind it.
LEMMA GroupsStep ==
  ASSUME IInv, groups' \in [Group -> Seq(GroupStatus)], \A g \in Group : groups'[g] # <<>>,
         \A g \in Group : Cached(groups[g]).n <= Cached(groups'[g]).n,
         \A g \in Group : \A i, j \in DOMAIN groups'[g] : i <= j => groups'[g][i].n <= groups'[g][j].n,
         UNCHANGED <<cluster, clusterPc, clusterCopy, partitions>>
  PROVE VersionsForward' /\ ClusterFollows'
<1>1. \A g \in Group : /\ Cached(groups[g]).n \in Nat
                       /\ NumberOf(Current(cluster).partitions)[g] \in Nat
      BY Types, Numbers
<1>2. \A g \in Group : Cached(groups'[g]).n \in Nat
  <2>1. \A g \in Group : Cached(groups'[g]) \in GroupStatus
        BY Reading
  <2> QED
      BY <2>1 DEF GroupStatus
<1>3. VersionsForward'
      BY DEF IInv, VersionsForward, NumberOf
<1>4. partitions \in Seq(Partition) /\ Len(partitions) <= NumGroups
      BY DEF IInv, TypeOK
<1>5. DOMAIN partitions \subseteq Group
      BY <1>4, StorePipelineAssumption DEF Group
<1>6. \A g \in Group : NumberOf(Current(cluster).partitions)[g] <= Cached(groups'[g]).n
      BY <1>1, <1>2 DEF IInv, ClusterFollows
<1>7. \A g \in DOMAIN partitions :
        partitions[g].n \in NumberOf(Current(cluster).partitions)[g]..Cached(groups'[g]).n
      BY <1>1, <1>2, <1>5 DEF IInv, ClusterFollows
<1>8. ClusterFollows'
      BY <1>6, <1>7 DEF IInv, ClusterFollows, NumberOf
<1> QED
    BY <1>3, <1>8

LEMMA RecordStep ==
  ASSUME IInv, NEW g \in Group,
         (\E l \in Leader : RecordLeader(g, l)) \/ (\E m \in Member : RecordReady(g, m))
  PROVE IInv'
<1>1. UNCHANGED <<cluster, store, dataStore, externalVars, clusterVars, storeVars>>
      BY DEF RecordLeader, RecordReady
<1>2. PICK status \in GroupStatus : status.n = Current(groups[g]).n + 1 /\ WriteGroup(g, status)
  <2>1. PICK old \in GroupStatus : old = Current(groups[g])
        BY Types
  <2>2. ASSUME NEW l \in Leader, RecordLeader(g, l)
        PROVE \E status \in GroupStatus : status.n = Current(groups[g]).n + 1 /\ WriteGroup(g, status)
    <3>1. PICK S \in SUBSET Member : S = (old.followers \cup {old.leader}) \ {l, NoMember}
          BY DEF GroupStatus, Leader
    <3>2. WriteGroup(g, [old EXCEPT !.n = old.n + 1, !.leader = l, !.followers = S])
          BY <2>1, <2>2, <3>1 DEF RecordLeader
    <3> QED
        BY <2>1, <3>2, GroupTyped
  <2>3. ASSUME NEW m \in Member, RecordReady(g, m)
        PROVE \E status \in GroupStatus : status.n = Current(groups[g]).n + 1 /\ WriteGroup(g, status)
    <3>1. PICK S \in SUBSET Member : S = old.followers \cup {m}
          BY DEF GroupStatus
    <3>2. WriteGroup(g, [old EXCEPT !.n = old.n + 1, !.followers = S])
          BY <2>1, <2>3, <3>1 DEF RecordReady
    <3> QED
        BY <2>1, <3>2, GroupTyped
  <2> QED
      BY <2>2, <2>3
<1>3. /\ groups' \in [Group -> Seq(GroupStatus)] /\ \A h \in Group : groups'[h] # <<>>
      /\ \A h \in Group : Cached(groups'[h]) = Cached(groups[h])
      /\ \A h \in Group : \A i, j \in DOMAIN groups'[h] : i <= j => groups'[h][i].n <= groups'[h][j].n
      BY <1>2, GroupWritten
<1>4. \A h \in Group : Cached(groups[h]).n <= Cached(groups'[h]).n
      BY <1>3, Types
<1>5. TypeOK'
      BY <1>1, <1>3 DEF IInv, TypeOK, externalVars, clusterVars, storeVars
<1>6. VersionsForward' /\ ClusterFollows'
      BY <1>1, <1>3, <1>4, GroupsStep DEF clusterVars
<1> QED
    BY <1>1, <1>5, <1>6, SameStore, SameFindings DEF IInv, storeVars

LEMMA SyncGroupStep == ASSUME IInv, NEW g \in Group, SyncGroup(g) PROVE IInv'
<1>1. /\ Len(groups[g]) > 1 /\ groups' = [groups EXCEPT ![g] = Tail(groups[g])]
      /\ clusterPending' = TRUE
      /\ UNCHANGED <<cluster, store, dataStore, externalVars, clusterPc, clusterCopy, at,
                     allReady, partitions, storeVars>>
      BY DEF SyncGroup
<1>2. groups \in [Group -> Seq(GroupStatus)] /\ \A h \in Group : groups[h] # <<>>
      BY DEF IInv, TypeOK
<1> DEFINE s == groups[g]
           t == groups'[g]
<1>3. t = Tail(s) /\ \A h \in Group : h = g \/ groups'[h] = groups[h]
      BY <1>1, <1>2
<1>4. /\ t \in Seq(GroupStatus) /\ t # <<>> /\ Cached(t) = s[2] /\ 2 \in DOMAIN s
      /\ \A j \in DOMAIN t : (j + 1) \in DOMAIN s /\ t[j] = s[j + 1]
      BY <1>1, <1>2, <1>3, Syncing
<1>5. /\ 1 \in DOMAIN s /\ Cached(s) = s[1]
      /\ \A j \in DOMAIN t : j \in Nat
  <2>1. s \in Seq(GroupStatus) /\ s # <<>>
        BY <1>2
  <2> QED
      BY <1>4, <2>1, Reading
<1>6. groups' \in [Group -> Seq(GroupStatus)]
      BY <1>1, <1>2, <1>4
<1>7. \A h \in Group : \A i, j \in DOMAIN groups[h] : i <= j => groups[h][i].n <= groups[h][j].n
      BY DEF IInv, VersionsForward
<1>8. \A h \in Group : Cached(groups[h]).n \in Nat
      BY Types
<1> HIDE DEF s, t
<1>9. groups[g] = s /\ groups'[g] = t
      BY DEF s, t
<1>10. \A h \in Group : groups'[h] # <<>> /\ Cached(groups[h]).n <= Cached(groups'[h]).n
  <2>1. Cached(s).n <= Cached(t).n
        BY <1>4, <1>5, <1>7, <1>9
  <2>2. ASSUME NEW h \in Group
        PROVE groups'[h] # <<>> /\ Cached(groups[h]).n <= Cached(groups'[h]).n
    <3>1. CASE h = g
          BY <1>4, <1>9, <2>1, <3>1
    <3>2. CASE groups'[h] = groups[h]
          BY <1>2, <1>8, <3>2
    <3> QED
        BY <1>3, <3>1, <3>2
  <2> QED
      BY <2>2
<1>11. \A h \in Group : \A i, j \in DOMAIN groups'[h] : i <= j => groups'[h][i].n <= groups'[h][j].n
  <2>1. ASSUME NEW i \in DOMAIN t, NEW j \in DOMAIN t, i <= j PROVE t[i].n <= t[j].n
    <3>1. i + 1 \in DOMAIN s /\ j + 1 \in DOMAIN s /\ i + 1 <= j + 1
          BY <1>4, <1>5, <2>1
    <3>2. s[i + 1].n <= s[j + 1].n
          BY <1>7, <1>9, <3>1
    <3> QED
        BY <1>4, <3>2
  <2> QED
      BY <1>3, <1>7, <1>9, <2>1
<1>12. VersionsForward' /\ ClusterFollows'
      BY <1>1, <1>6, <1>10, <1>11, GroupsStep
<1>13. TypeOK'
      BY <1>1, <1>6, <1>10 DEF IInv, TypeOK, externalVars, storeVars
<1> QED
    BY <1>1, <1>12, <1>13, SameStore, SameFindings DEF IInv, storeVars

-----------------------------------------------------------------------------
\* The cluster

LEMMA ClusterWritten ==
  ASSUME IInv, NEW status \in ClusterStatus, Write(cluster, status), status.state # "absent",
         \A g \in Group : NumberOf(Current(cluster).partitions)[g] <= NumberOf(status.partitions)[g],
         UNCHANGED groups
  PROVE /\ cluster' \in Seq(ClusterStatus) /\ cluster' # <<>> /\ ~IsCurrent(cluster')
        /\ Cached(cluster') = Cached(cluster) /\ Current(cluster') = status
        /\ \A i \in DOMAIN cluster' : cluster'[i].state = "absent" => cluster'[i].partitions = NoPartitions
        /\ VersionsForward'
<1>1. cluster \in Seq(ClusterStatus) /\ cluster # <<>> /\ cluster' = Append(cluster, status)
      BY DEF IInv, TypeOK, Write
<1>2. /\ cluster' \in Seq(ClusterStatus) /\ cluster' # <<>> /\ ~IsCurrent(cluster')
      /\ Cached(cluster') = Cached(cluster) /\ Current(cluster') = status
      /\ \A j \in DOMAIN cluster' : \/ j \in DOMAIN cluster /\ cluster'[j] = cluster[j]
                                    \/ j = Len(cluster) + 1 /\ cluster'[j] = status
      BY <1>1, Writing
<1>3. /\ Len(cluster) \in DOMAIN cluster /\ Current(cluster) = cluster[Len(cluster)]
      /\ \A j \in DOMAIN cluster : j \in Nat /\ 1 <= j /\ j <= Len(cluster) /\ cluster[j] \in ClusterStatus
      BY <1>1, Reading
<1>4. /\ \A g \in Group : \A i, j \in DOMAIN cluster : i <= j =>
           NumberOf(cluster[i].partitions)[g] <= NumberOf(cluster[j].partitions)[g]
      /\ \A i \in DOMAIN cluster : cluster[i].state = "absent" => cluster[i].partitions = NoPartitions
      BY DEF IInv, VersionsForward, ClusterFollows
<1>5. \A i \in DOMAIN cluster' : cluster'[i].state = "absent" => cluster'[i].partitions = NoPartitions
      BY <1>2, <1>4
<1>6. \A c \in ClusterStatus, g \in Group : NumberOf(c.partitions)[g] \in Nat
  <2>1. \A c \in ClusterStatus : c.partitions \in Seq(Partition)
        BY DEF ClusterStatus
  <2> QED
      BY <2>1, Numbers
<1>7. ASSUME NEW g \in Group, NEW i \in DOMAIN cluster', NEW j \in DOMAIN cluster', i <= j
      PROVE NumberOf(cluster'[i].partitions)[g] <= NumberOf(cluster'[j].partitions)[g]
  <2>1. CASE j \in DOMAIN cluster /\ i \in DOMAIN cluster /\ cluster'[j] = cluster[j] /\ cluster'[i] = cluster[i]
        BY <1>4, <1>7, <2>1
  <2>2. CASE i \in DOMAIN cluster /\ cluster'[i] = cluster[i] /\ cluster'[j] = status
    <3>1. /\ NumberOf(cluster[i].partitions)[g] <= NumberOf(Current(cluster).partitions)[g]
          /\ NumberOf(Current(cluster).partitions)[g] <= NumberOf(status.partitions)[g]
          BY <1>3, <1>4, <2>2
    <3>2. /\ NumberOf(cluster[i].partitions)[g] \in Nat
          /\ NumberOf(Current(cluster).partitions)[g] \in Nat
          /\ NumberOf(status.partitions)[g] \in Nat
          BY <1>3, <1>6, <2>2
    <3>3. NumberOf(cluster[i].partitions)[g] <= NumberOf(status.partitions)[g]
          BY <3>1, <3>2
    <3> QED
        BY <2>2, <3>3
  <2>3. CASE cluster'[i] = status /\ cluster'[j] = status
    <3>1. NumberOf(status.partitions)[g] \in Nat
          BY <1>6
    <3> QED
        BY <2>3, <3>1
  <2>4. CASE j \in DOMAIN cluster /\ i = Len(cluster) + 1
        BY <1>3, <1>7, <2>4
  <2> QED
      BY <1>2, <2>1, <2>2, <2>3, <2>4
<1>8. \A g \in Group : \A i, j \in DOMAIN groups'[g] : i <= j => groups'[g][i].n <= groups'[g][j].n
      BY DEF IInv, VersionsForward
<1> QED
    BY <1>2, <1>5, <1>7, <1>8 DEF VersionsForward, NumberOf

\* The store controller goes on as before, since the cache does not have the write.
LEMMA StoreGoesOn ==
  ASSUME IInv, Cached(cluster') = Cached(cluster), UNCHANGED <<dataStore, storePc, source>>
  PROVE StoreFollows'
BY DEF IInv, StoreFollows, NumberOf

LEMMA EditClusterStep == ASSUME IInv, EditCluster PROVE IInv'
<1>1. /\ failures' = failures + 1 /\ Current(cluster).state # "absent"
      /\ Write(cluster, Current(cluster))
      /\ clusterCopy' = [clusterCopy EXCEPT !.latest = FALSE]
      /\ UNCHANGED <<groups, store, dataStore, podMissing, clusterPending, clusterPc, at,
                     allReady, partitions, storeVars>>
      BY DEF EditCluster, Fails
<1>2. Current(cluster) \in ClusterStatus /\ \A g \in Group : NumberOf(Current(cluster).partitions)[g] \in Nat
      BY Types, Numbers
<1>3. /\ cluster' \in Seq(ClusterStatus) /\ cluster' # <<>> /\ ~IsCurrent(cluster')
      /\ Cached(cluster') = Cached(cluster) /\ Current(cluster') = Current(cluster)
      /\ \A i \in DOMAIN cluster' : cluster'[i].state = "absent" => cluster'[i].partitions = NoPartitions
      /\ VersionsForward'
      BY <1>1, <1>2, ClusterWritten
<1>4. clusterCopy' \in ClusterCopy /\ clusterCopy'.status = clusterCopy.status /\ ~clusterCopy'.latest
      BY <1>1 DEF IInv, TypeOK, ClusterCopy
<1>5. TypeOK'
      BY <1>1, <1>3, <1>4 DEF IInv, TypeOK, storeVars
<1>6. ClusterFollows'
      BY <1>1, <1>3, <1>4 DEF IInv, ClusterFollows, NumberOf
<1> QED
    BY <1>1, <1>3, <1>5, <1>6, StoreGoesOn, Requested DEF IInv, storeVars

LEMMA SyncClusterStep == ASSUME IInv, SyncCluster PROVE IInv'
<1>1. /\ Len(cluster) > 1 /\ cluster' = Tail(cluster)
      /\ clusterPending' = TRUE /\ storePending' = TRUE
      /\ UNCHANGED <<groups, store, dataStore, externalVars, clusterPc, clusterCopy, at,
                     allReady, partitions, storePc, storeCopy, source, misjudged>>
      BY DEF SyncCluster
<1>2. cluster \in Seq(ClusterStatus) /\ cluster # <<>>
      BY DEF IInv, TypeOK
<1>3. /\ cluster' \in Seq(ClusterStatus) /\ cluster' # <<>>
      /\ Current(cluster') = Current(cluster) /\ Cached(cluster') = cluster[2] /\ 2 \in DOMAIN cluster
      /\ \A j \in DOMAIN cluster' : (j + 1) \in DOMAIN cluster /\ cluster'[j] = cluster[j + 1]
      BY <1>1, <1>2, Syncing
<1>4. /\ 1 \in DOMAIN cluster /\ Cached(cluster) = cluster[1]
      /\ \A j \in DOMAIN cluster' : j \in Nat
  <2>1. /\ 1 \in DOMAIN cluster /\ Cached(cluster) = cluster[1]
        BY <1>2, Reading
  <2>2. \A j \in DOMAIN cluster' : j \in Nat
        BY <1>3, Reading
  <2> QED
      BY <2>1, <2>2
<1>5. \A g \in Group : \A i, j \in DOMAIN cluster : i <= j =>
        NumberOf(cluster[i].partitions)[g] <= NumberOf(cluster[j].partitions)[g]
      BY DEF IInv, VersionsForward
<1>6. TypeOK'
      BY <1>1, <1>3 DEF IInv, TypeOK, externalVars
<1>7. ASSUME NEW g \in Group, NEW i \in DOMAIN cluster', NEW j \in DOMAIN cluster', i <= j
      PROVE NumberOf(cluster'[i].partitions)[g] <= NumberOf(cluster'[j].partitions)[g]
  <2>1. i + 1 \in DOMAIN cluster /\ j + 1 \in DOMAIN cluster /\ i + 1 <= j + 1
        BY <1>3, <1>4, <1>7
  <2>2. NumberOf(cluster[i + 1].partitions)[g] <= NumberOf(cluster[j + 1].partitions)[g]
        BY <1>5, <2>1
  <2> QED
      BY <1>3, <2>2
<1>8. VersionsForward'
      BY <1>1, <1>7 DEF IInv, VersionsForward, NumberOf
<1>9. ClusterFollows'
      BY <1>1, <1>3 DEF IInv, ClusterFollows, NumberOf
<1>10. \A g \in Group : NumberOf(Cached(cluster).partitions)[g] <= NumberOf(Cached(cluster').partitions)[g]
      BY <1>3, <1>4, <1>5
<1>11. \A g \in Group : /\ NumberOf(Cached(cluster).partitions)[g] \in Nat
                        /\ NumberOf(Cached(cluster').partitions)[g] \in Nat
                        /\ NumberOf(source.partitions)[g] \in Nat
                        /\ NumberOf(Current(dataStore))[g] \in Nat
  <2>1. Cached(cluster') \in ClusterStatus
        BY <1>3, Reading
  <2>2. Cached(cluster').partitions \in Seq(Partition)
        BY <2>1 DEF ClusterStatus
  <2> QED
      BY <2>2, Types, Numbers
<1>12. StoreFollows'
  <2>1. ASSUME NEW g \in Group
        PROVE /\ NumberOf(Current(dataStore))[g] <= NumberOf(Cached(cluster').partitions)[g]
              /\ storePc = "dataStore" =>
                   NumberOf(source.partitions)[g]
                     \in NumberOf(Current(dataStore))[g]..NumberOf(Cached(cluster').partitions)[g]
        BY <1>10, <1>11 DEF IInv, StoreFollows
  <2> QED
      BY <1>1, <2>1 DEF StoreFollows, NumberOf
<1> QED
    BY <1>1, <1>6, <1>8, <1>9, <1>12, Requested DEF IInv

-----------------------------------------------------------------------------
\* The store, its DataStore, pods and restarts

LEMMA EditStoreStep == ASSUME IInv, EditStore PROVE IInv'
<1>1. /\ failures' = failures + 1 /\ store' = Append(store, Current(store))
      /\ storeCopy' = [storeCopy EXCEPT !.latest = FALSE]
      /\ UNCHANGED <<groups, cluster, dataStore, podMissing, clusterVars, storePending,
                     storePc, source, misjudged>>
      BY DEF EditStore, Fails, Write
<1>2. store' \in Seq(StoreState) /\ store' # <<>> /\ ~IsCurrent(store')
  <2>1. store \in Seq(StoreState) /\ store # <<>> /\ Current(store) \in StoreState
        BY Types DEF IInv, TypeOK
  <2> QED
      BY <1>1, <2>1, Writing
<1>3. storeCopy' \in StoreCopy
      BY <1>1 DEF IInv, TypeOK, StoreCopy
<1>4. TypeOK'
      BY <1>1, <1>2, <1>3 DEF IInv, TypeOK, clusterVars
<1> QED
    BY <1>1, <1>2, <1>4, SameCluster, SameStore, Requested DEF IInv, clusterVars

LEMMA SyncStoreStep == ASSUME IInv, SyncStore PROVE IInv'
<1>1. /\ Len(store) > 1 /\ store' = Tail(store) /\ storePending' = TRUE
      /\ UNCHANGED <<groups, cluster, dataStore, externalVars, clusterVars, storePc,
                     storeCopy, source, misjudged>>
      BY DEF SyncStore
<1>2. store' \in Seq(StoreState) /\ store' # <<>>
      BY <1>1, Syncing DEF IInv, TypeOK
<1>3. TypeOK'
      BY <1>1, <1>2 DEF IInv, TypeOK, externalVars, clusterVars
<1> QED
    BY <1>1, <1>3, SameCluster, SameStore, Requested DEF IInv, clusterVars

LEMMA SyncDataStoreStep == ASSUME IInv, SyncDataStore PROVE IInv'
<1>1. /\ Len(dataStore) > 1 /\ dataStore' = Tail(dataStore)
      /\ UNCHANGED <<groups, cluster, store, externalVars, clusterVars, storeVars>>
      BY DEF SyncDataStore
<1>2. /\ dataStore' \in Seq(Seq(Partition)) /\ dataStore' # <<>>
      /\ Current(dataStore') = Current(dataStore)
      BY <1>1, Syncing DEF IInv, TypeOK
<1>3. TypeOK'
      BY <1>1, <1>2 DEF IInv, TypeOK, externalVars, clusterVars, storeVars
<1>4. StoreFollows'
      BY <1>1, <1>2 DEF IInv, StoreFollows, NumberOf, Cached, storeVars
<1> QED
    BY <1>1, <1>3, <1>4, SameCluster, SameFindings DEF IInv, clusterVars, storeVars

LEMMA PodStep == ASSUME IInv, LosePod \/ CreatePod PROVE IInv'
<1>1. /\ podMissing' \in BOOLEAN /\ (failures' = failures + 1 \/ failures' = failures)
      /\ UNCHANGED <<resourceVars, clusterVars, storeVars>>
      BY DEF LosePod, CreatePod, Fails
<1>2. TypeOK'
      BY <1>1 DEF IInv, TypeOK, resourceVars, clusterVars, storeVars
<1> QED
    BY <1>1, <1>2, SameCluster, SameStore, SameFindings DEF IInv, resourceVars, clusterVars, storeVars

\* A restart brings the caches up to date and forgets the runs.
\* The caches' versions are not newer than the latest.
LEMMA CacheBehind ==
  ASSUME IInv
  PROVE \A g \in Group :
          /\ Cached(groups[g]).n <= Current(groups[g]).n
          /\ NumberOf(Cached(cluster).partitions)[g] <= NumberOf(Current(cluster).partitions)[g]
<1> SUFFICES ASSUME NEW g \in Group
             PROVE /\ Cached(groups[g]).n <= Current(groups[g]).n
                   /\ NumberOf(Cached(cluster).partitions)[g] <= NumberOf(Current(cluster).partitions)[g]
    OBVIOUS
<1>1. groups[g] \in Seq(GroupStatus) /\ groups[g] # <<>> /\ cluster \in Seq(ClusterStatus) /\ cluster # <<>>
      BY DEF IInv, TypeOK
<1>2. /\ 1 \in DOMAIN groups[g] /\ Len(groups[g]) \in DOMAIN groups[g] /\ 1 <= Len(groups[g])
      /\ Cached(groups[g]) = groups[g][1] /\ Current(groups[g]) = groups[g][Len(groups[g])]
      BY <1>1, Reading
<1>3. /\ 1 \in DOMAIN cluster /\ Len(cluster) \in DOMAIN cluster /\ 1 <= Len(cluster)
      /\ Cached(cluster) = cluster[1] /\ Current(cluster) = cluster[Len(cluster)]
      BY <1>1, Reading
<1> QED
    BY <1>2, <1>3 DEF IInv, VersionsForward

LEMMA RestartStep == ASSUME IInv, Restart PROVE IInv'
<1>1. /\ failures' = failures + 1
      /\ groups' = [g \in Group |-> <<Current(groups[g])>>]
      /\ cluster' = <<Current(cluster)>> /\ store' = <<Current(store)>>
      /\ dataStore' = <<Current(dataStore)>>
      /\ clusterPending' = (Current(cluster).state # "absent")
      /\ clusterPc' = "idle" /\ clusterCopy' = NoClusterCopy /\ at' = 1 /\ allReady' = TRUE
      /\ partitions' = NoPartitions
      /\ storePending' = TRUE /\ storePc' = "idle" /\ storeCopy' = NoStoreCopy
      /\ source' = NoCluster /\ misjudged' = FALSE /\ podMissing' = podMissing
      BY DEF Restart, Fails
<1>2. \A g \in Group : /\ groups'[g] \in Seq(GroupStatus) /\ groups'[g] # <<>>
                       /\ Cached(groups'[g]) = Current(groups[g])
                       /\ \A j \in DOMAIN groups'[g] : j = 1
  <2>1. ASSUME NEW g \in Group
        PROVE /\ groups'[g] \in Seq(GroupStatus) /\ groups'[g] # <<>>
              /\ Cached(groups'[g]) = Current(groups[g])
              /\ \A j \in DOMAIN groups'[g] : j = 1
    <3>1. groups'[g] = <<Current(groups[g])>> /\ Current(groups[g]) \in GroupStatus
          BY <1>1, Types
    <3> QED
        BY <3>1, First
  <2> QED
      BY <2>1
<1>3. /\ cluster' \in Seq(ClusterStatus) /\ cluster' # <<>>
      /\ Cached(cluster') = Current(cluster) /\ Current(cluster') = Current(cluster)
      /\ \A j \in DOMAIN cluster' : j = 1 /\ cluster'[j] = Current(cluster)
  <2>1. Current(cluster) \in ClusterStatus
        BY Types
  <2> QED
      BY <1>1, <2>1, First
<1>4. store' \in Seq(StoreState) /\ store' # <<>>
  <2>1. Current(store) \in StoreState
        BY Types
  <2> QED
      BY <1>1, <2>1, First
<1>5. /\ dataStore' \in Seq(Seq(Partition)) /\ dataStore' # <<>>
      /\ Current(dataStore') = Current(dataStore)
  <2>1. Current(dataStore) \in Seq(Partition)
        BY Types
  <2> QED
      BY <1>1, <2>1, First
<1>6. TypeOK'
  <2>1. groups' \in [Group -> Seq(GroupStatus)]
        BY <1>1, <1>2
  <2>2. at' \in 1..(NumGroups + 1) /\ Len(partitions') <= NumGroups
    <3>1. Len(NoPartitions) = 0
          BY DEF NoPartitions
    <3> QED
        BY <1>1, <3>1, StorePipelineAssumption
  <2>3. /\ clusterCopy' \in ClusterCopy /\ partitions' \in Seq(Partition)
        /\ storeCopy' \in StoreCopy /\ source' \in ClusterStatus
        BY <1>1, StatusTypes
  <2>4. clusterPending' \in BOOLEAN
        BY <1>1
  <2>5. failures \in Nat /\ podMissing \in BOOLEAN
        BY DEF IInv, TypeOK
  <2>6. failures' \in Nat
    <3>1. failures' = failures + 1
          BY <1>1
    <3> QED
        BY <2>5, <3>1
  <2>7. /\ podMissing' \in BOOLEAN /\ allReady' \in BOOLEAN
        /\ clusterPc' \in {"idle", "groups", "status"} /\ storePending' \in BOOLEAN
        /\ storePc' \in {"idle", "cluster", "dataStore"} /\ misjudged' \in BOOLEAN
        BY <1>1, <2>5
  <2> QED
      BY <1>2, <1>3, <1>4, <1>5, <2>1, <2>2, <2>3, <2>4, <2>6, <2>7 DEF TypeOK
<1>7. /\ \A g \in Group : NumberOf(Current(cluster).partitions)[g] \in Nat
      /\ \A g \in Group : Cached(groups[g]).n <= Current(groups[g]).n
      /\ \A g \in Group : Cached(groups[g]).n \in Nat /\ Current(groups[g]).n \in Nat
      /\ \A g \in Group : NumberOf(Cached(cluster).partitions)[g] <= NumberOf(Current(cluster).partitions)[g]
      /\ \A g \in Group : NumberOf(Cached(cluster).partitions)[g] \in Nat
      /\ \A g \in Group : NumberOf(Current(dataStore))[g] \in Nat
      BY CacheBehind, Types, Numbers
<1>8. VersionsForward'
  <2>1. \A g \in Group : \A i, j \in DOMAIN groups'[g] : groups'[g][i].n <= groups'[g][j].n
    <3>1. \A g \in Group : \A j \in DOMAIN groups'[g] : groups'[g][j] = Cached(groups'[g])
          BY <1>2 DEF Cached
    <3> QED
        BY <1>2, <1>7, <3>1
  <2>2. \A g \in Group : \A i, j \in DOMAIN cluster' :
          NumberOf(cluster'[i].partitions)[g] <= NumberOf(cluster'[j].partitions)[g]
        BY <1>3, <1>7
  <2> QED
      BY <2>1, <2>2 DEF VersionsForward, NumberOf
<1>9. ClusterFollows'
  <2>1. \A i \in DOMAIN cluster' : cluster'[i].state = "absent" => cluster'[i].partitions = NoPartitions
    <3>1. cluster \in Seq(ClusterStatus) /\ cluster # <<>>
          BY DEF IInv, TypeOK
    <3>2. Current(cluster).state = "absent" => Current(cluster).partitions = NoPartitions
          BY <3>1, Reading DEF IInv, ClusterFollows
    <3> QED
        BY <1>3, <3>2
  <2>2. \A g \in Group : NumberOf(Current(cluster).partitions)[g] <= Cached(groups'[g]).n
    <3>1. \A g \in Group : NumberOf(Current(cluster).partitions)[g] <= Cached(groups[g]).n
          BY DEF IInv, ClusterFollows
    <3> QED
        BY <1>2, <1>7, <3>1
  <2>3. DOMAIN partitions' = {} /\ ~clusterCopy'.latest
    <3>1. ~NoClusterCopy.latest
          BY StatusTypes
    <3> QED
        BY <1>1, <3>1 DEF NoPartitions
  <2> QED
      BY <1>1, <1>3, <2>1, <2>2, <2>3 DEF ClusterFollows, NumberOf
<1>10. StoreFollows'
  <2>1. \A g \in Group : NumberOf(Current(dataStore))[g] <= NumberOf(Current(cluster).partitions)[g]
    <3>1. \A g \in Group : NumberOf(Current(dataStore))[g] <= NumberOf(Cached(cluster).partitions)[g]
          BY DEF IInv, StoreFollows
    <3> QED
        BY <1>7, <3>1
  <2> QED
      BY <1>1, <1>3, <1>5, <2>1 DEF StoreFollows, NumberOf
<1> QED
    BY <1>1, <1>6, <1>8, <1>9, <1>10, Requested DEF IInv

-----------------------------------------------------------------------------
\* The cluster reconciler

LEMMA ClusterRunEnds ==
  ASSUME IInv, NEW e \in BOOLEAN, EndClusterRun(e)
  PROVE /\ clusterPc' = "idle" /\ clusterPending' \in BOOLEAN
        /\ clusterCopy' \in ClusterCopy /\ ~clusterCopy'.latest
        /\ at' \in 1..(NumGroups + 1) /\ allReady' \in BOOLEAN
        /\ partitions' \in Seq(Partition) /\ Len(partitions') <= NumGroups /\ DOMAIN partitions' = {}
<1>1. /\ clusterPc' = "idle" /\ clusterPending' = (clusterPending \/ e)
      /\ clusterCopy' = NoClusterCopy /\ at' = 1 /\ allReady' = TRUE /\ partitions' = NoPartitions
      BY DEF EndClusterRun
<1>2. clusterPending' \in BOOLEAN
      BY <1>1 DEF IInv, TypeOK
<1>3. at' \in 1..(NumGroups + 1)
  <2>1. at' = 1
        BY <1>1
  <2> QED
      BY <2>1, StorePipelineAssumption
<1>4. Len(partitions') <= NumGroups /\ DOMAIN partitions' = {}
  <2>1. partitions' = NoPartitions
        BY <1>1
  <2> QED
      BY <2>1, StorePipelineAssumption DEF NoPartitions
<1> QED
    BY <1>1, <1>2, <1>3, <1>4, StatusTypes

LEMMA EndedFollows ==
  ASSUME IInv, NEW e \in BOOLEAN, EndClusterRun(e),
         \A i \in DOMAIN cluster' : cluster'[i].state = "absent" => cluster'[i].partitions = NoPartitions,
         \A g \in Group : NumberOf(Current(cluster').partitions)[g] <= Cached(groups'[g]).n
  PROVE ClusterFollows'
BY ClusterRunEnds DEF ClusterFollows, NumberOf

\* A run that ends without a write.
LEMMA ClusterRunEndsStep ==
  ASSUME IInv, NEW e \in BOOLEAN, EndClusterRun(e),
         UNCHANGED <<resourceVars, externalVars, storeVars>>
  PROVE IInv'
<1>1. UNCHANGED <<groups, cluster, store, dataStore, podMissing, failures, storePending, storePc,
                  storeCopy, source, misjudged>>
      BY DEF resourceVars, externalVars, storeVars
<1>2. TypeOK'
      BY <1>1, ClusterRunEnds DEF IInv, TypeOK
<1>3. VersionsForward'
      BY <1>1 DEF IInv, VersionsForward, NumberOf
<1>4. ClusterFollows'
      BY <1>1, EndedFollows DEF IInv, ClusterFollows
<1> QED
    BY <1>1, <1>2, <1>3, <1>4, SameStore, SameFindings DEF IInv

LEMMA StateChanged ==
  ASSUME NEW c \in ClusterStatus, NEW x \in {"", "NotReady", "Ready"}
  PROVE LET d == [c EXCEPT !.state = x]
        IN d \in ClusterStatus /\ d.state = x /\ d.partitions = c.partitions
BY DEF ClusterStatus

LEMMA PartitionsChanged ==
  ASSUME NEW c \in ClusterStatus, NEW ps \in Seq(Partition)
  PROVE LET d == [c EXCEPT !.partitions = ps]
        IN d \in ClusterStatus /\ d.state = c.state /\ d.partitions = ps
BY DEF ClusterStatus

LEMMA WriteClusterStep ==
  ASSUME IInv, NEW status \in ClusterStatus, status.state # "absent", WriteCluster(status),
         clusterCopy.latest => \A g \in Group :
           NumberOf(status.partitions)[g] \in NumberOf(Current(cluster).partitions)[g]..Cached(groups[g]).n,
         UNCHANGED <<groups, store, dataStore, externalVars, storeVars>>
  PROVE IInv'
<1>1. CASE clusterCopy.latest /\ Write(cluster, status) /\ EndClusterRun(FALSE)
  <2>1. \A g \in Group : /\ NumberOf(Current(cluster).partitions)[g] <= NumberOf(status.partitions)[g]
                         /\ NumberOf(status.partitions)[g] <= Cached(groups[g]).n
    <3>1. \A g \in Group : /\ NumberOf(Current(cluster).partitions)[g] \in Nat
                           /\ Cached(groups[g]).n \in Nat
          BY Types, Numbers
    <3> QED
        BY <1>1, <3>1
  <2>2. /\ cluster' \in Seq(ClusterStatus) /\ cluster' # <<>> /\ ~IsCurrent(cluster')
        /\ Cached(cluster') = Cached(cluster) /\ Current(cluster') = status
        /\ \A i \in DOMAIN cluster' : cluster'[i].state = "absent" => cluster'[i].partitions = NoPartitions
        /\ VersionsForward'
        BY <1>1, <2>1, ClusterWritten
  <2>3. ClusterFollows'
        BY <1>1, <2>1, <2>2, EndedFollows
  <2>4. TypeOK'
        BY <1>1, <2>2, ClusterRunEnds DEF IInv, TypeOK, externalVars, storeVars
  <2> QED
      BY <2>2, <2>3, <2>4, StoreGoesOn, Requested DEF IInv, storeVars
<1>2. CASE cluster' = cluster /\ EndClusterRun(TRUE)
      BY <1>2, ClusterRunEndsStep DEF resourceVars
<1> QED
    BY <1>1, <1>2 DEF WriteCluster, Accepted

LEMMA GetClusterStep == ASSUME IInv, GetCluster PROVE IInv'
<1>1. /\ clusterPc = "idle" /\ clusterPending' = FALSE
      /\ UNCHANGED <<groups, cluster, store, dataStore, podMissing, failures, allReady, partitions,
                     storePending, storePc, storeCopy, source, misjudged>>
      BY DEF GetCluster, resourceVars, externalVars, storeVars
<1>2. CASE UNCHANGED <<clusterPc, clusterCopy, at>>
  <2>1. TypeOK'
        BY <1>1, <1>2 DEF IInv, TypeOK
  <2> QED
      BY <1>1, <1>2, <2>1, SameCluster, SameStore, SameFindings DEF IInv
<1>3. CASE /\ Cached(cluster).state # "absent"
           /\ clusterPc' = "groups" /\ at' = FirstGroup
           /\ clusterCopy' = [status |-> Cached(cluster), latest |-> IsCurrent(cluster)]
  <2>1. /\ Cached(cluster) \in ClusterStatus /\ IsCurrent(cluster) \in BOOLEAN
        /\ IsCurrent(cluster) => Cached(cluster) = Current(cluster)
        BY Reading DEF IInv, TypeOK
  <2>2. clusterCopy' \in ClusterCopy
        BY <1>3, <2>1 DEF ClusterCopy
  <2>3. /\ clusterCopy'.status = Cached(cluster)
        /\ clusterCopy'.latest => clusterCopy'.status = Current(cluster)
        BY <1>3, <2>1
  <2>4. at' \in 1..(NumGroups + 1)
        BY <1>3, StorePipelineAssumption DEF FirstGroup
  <2>5. TypeOK'
        BY <1>1, <1>3, <2>2, <2>4 DEF IInv, TypeOK
  <2>6. VersionsForward'
        BY <1>1 DEF IInv, VersionsForward, NumberOf
  <2>7. ClusterFollows'
        BY <1>1, <1>3, <2>3 DEF IInv, ClusterFollows, NumberOf
  <2> QED
      BY <1>1, <2>5, <2>6, <2>7, SameStore, SameFindings DEF IInv
<1> QED
    BY <1>2, <1>3 DEF GetCluster

LEMMA ReconcileGroupStep == ASSUME IInv, ReconcileGroup PROVE IInv'
<1>1. /\ at \in Group /\ at' = at + 1 /\ allReady' = (allReady /\ Cached(groups[at]).ready)
      /\ UNCHANGED <<groups, cluster, store, dataStore, podMissing, failures, clusterPending, clusterPc,
                     clusterCopy, partitions, storePending, storePc, storeCopy, source, misjudged>>
      BY DEF ReconcileGroup, resourceVars, externalVars, storeVars
<1>2. at' \in 1..(NumGroups + 1)
  <2>1. at \in Group /\ at' = at + 1
        BY <1>1
  <2> QED
      BY <2>1, StorePipelineAssumption DEF Group
<1>3. allReady' \in BOOLEAN
      BY <1>1
<1>4. TypeOK'
  <2>1. UNCHANGED <<groups, cluster, store, dataStore, podMissing, failures, clusterPending, clusterPc,
                     clusterCopy, partitions, storePending, storePc, storeCopy, source, misjudged>>
        BY <1>1
  <2> QED
      BY <1>2, <1>3, <2>1 DEF IInv, TypeOK
<1> QED
    BY <1>1, <1>4, SameCluster, SameStore, SameFindings DEF IInv

LEMMA FailGroupStep == ASSUME IInv, FailGroup PROVE IInv'
BY ClusterRunEndsStep DEF FailGroup

LEMMA UpdateGroupStateStep == ASSUME IInv, UpdateGroupState PROVE IInv'
<1>1. at \in Group /\ UNCHANGED <<cluster, store, dataStore, externalVars, storeVars>>
      BY DEF UpdateGroupState
<1>2. CASE /\ IsCurrent(groups[at])
           /\ WriteGroup(at, [Cached(groups[at]) EXCEPT !.n = @ + 1, !.ready = ~@])
           /\ EndClusterRun(FALSE)
  <2>1. PICK old \in GroupStatus : old = Cached(groups[at]) /\ old = Current(groups[at])
    <3>1. groups[at] \in Seq(GroupStatus) /\ groups[at] # <<>>
          BY <1>1, Types
    <3> QED
        BY <1>2, <3>1, Reading
  <2>2. PICK b \in BOOLEAN : b = ~old.ready
        OBVIOUS
  <2>3. WriteGroup(at, [old EXCEPT !.n = old.n + 1, !.ready = b])
        BY <1>2, <2>1, <2>2
  <2>4. PICK status \in GroupStatus : status.n = old.n + 1 /\ WriteGroup(at, status)
        BY <2>3, GroupTyped
  <2>5. /\ groups' \in [Group -> Seq(GroupStatus)] /\ \A h \in Group : groups'[h] # <<>>
        /\ \A h \in Group : Cached(groups'[h]) = Cached(groups[h])
        /\ \A h \in Group : \A i, j \in DOMAIN groups'[h] : i <= j => groups'[h][i].n <= groups'[h][j].n
        BY <1>1, <2>1, <2>4, GroupWritten
  <2>6. TypeOK'
        BY <1>1, <1>2, <2>5, ClusterRunEnds DEF IInv, TypeOK, externalVars, storeVars
  <2>7. VersionsForward'
        BY <1>1, <2>5 DEF IInv, VersionsForward, NumberOf
  <2>8. ClusterFollows'
        BY <1>1, <1>2, <2>5, EndedFollows DEF IInv, ClusterFollows
  <2> QED
      BY <1>1, <2>6, <2>7, <2>8, SameStore, SameFindings DEF IInv, storeVars
<1>3. CASE groups' = groups /\ EndClusterRun(TRUE)
      BY <1>1, <1>3, ClusterRunEndsStep DEF resourceVars
<1> QED
    BY <1>2, <1>3 DEF UpdateGroupState

LEMMA UpdateStateStep == ASSUME IInv, UpdateState PROVE IInv'
<1>1. clusterPc = "groups" /\ UNCHANGED <<groups, store, dataStore, externalVars, storeVars>>
      BY DEF UpdateState
<1>2. CASE /\ clusterPc' = "status"
           /\ UNCHANGED <<cluster, clusterPending, clusterCopy, at, allReady, partitions>>
  <2>1. TypeOK'
        BY <1>1, <1>2 DEF IInv, TypeOK, externalVars, storeVars
  <2>2. VersionsForward'
        BY <1>1, <1>2 DEF IInv, VersionsForward, NumberOf
  <2>3. ClusterFollows'
        BY <1>1, <1>2 DEF IInv, ClusterFollows, NumberOf
  <2> QED
      BY <1>1, <1>2, <2>1, <2>2, <2>3, SameStore, SameFindings DEF IInv, storeVars
<1> DEFINE state == IF allReady THEN "Ready" ELSE "NotReady"
<1>3. state \in {"Ready", "NotReady"}
      OBVIOUS
<1>4. CASE WriteCluster([clusterCopy.status EXCEPT !.state = state])
  <2> HIDE DEF state
  <2>1. PICK old \in ClusterStatus : old = clusterCopy.status
        BY Types
  <2>2. PICK status \in ClusterStatus :
          /\ status = [old EXCEPT !.state = state]
          /\ status.state = state /\ status.partitions = old.partitions
    <3>1. LET d == [old EXCEPT !.state = state]
          IN d \in ClusterStatus /\ d.state = state /\ d.partitions = old.partitions
          BY <1>3, StateChanged
    <3> QED
        BY <3>1
  <2>4. WriteCluster(status) /\ status.state # "absent"
        BY <1>3, <1>4, <2>1, <2>2 DEF WriteCluster
  <2>3. clusterCopy.latest => \A g \in Group :
          NumberOf(status.partitions)[g] \in NumberOf(Current(cluster).partitions)[g]..Cached(groups[g]).n
    <3> SUFFICES ASSUME clusterCopy.latest, NEW g \in Group
                 PROVE NumberOf(status.partitions)[g]
                         \in NumberOf(Current(cluster).partitions)[g]..Cached(groups[g]).n
        OBVIOUS
    <3>1. status.partitions = Current(cluster).partitions
          BY <2>1, <2>2 DEF IInv, ClusterFollows
    <3>2. NumberOf(Current(cluster).partitions)[g] <= Cached(groups[g]).n
          BY DEF IInv, ClusterFollows
    <3>3. NumberOf(Current(cluster).partitions)[g] \in Nat /\ Cached(groups[g]).n \in Nat
          BY Types, Numbers
    <3> QED
        BY <3>1, <3>2, <3>3
  <2> QED
      BY <1>1, <2>3, <2>4, WriteClusterStep
<1> QED
    BY <1>2, <1>4 DEF UpdateState

LEMMA GetPartitionStatusStep == ASSUME IInv, GetPartitionStatus PROVE IInv'
<1> DEFINE k == Len(partitions) + 1
<1>1. /\ Len(partitions) < NumGroups
      /\ UNCHANGED <<groups, cluster, store, dataStore, podMissing, failures, clusterPending, clusterPc,
                     clusterCopy, at, allReady, storePending, storePc, storeCopy, source, misjudged>>
      BY DEF GetPartitionStatus, resourceVars, externalVars, storeVars
<1>2. partitions \in Seq(Partition) /\ Len(partitions) \in Nat
      BY DEF IInv, TypeOK
<1>3. k \in Group
      BY <1>1, <1>2, StorePipelineAssumption DEF Group
<1>4. PICK p \in Partition : p.n = Cached(groups[k]).n /\ partitions' = Append(partitions, p)
  <2>1. PICK group \in GroupStatus : group = Cached(groups[k]) /\ group.n \in Nat
        BY <1>3, Types
  <2>2. LeaderAddress(group) \in Address \cup {NoMember} /\ FollowerAddresses(group) \in Addresses
        BY AddressesOfFollowers
  <2>3. partitions' = Append(partitions, [n |-> group.n, leader |-> LeaderAddress(group),
                                          followers |-> FollowerAddresses(group)])
        BY <2>1 DEF GetPartitionStatus
  <2>4. PICK p \in Partition : /\ p = [n |-> group.n, leader |-> LeaderAddress(group),
                                       followers |-> FollowerAddresses(group)]
                               /\ p.n = group.n
    <3>1. \A n \in Nat, l \in Address \cup {NoMember}, fs \in Addresses :
            LET p == [n |-> n, leader |-> l, followers |-> fs] IN p \in Partition /\ p.n = n
          BY DEF Partition
    <3> QED
        BY <2>1, <2>2, <3>1
  <2> QED
      BY <2>1, <2>3, <2>4
<1>5. /\ partitions' \in Seq(Partition) /\ Len(partitions') <= NumGroups
      /\ \A g \in DOMAIN partitions' : \/ g \in DOMAIN partitions /\ partitions'[g] = partitions[g]
                                       \/ g = k /\ partitions'[g] = p
      BY <1>1, <1>2, <1>4, StorePipelineAssumption
<1>6. TypeOK'
      BY <1>1, <1>5 DEF IInv, TypeOK
<1>7. VersionsForward'
      BY <1>1 DEF IInv, VersionsForward, NumberOf
<1>8. Cached(groups[k]).n \in NumberOf(Current(cluster).partitions)[k]..Cached(groups[k]).n
  <2>1. NumberOf(Current(cluster).partitions)[k] <= Cached(groups[k]).n
        BY <1>3 DEF IInv, ClusterFollows
  <2>2. NumberOf(Current(cluster).partitions)[k] \in Nat /\ Cached(groups[k]).n \in Nat
        BY <1>3, Types, Numbers
  <2> HIDE DEF k
  <2> QED
      BY <2>1, <2>2
<1> HIDE DEF k
<1>9. ClusterFollows'
  <2>1. \A g \in DOMAIN partitions' :
          partitions'[g].n \in NumberOf(Current(cluster).partitions)[g]..Cached(groups[g]).n
        BY <1>4, <1>5, <1>8 DEF IInv, ClusterFollows
  <2> QED
      BY <1>1, <2>1 DEF IInv, ClusterFollows, NumberOf
<1> QED
    BY <1>1, <1>6, <1>7, <1>9, SameStore, SameFindings DEF IInv

LEMMA UpdatePartitionsStep == ASSUME IInv, UpdatePartitions PROVE IInv'
<1>1. /\ clusterPc = "status" /\ Len(partitions) = NumGroups
      /\ UNCHANGED <<groups, store, dataStore, externalVars, storeVars>>
      BY DEF UpdatePartitions
<1>2. CASE EndClusterRun(FALSE) /\ UNCHANGED cluster
      BY <1>1, <1>2, ClusterRunEndsStep DEF resourceVars
<1>3. CASE WriteCluster([clusterCopy.status EXCEPT !.partitions = partitions])
  <2>1. partitions \in Seq(Partition)
        BY DEF IInv, TypeOK
  <2>2. PICK old \in ClusterStatus : old = clusterCopy.status
        BY Types
  <2>3. PICK status \in ClusterStatus :
          /\ status = [old EXCEPT !.partitions = partitions]
          /\ status.state = old.state /\ status.partitions = partitions
    <3>1. LET d == [old EXCEPT !.partitions = partitions]
          IN d \in ClusterStatus /\ d.state = old.state /\ d.partitions = partitions
          BY <2>1, PartitionsChanged
    <3> QED
        BY <3>1
  <2>4. DOMAIN partitions = Group
        BY <1>1, <2>1 DEF Group
  <2>5. \A g \in Group :
          NumberOf(partitions)[g] \in NumberOf(Current(cluster).partitions)[g]..Cached(groups[g]).n
    <3>1. \A g \in Group : NumberOf(partitions)[g] = partitions[g].n
          BY <2>4 DEF NumberOf
    <3> QED
        BY <2>4, <3>1 DEF IInv, ClusterFollows
  <2>6. status.state # "absent"
        BY <1>1, <2>2, <2>3 DEF IInv, ClusterFollows
  <2>7. WriteCluster(status)
        BY <1>3, <2>2, <2>3 DEF WriteCluster
  <2> QED
      BY <1>1, <2>3, <2>5, <2>6, <2>7, WriteClusterStep
<1> QED
    BY <1>2, <1>3 DEF UpdatePartitions

-----------------------------------------------------------------------------
\* The store reconciler

LEMMA StoreRunEnds ==
  ASSUME IInv, NEW e \in BOOLEAN, EndStoreRun(e)
  PROVE /\ storePc' = "idle" /\ storePending' \in BOOLEAN /\ (e => storePending')
        /\ (storePending => storePending')
        /\ storeCopy' \in StoreCopy /\ source' \in ClusterStatus
<1>1. /\ storePc' = "idle" /\ storePending' = (storePending \/ e)
      /\ storeCopy' = NoStoreCopy /\ source' = NoCluster
      BY DEF EndStoreRun
<1>2. storePending' \in BOOLEAN /\ (e => storePending') /\ (storePending => storePending')
      BY <1>1 DEF IInv, TypeOK
<1> QED
    BY <1>1, <1>2, StatusTypes

\* An idle controller has nothing to publish.
LEMMA StoreIdle ==
  ASSUME storePc' = "idle",
         \A g \in Group :
           NumberOf(Current(dataStore'))[g] <= NumberOf(Cached(cluster').partitions)[g]
  PROVE StoreFollows'
BY DEF StoreFollows, NumberOf

\* A run that asks for another one.
LEMMA RequeueStep ==
  ASSUME IInv, EndStoreRun(TRUE), store' \in Seq(StoreState), store' # <<>>, misjudged' \in BOOLEAN,
         UNCHANGED <<groups, cluster, dataStore, externalVars, clusterVars>>
  PROVE IInv'
<1>1. /\ UNCHANGED <<podMissing, failures, clusterPending, clusterPc, clusterCopy, at, allReady, partitions>>
      BY DEF externalVars, clusterVars
<1>2. /\ storePc' = "idle" /\ storePending' \in BOOLEAN /\ storePending'
      /\ storeCopy' \in StoreCopy /\ source' \in ClusterStatus
      BY StoreRunEnds
<1>3. TypeOK'
      BY <1>1, <1>2 DEF IInv, TypeOK
<1>4. StoreFollows'
      BY <1>2, StoreIdle DEF IInv, StoreFollows
<1>5. StoreFindings'
      BY <1>2 DEF StoreFindings
<1> QED
    BY <1>1, <1>3, <1>4, <1>5, SameCluster DEF IInv

LEMMA WriteStoreStateStep ==
  ASSUME IInv, NEW state \in StoreState, WriteStoreState(state), misjudged' \in BOOLEAN,
         UNCHANGED <<groups, cluster, dataStore, externalVars, clusterVars>>
  PROVE IInv'
<1>1. EndStoreRun(TRUE) /\ (store' = store \/ store' = Append(store, state))
      BY DEF WriteStoreState, Write
<1>2. store \in Seq(StoreState) /\ store # <<>>
      BY DEF IInv, TypeOK
<1>3. store' \in Seq(StoreState) /\ store' # <<>>
      BY <1>1, <1>2
<1> QED
    BY <1>1, <1>3, RequeueStep

\* A run that ends: what is left to say of the store is that it is NotReady.
LEMMA StoreEndsStep ==
  ASSUME IInv, EndStoreRun(FALSE), misjudged' \in BOOLEAN,
         UNCHANGED <<groups, cluster, store, dataStore, externalVars, clusterVars>>,
         ~storePending /\ IsCurrent(cluster) /\ IsCurrent(store) =>
           (Published /\ Current(cluster).state = "NotReady" => Current(store) = "NotReady")
  PROVE IInv'
<1>1. UNCHANGED <<podMissing, failures, clusterPending, clusterPc, clusterCopy, at, allReady, partitions>>
      BY DEF externalVars, clusterVars
<1>2. /\ storePc' = "idle" /\ storePending' \in BOOLEAN /\ (storePending => storePending')
      /\ storeCopy' \in StoreCopy /\ source' \in ClusterStatus
      BY StoreRunEnds
<1>3. TypeOK'
      BY <1>1, <1>2 DEF IInv, TypeOK
<1>4. StoreFollows'
      BY <1>2, StoreIdle DEF IInv, StoreFollows
<1>5. StoreFindings'
      BY <1>2 DEF StoreFindings, Published
<1> QED
    BY <1>1, <1>3, <1>4, <1>5, SameCluster DEF IInv

LEMMA GetStoreStep == ASSUME IInv, GetStore PROVE IInv'
<1>1. /\ storePc = "idle" /\ storePending' = FALSE /\ storePc' = "cluster"
      /\ storeCopy' = [state |-> Cached(store), latest |-> IsCurrent(store)]
      /\ UNCHANGED <<groups, cluster, store, dataStore, podMissing, failures, clusterPending, clusterPc,
                     clusterCopy, at, allReady, partitions, source, misjudged>>
      BY DEF GetStore, resourceVars, externalVars, clusterVars
<1>2. /\ Cached(store) \in StoreState /\ IsCurrent(store) \in BOOLEAN
      /\ IsCurrent(store) => Cached(store) = Current(store)
      BY Reading DEF IInv, TypeOK
<1>3. storeCopy' \in StoreCopy /\ storeCopy'.state = Cached(store)
      BY <1>1, <1>2 DEF StoreCopy
<1>4. TypeOK'
      BY <1>1, <1>3 DEF IInv, TypeOK
<1>5. StoreFollows'
      BY <1>1, StoreIdle DEF IInv, StoreFollows, NumberOf
<1>6. StoreFindings'
      BY <1>1, <1>2, <1>3 DEF StoreFindings
<1> QED
    BY <1>1, <1>4, <1>5, <1>6, SameCluster DEF IInv

LEMMA CreateClusterStep == ASSUME IInv, CreateCluster PROVE IInv'
<1>1. /\ Cached(cluster).state = "absent"
      /\ UNCHANGED <<groups, store, dataStore, podMissing, failures, clusterPending, clusterPc, clusterCopy,
                     at, allReady, partitions, misjudged>>
      BY DEF CreateCluster, externalVars, clusterVars
<1>2. cluster \in Seq(ClusterStatus) /\ cluster # <<>>
      BY DEF IInv, TypeOK
<1>3. CASE IsCurrent(cluster) /\ Write(cluster, NewCluster) /\ EndStoreRun(FALSE)
  <2>1. /\ storePc' = "idle" /\ storePending' \in BOOLEAN
        /\ storeCopy' \in StoreCopy /\ source' \in ClusterStatus
        BY <1>3, StoreRunEnds
  <2>2. Current(cluster).partitions = NoPartitions /\ Current(cluster).state = "absent"
        BY <1>1, <1>2, <1>3, Reading DEF IInv, ClusterFollows
  <2>3. NewCluster \in ClusterStatus /\ NewCluster.state # "absent" /\ NewCluster.partitions = NoPartitions
        BY StatusTypes
  <2>4. \A g \in Group : NumberOf(Current(cluster).partitions)[g] <= NumberOf(NewCluster.partitions)[g]
        BY <2>2, <2>3, Numbers
  <2>5. /\ cluster' \in Seq(ClusterStatus) /\ cluster' # <<>> /\ ~IsCurrent(cluster')
        /\ Cached(cluster') = Cached(cluster) /\ Current(cluster') = NewCluster
        /\ \A i \in DOMAIN cluster' : cluster'[i].state = "absent" => cluster'[i].partitions = NoPartitions
        /\ VersionsForward'
        BY <1>1, <1>3, <2>3, <2>4, ClusterWritten
  <2>6. TypeOK'
        BY <1>1, <2>1, <2>5 DEF IInv, TypeOK
  <2>7. ~clusterCopy.latest
        BY <2>2 DEF IInv, ClusterFollows
  <2>8. ClusterFollows'
        BY <1>1, <2>2, <2>3, <2>5, <2>7 DEF IInv, ClusterFollows, NumberOf
  <2>9. StoreFollows'
        BY <1>1, <2>1, <2>5, StoreIdle DEF IInv, StoreFollows
  <2> QED
      BY <2>5, <2>6, <2>8, <2>9, Requested DEF IInv
<1>4. CASE cluster' = cluster /\ EndStoreRun(TRUE)
      BY <1>1, <1>2, <1>4, RequeueStep DEF IInv, TypeOK, externalVars, clusterVars
<1> QED
    BY <1>3, <1>4 DEF CreateCluster

LEMMA ReadClusterStep == ASSUME IInv, ReadCluster PROVE IInv'
<1>1. /\ storePc = "cluster" /\ UNCHANGED <<groups, cluster, dataStore, externalVars, clusterVars, misjudged>>
      BY DEF ReadCluster
<1>2. misjudged' \in BOOLEAN
      BY <1>1 DEF IInv, TypeOK
<1>3. IsCurrent(cluster) => Cached(cluster) = Current(cluster)
      BY Reading DEF IInv, TypeOK
<1>4. CASE Cached(cluster).partitions = NoPartitions /\ EndStoreRun(FALSE) /\ store' = store
      BY <1>1, <1>2, <1>3, <1>4, StoreEndsStep DEF Published
<1>5. CASE WriteStoreState("NotReady")
  <2>1. "NotReady" \in StoreState
        BY DEF StoreState
  <2> QED
      BY <1>1, <1>2, <1>5, <2>1, WriteStoreStateStep
<1>6. CASE /\ ~BecomesNotReady(storeCopy.state, Cached(cluster))
           /\ storePc' = "dataStore" /\ source' = Cached(cluster)
           /\ UNCHANGED <<store, storePending, storeCopy>>
  <2>1. TypeOK'
        BY <1>1, <1>6, Types DEF IInv, TypeOK, externalVars, clusterVars
  <2>2. StoreFollows'
    <3>1. \A g \in Group : /\ NumberOf(Current(dataStore))[g] \in Nat
                           /\ NumberOf(Cached(cluster).partitions)[g] \in Nat
          BY Types, Numbers
    <3> QED
        BY <1>1, <1>6, <3>1 DEF IInv, StoreFollows, NumberOf
  <2>3. StoreFindings'
        BY <1>1, <1>3, <1>6 DEF IInv, StoreFindings, BecomesNotReady
  <2> QED
      BY <1>1, <2>1, <2>2, <2>3, SameCluster DEF IInv, clusterVars
<1> QED
    BY <1>4, <1>5, <1>6 DEF ReadCluster

LEMMA UpdateDataStoreStep == ASSUME IInv, UpdateDataStore PROVE IInv'
<1>1. /\ storePc = "dataStore" /\ misjudged' = FALSE
      /\ UNCHANGED <<groups, cluster, store, podMissing, failures, clusterPending, clusterPc, clusterCopy,
                     at, allReady, partitions>>
      BY DEF UpdateDataStore, externalVars, clusterVars
<1>2. CASE Write(dataStore, source.partitions) /\ EndStoreRun(FALSE)
  <2>1. /\ storePc' = "idle" /\ storePending' \in BOOLEAN /\ (storePending => storePending')
        /\ storeCopy' \in StoreCopy /\ source' \in ClusterStatus
        BY <1>2, StoreRunEnds
  <2>2. /\ dataStore' \in Seq(Seq(Partition)) /\ dataStore' # <<>>
        /\ Current(dataStore') = source.partitions
    <3>1. dataStore \in Seq(Seq(Partition)) /\ dataStore # <<>> /\ source.partitions \in Seq(Partition)
          BY Types DEF IInv, TypeOK
    <3>2. dataStore' = Append(dataStore, source.partitions)
          BY <1>2 DEF Write
    <3> QED
        BY <3>1, <3>2, Writing
  <2>3. TypeOK'
        BY <1>1, <2>1, <2>2 DEF IInv, TypeOK
  <2>4. StoreFollows'
    <3>1. \A g \in Group : NumberOf(source.partitions)[g] <= NumberOf(Cached(cluster).partitions)[g]
          BY <1>1 DEF IInv, StoreFollows
    <3> QED
        BY <1>1, <2>1, <2>2, <3>1, StoreIdle
  <2>5. StoreFindings'
        BY <1>1, <2>1 DEF IInv, StoreFindings, BecomesNotReady, Published
  <2> QED
      BY <1>1, <2>3, <2>4, <2>5, SameCluster DEF IInv
<1>3. CASE dataStore' = dataStore /\ EndStoreRun(TRUE)
      BY <1>1, <1>3, RequeueStep DEF IInv, TypeOK, externalVars, clusterVars
<1> QED
    BY <1>2, <1>3 DEF UpdateDataStore

LEMMA UpdateReadyStep == ASSUME IInv, UpdateReady PROVE IInv'
<1>1. /\ storePc = "dataStore" /\ misjudged' = ~IsCurrent(dataStore)
      /\ UNCHANGED <<groups, cluster, dataStore, externalVars, clusterVars>>
      BY DEF UpdateReady
<1>2. misjudged' \in BOOLEAN
      BY <1>1
<1>3. CASE WriteStoreState("Ready")
  <2>1. "Ready" \in StoreState
        BY DEF StoreState
  <2> QED
      BY <1>1, <1>2, <1>3, <2>1, WriteStoreStateStep
<1>4. CASE EndStoreRun(FALSE) /\ store' = store
  <2>1. ~storePending /\ IsCurrent(cluster) /\ IsCurrent(store) =>
          (Published /\ Current(cluster).state = "NotReady" => Current(store) = "NotReady")
        BY <1>1 DEF IInv, StoreFindings, BecomesNotReady
  <2> QED
      BY <1>1, <1>2, <1>4, <2>1, StoreEndsStep
<1> QED
    BY <1>3, <1>4 DEF UpdateReady

-----------------------------------------------------------------------------
\* The chain of statuses

\* The latest versions say what they have said.
Stays ==
  /\ \A g \in Group : Current(groups'[g]) = Current(groups[g])
  /\ Current(cluster') = Current(cluster)
  /\ Current(dataStore') = Current(dataStore)

\* One of the resources has a new version.
WritesGroup ==
  /\ \E g \in Group : \E status : groups' = [groups EXCEPT ![g] = Append(groups[g], status)]
  /\ UNCHANGED <<cluster, dataStore>>

WritesCluster ==
  /\ \E status : cluster' = Append(cluster, status)
  /\ UNCHANGED <<groups, dataStore>>

WritesDataStore ==
  /\ storePc = "dataStore"
  /\ dataStore' = Append(dataStore, source.partitions)
  /\ UNCHANGED <<groups, cluster>>

LEMMA Unwritten == ASSUME UNCHANGED <<groups, cluster, dataStore>> PROVE Stays
BY DEF Stays, Current

LEMMA SyncsStay ==
  ASSUME IInv, (\E g \in Group : SyncGroup(g)) \/ SyncCluster \/ SyncDataStore \/ Restart
  PROVE Stays
<1>1. ASSUME NEW g \in Group, SyncGroup(g) PROVE Stays
  <2>1. /\ groups \in [Group -> Seq(GroupStatus)] /\ Len(groups[g]) > 1
        /\ groups' = [groups EXCEPT ![g] = Tail(groups[g])] /\ UNCHANGED <<cluster, dataStore>>
        BY <1>1 DEF IInv, TypeOK, SyncGroup
  <2>2. groups[g] \in Seq(GroupStatus)
        BY <2>1
  <2>3. Current(Tail(groups[g])) = Current(groups[g])
        BY <2>1, <2>2, Syncing
  <2>4. \A h \in Group : groups'[h] = IF h = g THEN Tail(groups[g]) ELSE groups[h]
        BY <2>1
  <2>5. \A h \in Group : Current(groups'[h]) = Current(groups[h])
        BY <2>3, <2>4
  <2>6. Current(cluster') = Current(cluster) /\ Current(dataStore') = Current(dataStore)
        BY <2>1 DEF Current
  <2> QED
      BY <2>5, <2>6 DEF Stays
<1>2. CASE SyncCluster
  <2>1. /\ cluster \in Seq(ClusterStatus) /\ Len(cluster) > 1 /\ cluster' = Tail(cluster)
        /\ UNCHANGED <<groups, dataStore>>
        BY <1>2 DEF IInv, TypeOK, SyncCluster
  <2>2. Current(cluster') = Current(cluster)
        BY <2>1, Syncing
  <2> QED
      BY <2>1, <2>2 DEF Stays, Current
<1>3. CASE SyncDataStore
  <2>1. /\ dataStore \in Seq(Seq(Partition)) /\ Len(dataStore) > 1 /\ dataStore' = Tail(dataStore)
        /\ UNCHANGED <<groups, cluster>>
        BY <1>3 DEF IInv, TypeOK, SyncDataStore
  <2>2. Current(dataStore') = Current(dataStore)
        BY <2>1, Syncing
  <2> QED
      BY <2>1, <2>2 DEF Stays, Current
<1>4. CASE Restart
  <2>1. /\ groups' = [g \in Group |-> <<Current(groups[g])>>]
        /\ cluster' = <<Current(cluster)>> /\ dataStore' = <<Current(dataStore)>>
        BY <1>4 DEF Restart
  <2>2. \A x : Current(<<x>>) = x
        BY DEF Current, Last
  <2>3. \A g \in Group : Current(groups'[g]) = Current(groups[g])
        BY <2>1, <2>2
  <2> QED
      BY <2>1, <2>2, <2>3 DEF Stays
<1> QED
    BY <1>1, <1>2, <1>3, <1>4

\* Every step stays or writes one resource.
LEMMA StaysOrWrites ==
  ASSUME IInv, [Next]_vars
  PROVE Stays \/ WritesGroup \/ WritesCluster \/ WritesDataStore
<1>1. CASE UNCHANGED vars
      BY <1>1, Unwritten DEF vars, resourceVars
<1>2. ASSUME NEW g \in Group, NEW l \in Leader, RecordLeader(g, l) PROVE WritesGroup
      BY <1>2 DEF RecordLeader, WriteGroup, WritesGroup
<1>3. ASSUME NEW g \in Group, NEW m \in Member, RecordReady(g, m) PROVE WritesGroup
      BY <1>3 DEF RecordReady, WriteGroup, WritesGroup
<1>4. CASE (\E g \in Group : SyncGroup(g)) \/ SyncCluster \/ SyncDataStore \/ Restart
      BY <1>4, SyncsStay
<1>5. CASE EditCluster
      BY <1>5 DEF EditCluster, Write, WritesCluster
<1>6. CASE EditStore \/ LosePod \/ CreatePod \/ SyncStore
      BY <1>6, Unwritten DEF EditStore, LosePod, CreatePod, SyncStore, resourceVars
<1>7. CASE GetCluster \/ ReconcileGroup \/ FailGroup \/ GetPartitionStatus \/ GetStore
      BY <1>7, Unwritten DEF GetCluster, ReconcileGroup, FailGroup, GetPartitionStatus, GetStore, resourceVars
<1>8. CASE UpdateGroupState
  <2>1. /\ at \in Group /\ UNCHANGED <<cluster, dataStore>>
        /\ \/ WriteGroup(at, [Cached(groups[at]) EXCEPT !.n = @ + 1, !.ready = ~@])
           \/ groups' = groups
        BY <1>8 DEF UpdateGroupState
  <2> QED
      BY <2>1, Unwritten DEF WriteGroup, WritesGroup
<1>9. CASE UpdateState \/ UpdatePartitions
  <2>1. UNCHANGED <<groups, dataStore>>
        BY <1>9 DEF UpdateState, UpdatePartitions
  <2>2. cluster' = cluster \/ \E status : cluster' = Append(cluster, status)
        BY <1>9 DEF UpdateState, UpdatePartitions, WriteCluster, Write
  <2> QED
      BY <2>1, <2>2, Unwritten DEF WritesCluster
<1>10. CASE CreateCluster
       BY <1>10, Unwritten DEF CreateCluster, Write, WritesCluster
<1>11. CASE ReadCluster \/ UpdateReady
       BY <1>11, Unwritten DEF ReadCluster, UpdateReady
<1>12. CASE UpdateDataStore
       BY <1>12, Unwritten DEF UpdateDataStore, Write, WritesDataStore
<1> QED
    BY <1>1, <1>2, <1>3, <1>4, <1>5, <1>6, <1>7, <1>8, <1>9, <1>10, <1>11, <1>12
    DEF Next, ClusterStep, StoreStep

\* What a version before says.
LEMMA WriteForward ==
  ASSUME NEW S, NEW s \in Seq(S), s # <<>>, NEW x, NEW t, t = Append(s, x)
  PROVE /\ Len(s) \in DOMAIN t /\ Len(t) \in DOMAIN t /\ Len(s) <= Len(t)
        /\ t[Len(s)] = Current(s) /\ t[Len(t)] = Current(t)
<1>1. /\ Len(s) \in DOMAIN t /\ Len(t) \in DOMAIN t /\ Len(s) <= Len(t) /\ t[Len(s)] = s[Len(s)]
      OBVIOUS
<1> QED
    BY <1>1 DEF Current, Last

LEMMA GroupChanges == ASSUME IInv, IInv', WritesGroup PROVE Chain!Change
<1>1. PICK g \in Group : \E status : groups' = [groups EXCEPT ![g] = Append(groups[g], status)]
      BY DEF WritesGroup
<1>2. PICK status : groups' = [groups EXCEPT ![g] = Append(groups[g], status)]
      BY <1>1
<1>3. groups \in [Group -> Seq(GroupStatus)] /\ groups' \in [Group -> Seq(GroupStatus)]
      BY DEF IInv, TypeOK
<1>4. \A h \in Group : groups[h] # <<>> /\ groups'[h] # <<>>
      BY DEF IInv, TypeOK
<1>5. \A x \in GroupStatus : x.n \in Nat
      BY DEF GroupStatus
<1>6. ASSUME NEW h \in Group
      PROVE Current(groups'[h]).n \in Nat /\ Current(groups[h]).n <= Current(groups'[h]).n
  <2>1. Current(groups'[h]) \in GroupStatus /\ Current(groups[h]) \in GroupStatus
        BY <1>3, <1>4, Reading
  <2>2. CASE h = g
    <3>1. groups[g] \in Seq(GroupStatus) /\ groups[g] # <<>>
          /\ groups'[g] = Append(groups[g], status) /\ groups'[g] \in Seq(GroupStatus)
          BY <1>2, <1>3, <1>4
    <3>2. PICK old, new : /\ old = groups[g] /\ old \in Seq(GroupStatus) /\ old # <<>>
                          /\ new = groups'[g] /\ new = Append(old, status)
          BY <3>1
    <3>3. /\ Len(old) \in DOMAIN new /\ Len(new) \in DOMAIN new /\ Len(old) <= Len(new)
          /\ new[Len(old)] = Current(old) /\ new[Len(new)] = Current(new)
      <4>1. old \in Seq(GroupStatus) /\ old # <<>> /\ new = Append(old, status)
            BY <3>2
      <4> QED
          BY <4>1, WriteForward
    <3>4. new[Len(old)].n <= new[Len(new)].n
          BY <3>2, <3>3 DEF IInv, VersionsForward
    <3> QED
        BY <1>5, <2>1, <2>2, <3>2, <3>3, <3>4
  <2>3. CASE h # g
    <3>1. groups'[h] = groups[h]
          BY <1>2, <1>3, <2>3
    <3>2. Current(groups[h]).n \in Nat
          BY <1>5, <2>1
    <3> QED
        BY <3>1, <3>2
  <2> QED
      BY <2>2, <2>3
<1>7. UNCHANGED <<NumberOf(Current(cluster).partitions), NumberOf(Current(dataStore))>>
      BY DEF WritesGroup, NumberOf, Current
<1> QED
    BY <1>6, <1>7 DEF Chain!Change

LEMMA ClusterPublishes == ASSUME IInv, IInv', WritesCluster PROVE Chain!PublishStatus
<1>1. PICK status : cluster' = Append(cluster, status)
      BY DEF WritesCluster
<1>2. /\ cluster \in Seq(ClusterStatus) /\ cluster # <<>> /\ cluster' \in Seq(ClusterStatus)
      /\ cluster' # <<>>
      BY DEF IInv, TypeOK
<1>3. PICK i \in DOMAIN cluster', j \in DOMAIN cluster' :
        i <= j /\ cluster'[i] = Current(cluster) /\ cluster'[j] = Current(cluster')
      BY <1>1, <1>2, WriteForward
<1>4. Current(cluster') \in ClusterStatus
      BY <1>2, Reading
<1>5. Current(cluster').partitions \in Seq(Partition)
      BY <1>4 DEF ClusterStatus
<1>6. ASSUME NEW g \in Group
      PROVE NumberOf(Current(cluster').partitions)[g]
              \in NumberOf(Current(cluster).partitions)[g]..Current(groups[g]).n
  <2>1. NumberOf(cluster'[i].partitions)[g] <= NumberOf(cluster'[j].partitions)[g]
        BY <1>3 DEF IInv, VersionsForward, NumberOf
  <2>2. NumberOf(Current(cluster').partitions)[g] <= Cached(groups[g]).n
        BY DEF IInv, ClusterFollows, WritesCluster, NumberOf
  <2>3. /\ NumberOf(Current(cluster).partitions)[g] \in Nat
        /\ NumberOf(Current(cluster').partitions)[g] \in Nat
        /\ Cached(groups[g]).n \in Nat /\ Current(groups[g]).n \in Nat
        BY <1>5, Types, Numbers
  <2>4. Cached(groups[g]).n <= Current(groups[g]).n
        BY CacheBehind
  <2> QED
      BY <1>3, <2>1, <2>2, <2>3, <2>4
<1>7. /\ [g \in Group |-> Current(groups'[g]).n] = [g \in Group |-> Current(groups[g]).n]
      /\ NumberOf(Current(dataStore')) = NumberOf(Current(dataStore))
      BY DEF WritesCluster
<1>8. \A ps : NumberOf(ps)' = NumberOf(ps)
      BY DEF NumberOf
<1> QED
    BY <1>6, <1>7 DEF Chain!PublishStatus, NumberOf, Current

LEMMA DataStorePublishes == ASSUME IInv, WritesDataStore PROVE Chain!PublishConfig
<1>1. /\ dataStore \in Seq(Seq(Partition)) /\ dataStore # <<>> /\ source.partitions \in Seq(Partition)
      BY Types DEF IInv, TypeOK
<1>2. Current(dataStore') = source.partitions
      BY <1>1, Writing DEF WritesDataStore
<1>3. ASSUME NEW g \in Group
      PROVE NumberOf(Current(dataStore'))[g]
              \in NumberOf(Current(dataStore))[g]..NumberOf(Current(cluster).partitions)[g]
  <2>1. NumberOf(source.partitions)[g]
          \in NumberOf(Current(dataStore))[g]..NumberOf(Cached(cluster).partitions)[g]
        BY DEF IInv, StoreFollows, WritesDataStore
  <2>2. /\ NumberOf(source.partitions)[g] \in Nat /\ NumberOf(Current(dataStore))[g] \in Nat
        /\ NumberOf(Cached(cluster).partitions)[g] \in Nat
        /\ NumberOf(Current(cluster).partitions)[g] \in Nat
        BY Types, Numbers
  <2>3. NumberOf(Cached(cluster).partitions)[g] <= NumberOf(Current(cluster).partitions)[g]
        BY CacheBehind
  <2> QED
      BY <1>2, <2>1, <2>2, <2>3
<1> QED
    BY <1>3 DEF Chain!PublishConfig, WritesDataStore, NumberOf, Current

-----------------------------------------------------------------------------
\* Theorems

LEMMA NextIInv == IInv /\ [Next]_vars => IInv'
<1> SUFFICES ASSUME IInv, [Next]_vars PROVE IInv'
    OBVIOUS
<1>1. CASE UNCHANGED vars
  <2>1. TypeOK'
        BY <1>1 DEF IInv, TypeOK, vars, resourceVars, externalVars, clusterVars, storeVars
  <2> QED
      BY <1>1, <2>1, SameCluster, SameStore, SameFindings
      DEF IInv, vars, resourceVars, externalVars, clusterVars, storeVars
<1>2. ASSUME NEW g \in Group, NEW l \in Leader, RecordLeader(g, l) PROVE IInv'
      BY <1>2, RecordStep
<1>3. ASSUME NEW g \in Group, NEW m \in Member, RecordReady(g, m) PROVE IInv'
      BY <1>3, RecordStep
<1>4. ASSUME NEW g \in Group, SyncGroup(g) PROVE IInv'
      BY <1>4, SyncGroupStep
<1>5. CASE EditCluster \/ SyncCluster
      BY <1>5, EditClusterStep, SyncClusterStep
<1>6. CASE EditStore \/ SyncStore \/ SyncDataStore
      BY <1>6, EditStoreStep, SyncStoreStep, SyncDataStoreStep
<1>7. CASE LosePod \/ CreatePod \/ Restart
      BY <1>7, PodStep, RestartStep
<1>8. CASE ClusterStep
      BY <1>8, GetClusterStep, ReconcileGroupStep, FailGroupStep, UpdateGroupStateStep, UpdateStateStep,
         GetPartitionStatusStep, UpdatePartitionsStep
      DEF ClusterStep
<1>9. CASE StoreStep
      BY <1>9, GetStoreStep, CreateClusterStep, ReadClusterStep, UpdateDataStoreStep, UpdateReadyStep
      DEF StoreStep
<1> QED
    BY <1>1, <1>2, <1>3, <1>4, <1>5, <1>6, <1>7, <1>8, <1>9 DEF Next

\* The invariant holds in every state: what each resource says of a group has been said by
\* the one before it (cluster.go, getPartitionStatuses and reconcileStatus; store.go,
\* Reconcile).
THEOREM InvariantCorrect == Spec => []IInv
<1>1. Init => IInv
      BY InitIInv
<1>2. IInv /\ [Next]_vars => IInv'
      BY NextIInv
<1> QED
    BY <1>1, <1>2, PTL DEF Spec

\* The store controller does not rest before it has reported that the cluster is not ready,
\* whatever its runs have ended at (store.go, Reconcile).
THEOREM NotReadyCorrect == Spec => []NotReadyFollows
<1>1. IInv => NotReadyFollows
      BY DEF IInv, StoreFindings, NotReadyFollows, StoreAtRest
<1> QED
    BY <1>1, InvariantCorrect, PTL

\* The cluster's status and the DataStore's configuration say of each group what the step
\* before them has said, and never take it back: every step is one of Publication or
\* leaves it (cluster.go, reconcileStatus; store.go, Reconcile).
THEOREM PublicationCorrect == Spec => PipelineImplementsPublication
<1>1. Init => Chain!Init
  <2> SUFFICES ASSUME Init PROVE Chain!Init
      OBVIOUS
  <2>1. /\ Current(<<NewGroup>>) = NewGroup /\ NewGroup.n = 0
        /\ Current(<<NoCluster>>) = NoCluster /\ NoCluster.partitions = NoPartitions
        /\ Current(<<NoPartitions>>) = NoPartitions
        BY First, StatusTypes
  <2>2. /\ \A g \in Group : groups[g] = <<NewGroup>>
        /\ cluster = <<NoCluster>> /\ dataStore = <<NoPartitions>>
        BY DEF Init
  <2>3. NumberOf(NoPartitions) = [g \in Group |-> 0]
        BY DEF NumberOf, NoPartitions
  <2> QED
      BY <2>1, <2>2, <2>3 DEF Chain!Init
<1>2. IInv /\ IInv' /\ [Next]_vars =>
        [Chain!Next]_<<[g \in Group |-> Current(groups[g]).n], NumberOf(Current(cluster).partitions),
                       NumberOf(Current(dataStore))>>
  <2> SUFFICES ASSUME IInv, IInv', [Next]_vars
               PROVE [Chain!Next]_<<[g \in Group |-> Current(groups[g]).n],
                                    NumberOf(Current(cluster).partitions),
                                    NumberOf(Current(dataStore))>>
      OBVIOUS
  <2>1. CASE Stays
        BY <2>1 DEF Stays, NumberOf
  <2>2. CASE WritesGroup \/ WritesCluster \/ WritesDataStore
        BY <2>2, GroupChanges, ClusterPublishes, DataStorePublishes DEF Chain!Next
  <2> QED
      BY <2>1, <2>2, StaysOrWrites
<1> QED
    BY <1>1, <1>2, InvariantCorrect, PTL DEF Spec, PipelineImplementsPublication, Chain!Spec
=============================================================================
