-------------------------- MODULE MCStorePipeline --------------------------
(* Instances of StorePipeline for TLC: the members of a group on one pod.     *)
EXTENDS StorePipeline, TLC

CONSTANTS m1, p1

MCAddressOf == [m \in Member |-> p1]

(***************************************************************************)
(* The comparison of lists of followers by length and membership does not    *)
(* tell <<p1, p1, p2>> from <<p1, p2, p2>>, and groups have such lists where  *)
(* pods host several of their members (Placement). It is right only because  *)
(* the members listed, as leader or follower, are never taken off a status    *)
(* again (ListingsKept of GroupStatus): of two statuses of a group of four,    *)
(* wherever its members are, the lists of whose members are one in the other,  *)
(* it judges as their addresses do.                                           *)
(***************************************************************************)
FourMembers(addressOf) == INSTANCE StorePipeline WITH
  Member <- 1..4, NoMember <- 0, Address <- 1..2, AddressOf <- addressOf

StatusOf(addressOf, listed, leader) ==
  LET group == [leader |-> leader, followers |-> listed \ {leader}]
  IN [leader |-> FourMembers(addressOf)!LeaderAddress(group),
      followers |-> FourMembers(addressOf)!FollowerAddresses(group)]

ASSUME ComparisonIsRight ==
  \A addressOf \in [1..4 -> 1..2], later \in SUBSET (1..4) : \A earlier \in SUBSET later :
    \A l1 \in earlier \cup {0}, l2 \in later \cup {0} :
      LET p == StatusOf(addressOf, earlier, l1)
          q == StatusOf(addressOf, later, l2)
      IN PartitionEqual(p, q) <=> p = q
=============================================================================
