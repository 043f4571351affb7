--------------------------- MODULE LeaderRegister ---------------------------
(* What the status of a RaftGroup promises about leadership to whoever       *)
(* watches the resource: a register of a term and its                        *)
(* leader that only moves forward. A term is never taken back, and the       *)
(* leader recorded for a term stays the leader recorded for it.              *)
EXTENDS Naturals

CONSTANTS Member, NoMember

VARIABLES term, leader

Init == term = 0 /\ leader = NoMember

\* A later term, whose leader may be known or not.
Advance ==
  /\ term' \in Nat /\ term' > term
  /\ leader' \in Member \cup {NoMember}

\* The leader of the current term becomes known.
Learn ==
  /\ leader = NoMember
  /\ leader' \in Member
  /\ UNCHANGED term

Next == Advance \/ Learn

Spec == Init /\ [][Next]_<<term, leader>>
=============================================================================
