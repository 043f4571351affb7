--------------------------- MODULE MCNodeProtocol ---------------------------
EXTENDS NodeProtocol

\* Two pods; two pods and an observer more than they are; two groups of two
\* over three pods; the defaults, with a heartbeat period below a millisecond.
Pair == [groups |-> 2, replicas |-> 2, quorumSize |-> Nil, readReplicas |-> Nil,
         heartbeatPeriod |-> Nil, electionTimeout |-> Nil]
MCSpecs ==
  {Pair,
   [Pair EXCEPT !.readReplicas = 1, !.heartbeatPeriod = 150900, !.electionTimeout = 1000999],
   [Pair EXCEPT !.replicas = 3, !.quorumSize = 2, !.electionTimeout = 1000000],
   [Pair EXCEPT !.groups = 0, !.replicas = 0, !.heartbeatPeriod = 900, !.electionTimeout = 2000]}

\* No bytes, and the last length that fits a byte and the first that does not.
MCAddresses == {<<>>, <<1, 2, 3>>}
MCCommands == {<<>>} \cup {[i \in 1..n |-> i] : n \in {127, 128}}
MCTimestamps == {<<8, 1>>}
=============================================================================
