------------------------- MODULE NodeProtocolProofs -------------------------
(***************************************************************************)
(* Proofs about Messages and NodeProtocol: for integers of any widths, any   *)
(* numbers, texts, groups and members, a message is read as it was sent.     *)
(*                                                                          *)
(* The argument follows the code.  What the writers' integers, texts and      *)
(* parts are as bytes, and that they are as many as the size functions say;   *)
(* that a turn of a reader's loop takes one of these back and leaves the      *)
(* rest; that a new message with each of its fields read in turn is the       *)
(* message; that skipProtocol goes past a field of a newer writer; and so      *)
(* that the wire carries messages that are understood as sent.                *)
(*                                                                          *)
(* The encoders and the loops are recursive functions of numbers, of which     *)
(* the provers know the equations.  What they do for every number follows by  *)
(* the number that would be the least to refute it.                           *)
(***************************************************************************)
EXTENDS NodeProtocol, GroupBootstrapProofs, FiniteSetTheorems, TLAPS

-----------------------------------------------------------------------------
\* Induction

\* A set of numbers that is not empty has a least one: the intervals up to its
\* members are finite sets, which inclusion orders well.
LEMMA LeastNumber ==
  ASSUME NEW T \in SUBSET Nat, T # {}
  PROVE \E n \in T : \A k \in T : n <= k
<1>1. PICK m \in T : TRUE
      OBVIOUS
<1> DEFINE U == {j \in T : j <= m}
           below == {0..k : k \in U}
           R == StrictSubsetOrdering(0..m)
<1>2. IsFiniteSet(0..m)
      BY FS_Interval
<1>3. IsWellFoundedOn(R, FiniteSubsetsOf(0..m))
      BY FS_StrictSubsetOrderingWellFounded
<1>4. FiniteSubsetsOf(0..m) = SUBSET (0..m)
      BY <1>2, FS_FiniteSubsetsOfFinite
<1>5. below \subseteq SUBSET (0..m) /\ below # {}
  <2>1. 0..m \in below
        BY <1>1
  <2>2. ASSUME NEW k \in U PROVE 0..k \in SUBSET (0..m)
        BY <1>1, <2>2
  <2> QED
      BY <2>1, <2>2
<1>6. PICK s \in below : \A t \in below : ~(<<t, s>> \in R)
  <2>1. below \subseteq FiniteSubsetsOf(0..m) /\ below # {}
        BY <1>4, <1>5
  <2> HIDE DEF below, R
  <2> QED
      BY <1>3, <2>1, WFMin
<1>7. PICK n \in U : s = 0..n
      BY <1>6
<1>8. ASSUME NEW k \in U, k < n PROVE FALSE
  <2>1. 0..k \in below
        OBVIOUS
  <2>2. 0..k \subseteq 0..n /\ n \in 0..n /\ n \notin 0..k
        BY <1>8
  <2>3. 0..k \in SUBSET (0..m) /\ 0..n \in SUBSET (0..m)
        BY <1>5, <1>6, <1>7, <2>1
  <2>4. <<0..k, 0..n>> \in R
        BY <2>2, <2>3 DEF StrictSubsetOrdering
  <2> QED
      BY <1>6, <1>7, <2>1, <2>4
<1>9. ASSUME NEW k \in T PROVE n <= k
  <2>1. CASE k \in U
        BY <1>8, <2>1
  <2>2. CASE k \notin U
        BY <1>1, <2>2
  <2> QED
      BY <2>1, <2>2
<1> QED
    BY <1>9

\* Induction over the members of a set, by smaller numbers and by the one before.
LEMMA StrongInduction ==
  ASSUME NEW S, \A n \in Nat : (\A k \in Nat : k < n => k \in S) => n \in S
  PROVE \A n \in Nat : n \in S
<1> SUFFICES ASSUME {n \in Nat : n \notin S} # {} PROVE FALSE
    OBVIOUS
<1>1. PICK n \in {n \in Nat : n \notin S} : \A k \in {j \in Nat : j \notin S} : n <= k
      BY LeastNumber
<1>2. \A k \in Nat : k < n => k \in S
      BY <1>1
<1> QED
    BY <1>1, <1>2

\* Induction on numbers, for a set of them.
LEMMA Induction ==
  ASSUME NEW S, 0 \in S, \A n \in Nat : n \in S => n + 1 \in S
  PROVE \A n \in Nat : n \in S
<1> SUFFICES ASSUME NEW n \in Nat, \A k \in Nat : k < n => k \in S PROVE n \in S
    BY StrongInduction
<1>1. CASE n = 0
      BY <1>1
<1>2. CASE n # 0
  <2>1. n - 1 \in Nat /\ n - 1 < n /\ n = (n - 1) + 1
        BY <1>2
  <2> QED
      BY <2>1
<1> QED
    BY <1>1, <1>2

-----------------------------------------------------------------------------
\* Powers of two

\* The recursion of pow2.
LEMMA PowerEquation ==
  /\ pow2[0] = 1
  /\ \A n \in Nat : pow2[n + 1] = 2 * pow2[n]
<1>1. pow2 = [n \in Nat |-> IF n = 0 THEN 1 ELSE 2 * pow2[n - 1]]
      BY DEF pow2
<1>2. pow2[0] = 1
      BY <1>1
<1>3. ASSUME NEW n \in Nat PROVE pow2[n + 1] = 2 * pow2[n]
  <2>1. n + 1 \in Nat /\ n + 1 # 0 /\ (n + 1) - 1 = n
        OBVIOUS
  <2>2. pow2[n + 1] = 2 * pow2[(n + 1) - 1]
        BY ONLY <1>1, <2>1
  <2> QED
      BY <2>1, <2>2
<1> QED
    BY <1>2, <1>3

\* Powers are positive numbers.
LEMMA PowerType == \A n \in Nat : pow2[n] \in Nat /\ pow2[n] >= 1
<1> DEFINE S == {n \in Nat : pow2[n] \in Nat /\ pow2[n] >= 1}
<1>1. 0 \in S
      BY PowerEquation
<1>2. ASSUME NEW n \in Nat, n \in S PROVE n + 1 \in S
      BY <1>2, PowerEquation
<1>3. \A n \in Nat : n \in S
  <2> HIDE DEF S
  <2> QED
      BY <1>1, <1>2, Induction
<1> QED
    BY <1>3

\* Seven bits are worth 128: the groups of encodeVarintProtocol.
LEMMA PowerSeven == \A n \in Nat : pow2[n + 7] = 128 * pow2[n]
<1> SUFFICES ASSUME NEW n \in Nat PROVE pow2[n + 7] = 128 * pow2[n]
    OBVIOUS
<1>1. pow2[n] \in Nat /\ pow2[n + 1] = 2 * pow2[n]
      BY PowerType, PowerEquation
<1>2. pow2[n + 2] = 2 * pow2[n + 1]
  <2>1. n + 1 \in Nat /\ n + 2 = (n + 1) + 1
        OBVIOUS
  <2> QED
      BY <2>1, PowerEquation
<1>3. pow2[n + 3] = 2 * pow2[n + 2]
  <2>1. n + 2 \in Nat /\ n + 3 = (n + 2) + 1
        OBVIOUS
  <2> QED
      BY <2>1, PowerEquation
<1>4. pow2[n + 4] = 2 * pow2[n + 3]
  <2>1. n + 3 \in Nat /\ n + 4 = (n + 3) + 1
        OBVIOUS
  <2> QED
      BY <2>1, PowerEquation
<1>5. pow2[n + 5] = 2 * pow2[n + 4]
  <2>1. n + 4 \in Nat /\ n + 5 = (n + 4) + 1
        OBVIOUS
  <2> QED
      BY <2>1, PowerEquation
<1>6. pow2[n + 6] = 2 * pow2[n + 5]
  <2>1. n + 5 \in Nat /\ n + 6 = (n + 5) + 1
        OBVIOUS
  <2> QED
      BY <2>1, PowerEquation
<1>7. pow2[n + 7] = 2 * pow2[n + 6]
  <2>1. n + 6 \in Nat /\ n + 7 = (n + 6) + 1
        OBVIOUS
  <2> QED
      BY <2>1, PowerEquation
<1> QED
    BY <1>1, <1>2, <1>3, <1>4, <1>5, <1>6, <1>7

\* A wider integer holds more.
LEMMA PowerGrows == \A m, n \in Nat : m <= n => pow2[m] <= pow2[n]
<1> SUFFICES ASSUME NEW m \in Nat PROVE \A j \in Nat : pow2[m] <= pow2[m + j]
  <2> SUFFICES ASSUME NEW m \in Nat, NEW n \in Nat, m <= n PROVE pow2[m] <= pow2[n]
      OBVIOUS
  <2>1. n - m \in Nat /\ n = m + (n - m)
        OBVIOUS
  <2> QED
      BY <2>1
<1> DEFINE S == {j \in Nat : pow2[m] <= pow2[m + j]}
<1>1. 0 \in S
      BY PowerType
<1>2. ASSUME NEW j \in Nat, j \in S PROVE j + 1 \in S
  <2>1. m + j \in Nat /\ m + (j + 1) = (m + j) + 1
        OBVIOUS
  <2>2. pow2[m + j] \in Nat /\ pow2[m + j] >= 1 /\ pow2[m] \in Nat
        BY <2>1, PowerType
  <2>3. pow2[m + (j + 1)] = 2 * pow2[m + j]
        BY <2>1, PowerEquation
  <2> QED
      BY <1>2, <2>2, <2>3
<1>3. \A j \in Nat : j \in S
  <2> HIDE DEF S
  <2> QED
      BY <1>1, <1>2, Induction
<1> QED
    BY <1>3

\* Seven bits make 128, and eight or more leave room for the tags' numbers.
LEMMA PowersHere ==
  /\ pow2[7] = 128
  /\ \A n \in Nat : n >= 8 => pow2[n] \in Nat /\ pow2[n] >= 256 /\ pow2[n] >= n + 200
<1>1. pow2[7] = 128
  <2>1. 0 \in Nat /\ 0 + 7 = 7
        OBVIOUS
  <2> QED
      BY <2>1, PowerSeven, PowerEquation
<1>2. pow2[8] = 256
  <2>1. 7 \in Nat /\ 7 + 1 = 8
        OBVIOUS
  <2> QED
      BY <1>1, <2>1, PowerEquation
<1> DEFINE S == {j \in Nat : pow2[8 + j] >= 256 /\ pow2[8 + j] >= (8 + j) + 200}
<1>3. 0 \in S
      BY <1>2
<1>4. ASSUME NEW j \in Nat, j \in S PROVE j + 1 \in S
  <2>1. 8 + j \in Nat /\ 8 + (j + 1) = (8 + j) + 1
        OBVIOUS
  <2>2. pow2[8 + j] \in Nat
        BY <2>1, PowerType
  <2>3. pow2[8 + (j + 1)] = 2 * pow2[8 + j]
        BY <2>1, PowerEquation
  <2> QED
      BY <1>4, <2>2, <2>3
<1>5. \A j \in Nat : j \in S
  <2> HIDE DEF S
  <2> QED
      BY <1>3, <1>4, Induction
<1>6. ASSUME NEW n \in Nat, n >= 8 PROVE pow2[n] \in Nat /\ pow2[n] >= 256 /\ pow2[n] >= n + 200
  <2>1. n - 8 \in Nat /\ 8 + (n - 8) = n
        BY <1>6
  <2>2. pow2[8 + (n - 8)] >= 256 /\ pow2[8 + (n - 8)] >= (8 + (n - 8)) + 200
        BY <1>5, <2>1
  <2> QED
      BY <2>1, <2>2, PowerType
<1> QED
    BY <1>1, <1>6

-----------------------------------------------------------------------------
\* Sequences of bytes

\* A byte before others: what Head and Tail give back.
LEMMA Bytes1 ==
  ASSUME NEW x \in Nat, NEW s \in Seq(Nat)
  PROVE /\ <<x>> \o s \in Seq(Nat) /\ <<x>> \o s # <<>>
        /\ Head(<<x>> \o s) = x /\ Tail(<<x>> \o s) = s
        /\ Len(<<x>> \o s) = 1 + Len(s)
<1>1. <<x>> \in Seq(Nat) /\ Len(<<x>>) = 1 /\ <<x>>[1] = x
      OBVIOUS
<1>2. <<x>> \o s \in Seq(Nat) /\ Len(<<x>> \o s) = 1 + Len(s)
      BY <1>1
<1>3. <<x>> \o s # <<>>
      BY <1>2
<1>4. Head(<<x>> \o s) = x
      BY <1>1, <1>2
<1>5. Tail(<<x>> \o s) = s
      BY <1>1, <1>2
<1> QED
    BY <1>2, <1>3, <1>4, <1>5

\* A byte before others, and more after them.
LEMMA Bytes3 ==
  ASSUME NEW x \in Nat, NEW s \in Seq(Nat), NEW r \in Seq(Nat)
  PROVE (<<x>> \o s) \o r = <<x>> \o (s \o r) /\ s \o r \in Seq(Nat)
<1>1. <<x>> \in Seq(Nat)
      OBVIOUS
<1> DEFINE a == <<x>>
<1> HIDE DEF a
<1>2. a \in Seq(Nat)
      BY <1>1 DEF a
<1>3. (a \o s) \o r = a \o (s \o r) /\ s \o r \in Seq(Nat)
      BY <1>2
<1> QED
    BY <1>3 DEF a

\* Concatenation of bytes.
LEMMA Bytes2 ==
  ASSUME NEW a \in Seq(Nat), NEW b \in Seq(Nat), NEW c \in Seq(Nat)
  PROVE /\ (a \o b) \o c = a \o (b \o c)
        /\ a \o b \in Seq(Nat) /\ Len(a \o b) = Len(a) + Len(b)
        /\ <<>> \o a = a /\ a \o <<>> = a
OBVIOUS

\* The same of sequences that are given by name.
AreBytes(b) == b \in Seq(Nat)
Cat(a, b) == a \o b

\* Concatenation is associative.
LEMMA CatCat ==
  ASSUME NEW a, NEW b, NEW c, AreBytes(a), AreBytes(b), AreBytes(c)
  PROVE Cat(Cat(a, b), c) = Cat(a, Cat(b, c)) /\ AreBytes(Cat(a, b))
BY DEF Cat, AreBytes

\* A byte before others.
Byte(x, s) == <<x>> \o s

\* A byte before others, and more after them.
LEMMA ByteCat ==
  ASSUME NEW x \in Nat, NEW s, NEW r, AreBytes(s), AreBytes(r)
  PROVE Cat(Byte(x, s), r) = Byte(x, Cat(s, r)) /\ AreBytes(Byte(x, s))
<1> DEFINE a == <<x>>
<1>1. AreBytes(a)
      BY DEF AreBytes
<1> HIDE DEF a
<1>2. Byte(x, s) = Cat(a, s) /\ Byte(x, Cat(s, r)) = Cat(a, Cat(s, r))
      BY DEF Byte, Cat, a
<1>3. Cat(Cat(a, s), r) = Cat(a, Cat(s, r)) /\ AreBytes(Cat(a, s))
      BY <1>1, CatCat
<1> QED
    BY <1>2, <1>3

\* The first bytes of a sequence, and those after them.
LEMMA Parted ==
  ASSUME NEW a \in Seq(Nat), NEW b \in Seq(Nat)
  PROVE SubSeq(a \o b, 1, Len(a)) = a /\ DropFirst(a \o b, Len(a)) = b
<1>1. SubSeq(a \o b, 1, Len(a)) = a
      OBVIOUS
<1>2. DropFirst(a \o b, Len(a)) = b
      BY DEF DropFirst
<1> QED
    BY <1>1, <1>2

-----------------------------------------------------------------------------
\* Integers of any width

\* The recursion of encodeVarintProtocol.
LEMMA EncodeEquation ==
  ASSUME NEW v \in Nat
  PROVE /\ v < 128 => encodeVarint[v] = <<v>>
        /\ v >= 128 => encodeVarint[v] = <<(v % 128) + 128>> \o encodeVarint[v \div 128]
<1>1. encodeVarint = [k \in Nat |->
        IF k < 128 THEN LastGroup(k) ELSE GroupAndMore(k, encodeVarint[k \div 128])]
      BY DEF encodeVarint
<1>2. encodeVarint[v] = IF v < 128 THEN LastGroup(v) ELSE GroupAndMore(v, encodeVarint[v \div 128])
      BY <1>1
<1> QED
    BY <1>2 DEF LastGroup, GroupAndMore

\* A group of seven bits with the high bit set, as the reader takes it apart.
LEMMA GroupOf128 ==
  ASSUME NEW v \in Nat
  PROVE /\ v \div 128 \in Nat /\ v % 128 \in Nat /\ v % 128 < 128
        /\ (v % 128) + 128 * (v \div 128) = v
        /\ v >= 128 => v \div 128 < v
        /\ ((v % 128) + 128) % 128 = v % 128
OBVIOUS

\* An encoded integer is one byte or more.
LEMMA EncodeType ==
  \A v \in Nat : encodeVarint[v] \in Seq(Nat) /\ Len(encodeVarint[v]) >= 1
<1> DEFINE S == {v \in Nat : encodeVarint[v] \in Seq(Nat) /\ Len(encodeVarint[v]) >= 1}
<1>1. ASSUME NEW v \in Nat, \A k \in Nat : k < v => k \in S PROVE v \in S
  <2> SUFFICES encodeVarint[v] \in Seq(Nat) /\ Len(encodeVarint[v]) >= 1
      OBVIOUS
  <2>1. CASE v < 128
    <3>1. encodeVarint[v] = <<v>>
          BY <2>1, EncodeEquation
    <3>2. <<v>> \in Seq(Nat) /\ Len(<<v>>) = 1
          OBVIOUS
    <3> QED
        BY <3>1, <3>2
  <2>2. CASE v >= 128
    <3>1. v \div 128 \in S
          BY <1>1, <2>2, GroupOf128
    <3>2. encodeVarint[v] = <<(v % 128) + 128>> \o encodeVarint[v \div 128]
          BY <2>2, EncodeEquation
    <3>3. (v % 128) + 128 \in Nat
          BY GroupOf128
    <3> QED
        BY <3>1, <3>2, <3>3, Bytes1
  <2> QED
      BY <2>1, <2>2
<1>2. \A v \in Nat : v \in S
  <2> HIDE DEF S
  <2> QED
      BY <1>1, StrongInduction
<1> QED
    BY <1>2

\* The recursion of the loop of readVarint.
LEMMA GroupsAre == groups = [n \in Nat |-> IF n = 0 THEN NoTurn ELSE GroupTurn(groups[n - 1])]
BY DEF groups

\* A turn of the loop that reads an integer, given one more turn to take.
LEMMA GroupsEquation ==
  ASSUME NEW n \in Nat, NEW d \in Seq(Nat), d # <<>>
  PROVE groups[n + 1][d] =
          IF Head(d) < 128 THEN Read(Head(d), Tail(d))
          ELSE LET higher == groups[n][Tail(d)]
               IN IF higher.err # "" THEN higher
                  ELSE Read((Head(d) % 128) + 128 * higher.v, higher.rest)
<1>1. n + 1 # 0 /\ (n + 1) - 1 = n /\ n + 1 \in Nat
      OBVIOUS
<1>2. groups[n + 1] = GroupTurn(groups[n])
      BY <1>1, GroupsAre
<1> QED
    BY <1>2 DEF GroupTurn

\* An integer is read as it was written, whatever follows it, if there are as
\* many turns as groups.
LEMMA GroupsRead ==
  \A v \in Nat : \A n \in Nat, rest \in Seq(Nat) :
    Len(encodeVarint[v]) <= n => groups[n][encodeVarint[v] \o rest] = Read(v, rest)
<1> DEFINE S == {v \in Nat : \A n \in Nat, rest \in Seq(Nat) :
                   Len(encodeVarint[v]) <= n => groups[n][encodeVarint[v] \o rest] = Read(v, rest)}
<1>1. ASSUME NEW v \in Nat, \A k \in Nat : k < v => k \in S PROVE v \in S
  <2> SUFFICES ASSUME NEW n \in Nat, NEW rest \in Seq(Nat), Len(encodeVarint[v]) <= n
               PROVE groups[n][encodeVarint[v] \o rest] = Read(v, rest)
      OBVIOUS
  <2>1. n - 1 \in Nat /\ n = (n - 1) + 1
        BY EncodeType
  <2> DEFINE d == encodeVarint[v] \o rest
  <2>2. CASE v < 128
    <3>1. d = <<v>> \o rest
          BY <2>2, EncodeEquation
    <3>2. d \in Seq(Nat) /\ d # <<>> /\ Head(d) = v /\ Tail(d) = rest
          BY <3>1, Bytes1
    <3> HIDE DEF d
    <3>3. groups[(n - 1) + 1][d] = Read(v, rest)
          BY <2>1, <2>2, <3>2, GroupsEquation
    <3> QED
        BY <2>1, <3>3 DEF d
  <2>3. CASE v >= 128
    <3> DEFINE q == v \div 128
               b == (v % 128) + 128
    <3>1. q \in Nat /\ q \in S /\ b \in Nat /\ ~(b < 128) /\ (b % 128) + 128 * q = v
          BY <1>1, <2>3, GroupOf128
    <3>2. encodeVarint[v] = <<b>> \o encodeVarint[q]
          BY <2>3, EncodeEquation
    <3> HIDE DEF q, b
    <3>3. encodeVarint[q] \in Seq(Nat)
          BY <3>1, EncodeType
    <3> DEFINE more == encodeVarint[q] \o rest
    <3>4. (<<b>> \o encodeVarint[q]) \o rest = <<b>> \o more /\ more \in Seq(Nat)
      <4> DEFINE e == encodeVarint[q]
      <4> HIDE DEF e
      <4>1. e \in Seq(Nat) /\ b \in Nat
            BY <3>1, <3>3 DEF e
      <4>2. (<<b>> \o e) \o rest = <<b>> \o (e \o rest) /\ e \o rest \in Seq(Nat)
            BY ONLY <4>1, rest \in Seq(Nat), Bytes3
      <4> QED
          BY <4>2 DEF e
    <3>5. d = <<b>> \o more
          BY <3>2, <3>4
    <3>6. d \in Seq(Nat) /\ d # <<>> /\ Head(d) = b /\ Tail(d) = more
      <4> HIDE DEF d, more
      <4> QED
          BY <3>1, <3>5, <3>4, Bytes1
    <3>7. Len(encodeVarint[q]) <= n - 1
          BY <3>1, <3>2, <3>3, Bytes1
    <3>8. groups[n - 1][more] = Read(q, rest)
          BY <2>1, <3>1, <3>7
    <3> HIDE DEF d, more
    <3>9. groups[(n - 1) + 1][d] = Read((b % 128) + 128 * q, rest)
      <4>1. Read(q, rest).err = "" /\ Read(q, rest).v = q /\ Read(q, rest).rest = rest
            BY DEF Read
      <4>2. groups[(n - 1) + 1][d] =
              LET higher == groups[n - 1][Tail(d)]
              IN IF higher.err # "" THEN higher
                 ELSE Read((Head(d) % 128) + 128 * higher.v, higher.rest)
            BY <2>1, <3>1, <3>6, GroupsEquation
      <4> QED
          BY <3>6, <3>8, <4>1, <4>2
    <3> QED
        BY <2>1, <3>1, <3>9 DEF d
  <2> QED
      BY <2>2, <2>3
<1>2. \A v \in Nat : v \in S
  <2> HIDE DEF S
  <2> QED
      BY <1>1, StrongInduction
<1> QED
    BY <1>2

-----------------------------------------------------------------------------
\* Integers of uint64's width

\* The facts of arithmetic about the two widths.
LEMMA Widths ==
  /\ WideBits \in Nat /\ NarrowBits \in Nat /\ WideBits >= 9 /\ NarrowBits >= 9
  /\ NarrowBits <= WideBits /\ WideBits - 1 \in Nat /\ NarrowBits - 1 \in Nat
  /\ pow2[WideBits] \in Nat /\ pow2[NarrowBits] \in Nat
  /\ pow2[WideBits - 1] \in Nat /\ pow2[NarrowBits - 1] \in Nat
  /\ pow2[WideBits] = 2 * pow2[WideBits - 1] /\ pow2[NarrowBits] = 2 * pow2[NarrowBits - 1]
  /\ pow2[WideBits - 1] >= 256 /\ pow2[NarrowBits - 1] >= 256
  /\ pow2[WideBits - 1] >= WideBits + 199
  /\ pow2[NarrowBits] <= pow2[WideBits]
<1>1. WideBits \in Nat /\ NarrowBits \in Nat /\ WideBits >= 9 /\ NarrowBits >= 9 /\ NarrowBits <= WideBits
      BY WidthAssumption
<1>2. /\ WideBits - 1 \in Nat /\ NarrowBits - 1 \in Nat /\ WideBits - 1 >= 8 /\ NarrowBits - 1 >= 8
      /\ WideBits = (WideBits - 1) + 1 /\ NarrowBits = (NarrowBits - 1) + 1
      BY <1>1
<1>3. pow2[WideBits] = 2 * pow2[WideBits - 1] /\ pow2[NarrowBits] = 2 * pow2[NarrowBits - 1]
      BY <1>2, PowerEquation
<1>4. /\ pow2[WideBits - 1] \in Nat /\ pow2[WideBits - 1] >= 256
      /\ pow2[NarrowBits - 1] \in Nat /\ pow2[NarrowBits - 1] >= 256
      /\ pow2[WideBits - 1] >= (WideBits - 1) + 200
      BY <1>2, PowersHere
<1>5. pow2[NarrowBits] <= pow2[WideBits]
      BY <1>1, PowerGrows
<1> QED
    BY <1>1, <1>2, <1>3, <1>4, <1>5

\* The number of groups follows from the number of bits.
LEMMA EncodeLength ==
  \A v \in Nat : \A n \in Nat :
    n >= 1 /\ v < pow2[n] /\ (n = 1 \/ pow2[n - 1] <= v) => Len(encodeVarint[v]) = (n + 6) \div 7
<1> DEFINE S == {v \in Nat : \A n \in Nat :
      n >= 1 /\ v < pow2[n] /\ (n = 1 \/ pow2[n - 1] <= v) => Len(encodeVarint[v]) = (n + 6) \div 7}
<1>1. ASSUME NEW v \in Nat, \A k \in Nat : k < v => k \in S PROVE v \in S
  <2> SUFFICES ASSUME NEW n \in Nat, n >= 1, v < pow2[n], n = 1 \/ pow2[n - 1] <= v
               PROVE Len(encodeVarint[v]) = (n + 6) \div 7
      OBVIOUS
  <2>1. pow2[n] \in Nat /\ n - 1 \in Nat /\ pow2[n - 1] \in Nat
        BY PowerType
  <2>2. CASE v < 128
    <3>1. n <= 7
      <4> SUFFICES ASSUME n >= 8 PROVE FALSE
          OBVIOUS
      <4>1. pow2[7] <= pow2[n - 1]
            BY <2>1, PowerGrows
      <4> QED
          BY <2>1, <2>2, <4>1, PowersHere
    <3>2. (n + 6) \div 7 = 1
          BY <3>1
    <3>3. encodeVarint[v] = <<v>>
          BY <2>2, EncodeEquation
    <3> QED
        BY <3>2, <3>3
  <2>3. CASE v >= 128
    <3>1. n >= 8
      <4> SUFFICES ASSUME n <= 7 PROVE FALSE
          OBVIOUS
      <4>1. pow2[n] <= pow2[7]
            BY PowerGrows
      <4> QED
          BY <2>1, <2>3, <4>1, PowersHere
    <3> DEFINE q == v \div 128
               k == n - 7
    <3>2. k \in Nat /\ k >= 1 /\ k - 1 \in Nat /\ k + 7 = n /\ (k - 1) + 7 = n - 1
          BY <3>1
    <3>3. pow2[k] \in Nat /\ pow2[k - 1] \in Nat
          BY <3>2, PowerType
    <3>4. pow2[n] = 128 * pow2[k] /\ pow2[n - 1] = 128 * pow2[k - 1]
      <4> HIDE DEF k
      <4>1. pow2[k + 7] = 128 * pow2[k]
            BY <3>2, PowerSeven
      <4>2. pow2[(k - 1) + 7] = 128 * pow2[k - 1]
            BY <3>2, PowerSeven
      <4> QED
          BY <3>2, <4>1, <4>2
    <3>5. q \in Nat /\ q \in S /\ v = (v % 128) + 128 * q /\ v % 128 \in Nat /\ v % 128 < 128
          BY <1>1, <2>3, GroupOf128
    <3>6. encodeVarint[v] = <<(v % 128) + 128>> \o encodeVarint[q]
          BY <2>3, EncodeEquation
    <3>7. Len(encodeVarint[v]) = 1 + Len(encodeVarint[q])
          BY <3>5, <3>6, EncodeType, Bytes1
    <3>8. q < pow2[k] /\ (k = 1 \/ pow2[k - 1] <= q)
      <4> HIDE DEF q, k
      <4>1. n # 1 /\ pow2[n - 1] <= v
            BY <3>1
      <4>2. v < 128 * pow2[k] /\ 128 * pow2[k - 1] <= v
            BY <3>4, <4>1
      <4> QED
          BY <3>3, <3>5, <4>2
    <3>9. Len(encodeVarint[q]) = (k + 6) \div 7
      <4> HIDE DEF q, k
      <4> QED
          BY <3>2, <3>5, <3>8
    <3>10. 1 + ((k + 6) \div 7) = (n + 6) \div 7
           BY <3>2
    <3> QED
        BY <3>7, <3>9, <3>10
  <2> QED
      BY <2>2, <2>3
<1>2. \A v \in Nat : v \in S
  <2> HIDE DEF S
  <2> QED
      BY <1>1, StrongInduction
<1> QED
    BY <1>2

\* sovProtocol is the length of what encodeVarintProtocol writes, of integers
\* of uint64's width, and a reader has a turn for each group of theirs.
THEOREM EncodedSize ==
  ASSUME NEW v \in Nat, v < pow2[WideBits]
  PROVE sov(v) = Len(encodeVarint[v]) /\ Len(encodeVarint[v]) <= MaxGroups
<1> DEFINE T == {n \in 1..WideBits : v < pow2[n]}
<1>1. WideBits \in T /\ T \subseteq Nat
      BY Widths
<1>2. PICK n \in T : \A k \in T : n <= k
      BY <1>1, LeastNumber
<1>3. n \in 1..WideBits /\ v < pow2[n]
      OBVIOUS
<1>4. \A k \in 1..(n - 1) : v >= pow2[k]
  <2> SUFFICES ASSUME NEW k \in 1..(n - 1), ~(v >= pow2[k]) PROVE FALSE
      OBVIOUS
  <2>1. k \in Nat /\ k \in 1..WideBits /\ pow2[k] \in Nat /\ k < n
        BY <1>3, PowerType, Widths
  <2>2. k \in T
        BY <2>1
  <2> QED
      BY <1>2, <2>1, <2>2
<1> HIDE DEF T
<1> DEFINE m == Len64(v)
<1>5. m \in 1..WideBits /\ v < pow2[m] /\ \A k \in 1..(m - 1) : v >= pow2[k]
      BY <1>3, <1>4 DEF Len64
<1> HIDE DEF m
<1>6. m \in Nat /\ m >= 1 /\ m <= WideBits /\ (m = 1 \/ pow2[m - 1] <= v)
  <2>1. m \in Nat /\ m >= 1 /\ m <= WideBits
        BY <1>5, Widths
  <2>2. CASE m = 1
        BY <2>1, <2>2
  <2>3. CASE m # 1
    <3>1. m - 1 \in 1..(m - 1)
          BY <2>1, <2>3
    <3>2. v >= pow2[m - 1] /\ pow2[m - 1] \in Nat
          BY <1>5, <2>1, <3>1, PowerType
    <3> QED
        BY <2>1, <3>2
  <2> QED
      BY <2>2, <2>3
<1>7. Len(encodeVarint[v]) = (m + 6) \div 7
      BY <1>5, <1>6, EncodeLength
<1>8. (m + 6) \div 7 <= (WideBits + 6) \div 7
      BY <1>6, Widths
<1> QED
    BY <1>7, <1>8 DEF sov, MaxGroups, m

\* What encodeVarintProtocol writes of an integer, a reader's loop reads again.
THEOREM VarintRead ==
  ASSUME NEW v \in Nat, v < pow2[WideBits], NEW rest \in Seq(Nat)
  PROVE readVarint(encodeVarint[v] \o rest) = Read(v, rest)
<1>1. MaxGroups \in Nat
      BY Widths DEF MaxGroups
<1> QED
    BY <1>1, EncodedSize, GroupsRead DEF readVarint

-----------------------------------------------------------------------------
\* Conversions

\* What fits an integer is left as it is by a conversion to its type.
LEMMA InWidth ==
  ASSUME NEW v \in Nat
  PROVE /\ v < pow2[WideBits] => Unsigned(v, WideBits) = v
        /\ v < pow2[NarrowBits] => Unsigned(v, NarrowBits) = v /\ v < pow2[WideBits]
        /\ v < pow2[WideBits - 1] => Signed(v, WideBits) = v /\ v < pow2[WideBits]
        /\ v < pow2[NarrowBits - 1] => Signed(v, NarrowBits) = v /\ v < pow2[WideBits]
<1>1. ASSUME NEW p \in Nat, v < p PROVE v % p = v
      BY <1>1
<1> QED
    BY <1>1, Widths DEF Unsigned, Signed

\* A conversion to uint32 yields one.
LEMMA UnsignedType ==
  ASSUME NEW v \in Int
  PROVE Unsigned(v, NarrowBits) \in Nat /\ Unsigned(v, NarrowBits) < pow2[NarrowBits]
<1>1. pow2[NarrowBits] \in Nat /\ pow2[NarrowBits] > 0
      BY Widths
<1>2. ASSUME NEW p \in Nat, p > 0 PROVE v % p \in Nat /\ v % p < p
      BY <1>2
<1> QED
    BY <1>1, <1>2 DEF Unsigned

-----------------------------------------------------------------------------
\* What is written, and the sizes that are computed of it

\* The turns of the loop cover the bits of an integer, and not seven more.
LEMMA GroupsBound == MaxGroups \in Nat /\ MaxGroups * 7 <= WideBits + 6
BY Widths DEF MaxGroups

\* A scalar is written in as many bytes as are counted for it.
LEMMA VarintWritten ==
  ASSUME NEW tag \in Nat, NEW v \in Nat, v < pow2[WideBits]
  PROVE /\ Varint(tag, v) \in Seq(Nat)
        /\ Len(Varint(tag, v)) = VarintSize(v)
        /\ VarintSize(v) \in 0..(1 + MaxGroups)
        /\ v # 0 => Varint(tag, v) = <<tag>> \o encodeVarint[v]
<1>1. CASE v = 0
  <2>1. Varint(tag, v) = <<>> /\ VarintSize(v) = 0
        BY <1>1 DEF Varint, VarintSize
  <2>2. <<>> \in Seq(Nat) /\ Len(<<>>) = 0
        OBVIOUS
  <2>3. 0 \in 0..(1 + MaxGroups)
        BY GroupsBound
  <2> QED
      BY <1>1, <2>1, <2>2, <2>3
<1>2. CASE v # 0
  <2>1. Unsigned(v, WideBits) = v
        BY InWidth
  <2>2. Varint(tag, v) = <<tag>> \o encodeVarint[v] /\ VarintSize(v) = 1 + sov(v)
        BY <1>2, <2>1 DEF Varint, VarintSize
  <2> DEFINE e == encodeVarint[v]
  <2>3. e \in Seq(Nat) /\ sov(v) = Len(e) /\ Len(e) <= MaxGroups
        BY EncodeType, EncodedSize
  <2> HIDE DEF e
  <2>4. <<tag>> \o e \in Seq(Nat) /\ Len(<<tag>> \o e) = 1 + Len(e) /\ Len(e) \in Nat
        BY <2>3, Bytes1
  <2> QED
      BY <2>2, <2>3, <2>4, GroupsBound DEF e
<1> QED
    BY <1>1, <1>2

\* A length and its bytes are written in as many bytes as are counted for them.
LEMMA DelimitedWritten ==
  ASSUME NEW tag \in Nat, NEW b \in Seq(Nat), Len(b) < pow2[WideBits]
  PROVE /\ Delimited(tag, b) \in Seq(Nat)
        /\ Delimited(tag, b) = <<tag>> \o (encodeVarint[Len(b)] \o b)
        /\ Len(Delimited(tag, b)) = DelimitedSize(Len(b))
        /\ DelimitedSize(Len(b)) \in Len(b)..(1 + Len(b) + MaxGroups)
<1> DEFINE e == encodeVarint[Len(b)]
<1>1. Len(b) \in Nat
      OBVIOUS
<1>2. e \in Seq(Nat) /\ sov(Len(b)) = Len(e) /\ Len(e) <= MaxGroups
      BY <1>1, EncodeType, EncodedSize
<1>3. Delimited(tag, b) = (<<tag>> \o e) \o b /\ DelimitedSize(Len(b)) = 1 + Len(b) + sov(Len(b))
      BY DEF Delimited, DelimitedSize
<1> HIDE DEF e
<1>4. (<<tag>> \o e) \o b = <<tag>> \o (e \o b) /\ e \o b \in Seq(Nat)
      BY <1>2, Bytes3
<1>5. Len(e \o b) = Len(e) + Len(b) /\ Len(e) \in Nat
      BY <1>2
<1>6. <<tag>> \o (e \o b) \in Seq(Nat) /\ Len(<<tag>> \o (e \o b)) = 1 + Len(e \o b)
  <2> DEFINE s == e \o b
  <2> HIDE DEF s
  <2>1. s \in Seq(Nat)
        BY <1>4 DEF s
  <2>2. <<tag>> \o s \in Seq(Nat) /\ Len(<<tag>> \o s) = 1 + Len(s)
        BY <2>1, Bytes1
  <2> QED
      BY <2>2 DEF s
<1>7. DelimitedSize(Len(b)) = 1 + Len(b) + Len(e)
      BY <1>2, <1>3
<1>8. DelimitedSize(Len(b)) \in Len(b)..(1 + Len(b) + MaxGroups)
      BY <1>1, <1>2, <1>5, <1>7, GroupsBound
<1>9. Delimited(tag, b) = <<tag>> \o (e \o b)
      BY <1>3, <1>4
<1>10. Len(Delimited(tag, b)) = DelimitedSize(Len(b))
       BY <1>1, <1>5, <1>6, <1>7, <1>9
<1> QED
    BY <1>6, <1>8, <1>9, <1>10 DEF e

\* A text is written in as many bytes as are counted for it.
LEMMA TextWritten ==
  ASSUME NEW tag \in Nat, NEW b \in Seq(Nat), Len(b) < pow2[WideBits]
  PROVE /\ Text(tag, b) \in Seq(Nat)
        /\ Len(Text(tag, b)) = TextSize(b)
        /\ TextSize(b) \in 0..(1 + Len(b) + MaxGroups) /\ Len(b) <= TextSize(b)
        /\ b # <<>> => Text(tag, b) = Delimited(tag, b)
<1>1. CASE b = <<>>
  <2>1. Text(tag, b) = <<>> /\ TextSize(b) = 0 /\ Len(b) = 0
        BY <1>1 DEF Text, TextSize
  <2>2. <<>> \in Seq(Nat) /\ Len(<<>>) = 0
        OBVIOUS
  <2>3. TextSize(b) \in 0..(1 + Len(b) + MaxGroups) /\ Len(b) <= TextSize(b)
        BY ONLY <2>1, GroupsBound
  <2>4. Text(tag, b) \in Seq(Nat) /\ Len(Text(tag, b)) = TextSize(b)
        BY ONLY <2>1, <2>2
  <2> QED
      BY <1>1, <2>3, <2>4
<1>2. CASE b # <<>>
  <2>1. Text(tag, b) = Delimited(tag, b) /\ TextSize(b) = DelimitedSize(Len(b))
        BY <1>2 DEF Text, TextSize
  <2>2. Len(b) \in Nat
        OBVIOUS
  <2>3. DelimitedSize(Len(b)) \in 0..(1 + Len(b) + MaxGroups) /\ Len(b) <= DelimitedSize(Len(b))
    <3>1. DelimitedSize(Len(b)) \in Len(b)..(1 + Len(b) + MaxGroups)
          BY DelimitedWritten
    <3> DEFINE n == Len(b)
    <3> HIDE DEF n
    <3>2. n \in Nat /\ DelimitedSize(n) \in n..(1 + n + MaxGroups)
          BY <2>2, <3>1 DEF n
    <3>3. DelimitedSize(n) \in 0..(1 + n + MaxGroups) /\ n <= DelimitedSize(n)
          BY <3>2, GroupsBound
    <3> QED
        BY <3>3 DEF n
  <2> QED
      BY <2>1, <2>3, DelimitedWritten
<1> QED
    BY <1>1, <1>2

-----------------------------------------------------------------------------
\* What is read

\* What a successful read yields.
LEMMA ReadFields ==
  ASSUME NEW v, NEW rest
  PROVE Read(v, rest).err = "" /\ Read(v, rest).v = v /\ Read(v, rest).rest = rest
BY DEF Read

\* A tag of one byte: its field number and its wire type.
LEMMA TagRead ==
  ASSUME NEW tag \in Nat, tag < 128, NEW rest \in Seq(Nat)
  PROVE /\ readVarint(<<tag>> \o rest) = Read(tag, rest)
        /\ fieldNum(<<tag>> \o rest) = tag \div 8
<1>1. encodeVarint[tag] = <<tag>>
      BY EncodeEquation
<1>2. encodeVarint[tag] = <<tag>> /\ tag < pow2[WideBits]
      BY <1>1, Widths
<1>3. readVarint(<<tag>> \o rest) = Read(tag, rest)
      BY <1>2, VarintRead
<1>4. tag \div 8 \in Nat /\ tag \div 8 < 256
      OBVIOUS
<1>5. Signed(tag \div 8, NarrowBits) = tag \div 8
      BY <1>4, InWidth, Widths
<1> QED
    BY <1>3, <1>5, ReadFields DEF fieldNum

\* Bytes behind their length are read as they were written, whatever follows.
LEMMA DelimitedRead ==
  ASSUME NEW b \in Seq(Nat), Len(b) < pow2[WideBits - 1], NEW rest \in Seq(Nat)
  PROVE readDelimited(encodeVarint[Len(b)] \o (b \o rest)) = Read(b, rest)
<1> DEFINE s == b \o rest
           n == Len(b)
<1>1. s \in Seq(Nat) /\ n \in Nat /\ Len(s) = n + Len(rest) /\ Len(rest) \in Nat
      OBVIOUS
<1>2. SubSeq(s, 1, n) = b /\ DropFirst(s, n) = rest
      BY Parted
<1> HIDE DEF s, n
<1>3. Signed(n, WideBits) = n /\ n < pow2[WideBits]
      BY <1>1, InWidth DEF n
<1>4. readVarint(encodeVarint[n] \o s) = Read(n, s)
      BY <1>1, <1>3, VarintRead
<1>5. ~(n < 0) /\ ~(n > Len(s))
      BY <1>1
<1>6. readDelimited(encodeVarint[n] \o s) = Read(SubSeq(s, 1, n), DropFirst(s, n))
  <2> DEFINE d == encodeVarint[n] \o s
  <2> HIDE DEF d
  <2>1. readVarint(d) = Read(n, s)
        BY <1>4 DEF d
  <2>2. Read(n, s).err = "" /\ Read(n, s).v = n /\ Read(n, s).rest = s
        BY DEF Read
  <2>3. readVarint(d).err = "" /\ readVarint(d).v = n /\ readVarint(d).rest = s
        BY <2>1, <2>2
  <2>4. readDelimited(d) = Read(SubSeq(s, 1, n), DropFirst(s, n))
        BY <1>3, <1>5, <2>3 DEF readDelimited
  <2> QED
      BY <2>4 DEF d
<1> QED
    BY <1>2, <1>6 DEF s, n

\* A turn of a reader's loop takes a field as it was written.
LEMMA VarintField ==
  ASSUME NEW fields, NEW tag \in Nat, tag < 128, tag % 8 = 0, tag >= 8,
         tag \div 8 \in DOMAIN fields, fields[tag \div 8].wire = 0,
         NEW v \in Nat, v < pow2[WideBits], NEW rest \in Seq(Nat)
  PROVE readField(fields, <<tag>> \o (encodeVarint[v] \o rest)) = Read(v, rest)
<1> DEFINE s == encodeVarint[v] \o rest
<1>1. s \in Seq(Nat)
      BY EncodeType, Bytes2
<1>2. readVarint(s) = Read(v, rest)
      BY VarintRead
<1> HIDE DEF s
<1>3. readVarint(<<tag>> \o s) = Read(tag, s) /\ fieldNum(<<tag>> \o s) = tag \div 8
      BY <1>1, TagRead
<1>4. ~(tag \div 8 <= 0) /\ tag % 8 # 4
      OBVIOUS
<1>5. readField(fields, <<tag>> \o s) = readVarint(s)
  <2> DEFINE d == <<tag>> \o s
  <2> HIDE DEF d
  <2>1. readVarint(d) = Read(tag, s)
        BY <1>3, <1>4 DEF d
  <2>2. Read(tag, s).err = "" /\ Read(tag, s).v = tag /\ Read(tag, s).rest = s
        BY DEF Read
  <2>3. readVarint(d).err = "" /\ readVarint(d).v = tag /\ readVarint(d).rest = s
        BY <2>1, <2>2
  <2>4. fieldNum(d) = tag \div 8
        BY <1>3, <1>4 DEF d
  <2>5. readField(fields, d) = readVarint(s)
        BY <1>4, <2>3, <2>4 DEF readField
  <2> QED
      BY <2>5 DEF d
<1> QED
    BY <1>2, <1>5 DEF s

\* A field of delimited bytes, read by its tag in a reader that has it.
LEMMA DelimitedField ==
  ASSUME NEW fields, NEW tag \in Nat, tag < 128, tag % 8 = 2, tag >= 8,
         tag \div 8 \in DOMAIN fields, fields[tag \div 8].wire = 2,
         NEW b \in Seq(Nat), Len(b) < pow2[WideBits - 1], NEW rest \in Seq(Nat)
  PROVE /\ readField(fields, Delimited(tag, b) \o rest) = Read(b, rest)
        /\ fieldNum(Delimited(tag, b) \o rest) = tag \div 8
<1> DEFINE s == encodeVarint[Len(b)] \o (b \o rest)
           e == encodeVarint[Len(b)]
<1>1. e \in Seq(Nat) /\ Len(b) \in Nat
      BY EncodeType
<1>2. Len(b) < pow2[WideBits]
      BY <1>1, InWidth
<1>3. readDelimited(s) = Read(b, rest)
      BY DelimitedRead
<1>4. Delimited(tag, b) \o rest = <<tag>> \o s /\ s \in Seq(Nat)
  <2> HIDE DEF e
  <2>1. b \o rest \in Seq(Nat) /\ e \in Seq(Nat)
        BY <1>1
  <2>2. e \o b \in Seq(Nat) /\ (e \o b) \o rest = e \o (b \o rest) /\ e \o (b \o rest) \in Seq(Nat)
    <3>1. AreBytes(e) /\ AreBytes(b) /\ AreBytes(rest)
          BY <2>1 DEF AreBytes
    <3>2. Cat(Cat(e, b), rest) = Cat(e, Cat(b, rest))
          BY <3>1, CatCat
    <3>3. AreBytes(Cat(e, b)) /\ AreBytes(Cat(b, rest))
          BY <2>1 DEF AreBytes, Cat
    <3>4. AreBytes(Cat(e, Cat(b, rest)))
          BY <3>1, <3>3 DEF AreBytes, Cat
    <3> QED
        BY <3>2, <3>3, <3>4, Zenon DEF AreBytes, Cat
  <2>3. Delimited(tag, b) = <<tag>> \o (e \o b)
        BY <1>2, DelimitedWritten DEF e
  <2> DEFINE x == e \o b
  <2>4. (<<tag>> \o x) \o rest = <<tag>> \o (x \o rest)
    <3> HIDE DEF x
    <3>1. x \in Seq(Nat)
          BY <2>2 DEF x
    <3> QED
        BY <3>1, Bytes3
  <2> QED
      BY <2>2, <2>3, <2>4 DEF e
<1> HIDE DEF s, e
<1>5. readVarint(<<tag>> \o s) = Read(tag, s) /\ fieldNum(<<tag>> \o s) = tag \div 8
      BY <1>4, TagRead
<1>6. ~(tag \div 8 <= 0) /\ tag % 8 # 4
      OBVIOUS
<1>7. readField(fields, <<tag>> \o s) = readDelimited(s)
  <2> DEFINE d == <<tag>> \o s
  <2> HIDE DEF d
  <2>1. readVarint(d) = Read(tag, s)
        BY <1>5, <1>6 DEF d
  <2>2. Read(tag, s).err = "" /\ Read(tag, s).v = tag /\ Read(tag, s).rest = s
        BY DEF Read
  <2>3. readVarint(d).err = "" /\ readVarint(d).v = tag /\ readVarint(d).rest = s
        BY <2>1, <2>2
  <2>4. fieldNum(d) = tag \div 8
        BY <1>5, <1>6 DEF d
  <2>5. readField(fields, d) = readDelimited(s)
        BY <1>6, <2>3, <2>4 DEF readField
  <2> QED
      BY <2>5 DEF d
<1> QED
    BY <1>3, <1>4, <1>5, <1>7

-----------------------------------------------------------------------------
\* The readers' loop

\* Loops as functions from their turns: f is g one turn later; g has come to y
\* after k turns and stays there.
Ahead(f, g) == f[1] = g[0] /\ \A n \in Nat : f[n + 1] = g[n] => f[(n + 1) + 1] = g[n + 1]
Stays(g, k, y) == g[k] = y /\ \A n \in Nat : g[n] = y => g[n + 1] = y

\* A loop f that comes to where a loop g starts in one turn, and takes the same
\* turns from there, ends as g does.
LEMMA LoopEnds ==
  ASSUME NEW f, NEW g, NEW k \in Nat, NEW j \in Nat, k < j, NEW y, Ahead(f, g), Stays(g, k, y)
  PROVE f[j] = y
<1> DEFINE S == {n \in Nat : f[n + 1] = g[n]}
           U == {n \in Nat : g[k + n] = y}
<1>1. 0 \in S
      BY DEF Ahead
<1>2. ASSUME NEW n \in Nat, n \in S PROVE n + 1 \in S
      BY <1>2 DEF Ahead
<1>3. \A n \in Nat : n \in S
  <2> HIDE DEF S
  <2> QED
      BY <1>1, <1>2, Induction
<1>4. 0 \in U
      BY DEF Stays
<1>5. ASSUME NEW n \in Nat, n \in U PROVE n + 1 \in U
  <2>1. k + n \in Nat /\ k + (n + 1) = (k + n) + 1
        OBVIOUS
  <2> QED
      BY <1>5, <2>1 DEF Stays
<1>6. \A n \in Nat : n \in U
  <2> HIDE DEF U
  <2> QED
      BY <1>4, <1>5, Induction
<1>7. j - 1 \in Nat /\ (j - 1) + 1 = j /\ (j - 1) - k \in Nat /\ k + ((j - 1) - k) = j - 1
      OBVIOUS
<1>8. f[(j - 1) + 1] = g[j - 1]
      BY <1>3, <1>7
<1>9. g[k + ((j - 1) - k)] = y
      BY <1>6, <1>7
<1> QED
    BY <1>7, <1>8, <1>9

\* Nonempty bytes before others are more of them.
LEMMA MoreBytes ==
  ASSUME NEW p \in Seq(Nat), p # <<>>, NEW rest \in Seq(Nat)
  PROVE /\ p \o rest \in Seq(Nat) /\ p \o rest # <<>>
        /\ Len(rest) \in Nat /\ Len(p \o rest) \in Nat /\ Len(rest) < Len(p \o rest)
<1>1. Len(p) \in Nat /\ Len(p) # 0
      OBVIOUS
<1>2. Len(p \o rest) = Len(p) + Len(rest) /\ Len(rest) \in Nat
      OBVIOUS
<1> QED
    BY <1>1, <1>2

\* Two bytes before others are turns to take before those for the others.
LEMMA MoreTurns ==
  ASSUME NEW p \in Seq(Nat), Len(p) > 1, NEW rest \in Seq(Nat)
  PROVE Turns(rest) \in Nat /\ Turns(p \o rest) \in Nat /\ Turns(rest) < Turns(p \o rest)
<1> DEFINE n == Len(p)
           k == Len(rest)
           d == p \o rest
<1>1. n \in Nat /\ n > 1 /\ k \in Nat
      OBVIOUS
<1>2. Len(d) = n + k
      OBVIOUS
<1> HIDE DEF n, k, d
<1>3. Turns(rest) = (k + 1) \div 2 /\ Turns(d) = (n + k + 1) \div 2
      BY <1>2 DEF Turns, k
<1>4. (k + 1) \div 2 \in Nat /\ (n + k + 1) \div 2 \in Nat /\ (k + 1) \div 2 < (n + k + 1) \div 2
      BY <1>1
<1> QED
    BY <1>3, <1>4 DEF d

\* What a turn needs to know: that the bytes p are a field of this number and
\* value, whatever follows them.
Carries(fields, num, p, v) ==
  /\ p \in Seq(Nat) /\ Len(p) > 1
  /\ \A rest \in Seq(Nat) : readField(fields, p \o rest) = Read(v, rest) /\ fieldNum(p \o rest) = num

\* m2 is m after a field of this number and value.
Puts(type, num, v, m, m2) ==
  m2 = [m EXCEPT ![FieldsOf[type][num].name] = Stored(FieldsOf[type][num], @, v)]
IsScalar(type, num) ==
  num \in DOMAIN FieldsOf[type] /\ FieldsOf[type][num].store \notin {"part", "parts", "case"}

\* The loop of UnmarshalFlat: the turns it takes, where a turn leads, its end, a
\* field of a scalar.
FlatTurn(type, r) == Turn(NoPart, type, r)
FlatRun(type, m, d) ==
  LET after[n \in Nat] == IF n = 0 THEN Read(m, d) ELSE FlatTurn(type, after[n - 1])
  IN after
FlatLoop(type, m, d, f) ==
  /\ UnmarshalFlat(type, m, d) = f[Turns(d)]
  /\ f[0] = Read(m, d)
  /\ \A n \in Nat : f[n + 1] = FlatTurn(type, f[n])

\* The turns of the loop of UnmarshalFlat.
LEMMA FlatTurns ==
  ASSUME NEW type, NEW m, NEW d
  PROVE FlatLoop(type, m, d, FlatRun(type, m, d))
<1> DEFINE f[n \in Nat] == IF n = 0 THEN Read(m, d) ELSE FlatTurn(type, f[n - 1])
<1>1. UnmarshalFlat(type, m, d) = f[Turns(d)]
      BY DEF UnmarshalFlat, UnmarshalWith, FlatTurn
<1>2. f = [n \in Nat |-> IF n = 0 THEN Read(m, d) ELSE FlatTurn(type, f[n - 1])]
      OBVIOUS
<1>3. f = FlatRun(type, m, d)
      BY DEF FlatRun
<1> HIDE DEF f
<1>4. f[0] = Read(m, d)
      BY <1>2
<1>5. ASSUME NEW n \in Nat PROVE f[n + 1] = FlatTurn(type, f[n])
  <2>1. n + 1 \in Nat /\ n + 1 # 0 /\ (n + 1) - 1 = n
        OBVIOUS
  <2> QED
      BY <1>2, <2>1
<1>6. FlatLoop(type, m, d, f)
      BY <1>1, <1>4, <1>5 DEF FlatLoop
<1> QED
    BY <1>3, <1>6

\* A loop of UnmarshalFlat that has come to another's start ends as that one does.
LEMMA FlatAhead ==
  ASSUME NEW type, NEW m, NEW d, NEW m2, NEW rest, NEW end, NEW k \in Nat, NEW j \in Nat,
         Turns(rest) = k, Turns(d) = j, k < j,
         FlatTurn(type, Read(m, d)) = Read(m2, rest),
         UnmarshalFlat(type, m2, rest) = end, FlatTurn(type, end) = end
  PROVE UnmarshalFlat(type, m, d) = end
<1>1. PICK f : FlatLoop(type, m, d, f)
      BY FlatTurns
<1>2. PICK g : FlatLoop(type, m2, rest, g)
      BY FlatTurns
<1>3. f[1] = g[0]
  <2>1. f[0 + 1] = FlatTurn(type, f[0])
        BY <1>1 DEF FlatLoop
  <2> QED
      BY <1>1, <1>2, <2>1 DEF FlatLoop
<1>4. Ahead(f, g)
      BY <1>1, <1>2, <1>3 DEF Ahead, FlatLoop
<1>5. Stays(g, k, end)
      BY <1>2 DEF Stays, FlatLoop
<1>6. f[j] = end
      BY <1>4, <1>5, LoopEnds
<1> QED
    BY <1>1, <1>6 DEF FlatLoop

\* UnmarshalFlat takes nothing from no bytes.
LEMMA FlatEnd ==
  ASSUME NEW type, NEW m
  PROVE UnmarshalFlat(type, m, <<>>) = Read(m, <<>>)
<1>1. Turns(<<>>) = 0
      BY DEF Turns
<1> QED
    BY <1>1, FlatTurns DEF FlatLoop

\* UnmarshalFlat after a turn that goes past the bytes p.
LEMMA FlatStep ==
  ASSUME NEW type, NEW m, NEW m2, NEW y,
         NEW p \in Seq(Nat), Len(p) > 1, NEW rest \in Seq(Nat),
         FlatTurn(type, Read(m, p \o rest)) = Read(m2, rest),
         UnmarshalFlat(type, m2, rest) = Read(y, <<>>)
  PROVE UnmarshalFlat(type, m, p \o rest) = Read(y, <<>>)
<1> DEFINE d == p \o rest
           end == Read(y, <<>>)
           k == Turns(rest)
           j == Turns(d)
<1>1. k \in Nat /\ j \in Nat /\ k < j
      BY MoreTurns
<1>2. FlatTurn(type, end) = end
      BY DEF FlatTurn, Turn, Read
<1>3. FlatTurn(type, Read(m, d)) = Read(m2, rest) /\ UnmarshalFlat(type, m2, rest) = end
      OBVIOUS
<1>4. k = Turns(rest) /\ j = Turns(d)
      OBVIOUS
<1>5. UnmarshalFlat(type, m, d) = end
  <2> HIDE DEF d, end, k, j
  <2> QED
      BY ONLY <1>1, <1>2, <1>3, <1>4, FlatAhead
<1> QED
    BY <1>5

\* UnmarshalFlat after a turn that stores a scalar.
LEMMA FlatField ==
  ASSUME NEW type, NEW m, NEW m2, NEW y, NEW num, NEW v,
         NEW p, p # <<>>, Carries(FieldsOf[type], num, p, v), NEW rest \in Seq(Nat),
         IsScalar(type, num), Puts(type, num, v, m, m2),
         UnmarshalFlat(type, m2, rest) = Read(y, <<>>)
  PROVE UnmarshalFlat(type, m, p \o rest) = Read(y, <<>>)
<1> DEFINE d == p \o rest
<1>1. p \in Seq(Nat) /\ Len(p) > 1
      BY DEF Carries
<1>2. readField(FieldsOf[type], d) = Read(v, rest) /\ fieldNum(d) = num
      BY DEF Carries
<1>3. FlatTurn(type, Read(m, d)) = Read(m2, rest)
  <2> HIDE DEF d
  <2>1. Read(v, rest).err = "" /\ Read(v, rest).v = v /\ Read(v, rest).rest = rest
        BY DEF Read
  <2>2. d # <<>>
        BY <1>1, MoreBytes DEF d
  <2>3. Read(m, d).err = "" /\ Read(m, d).v = m /\ Read(m, d).rest = d
        BY DEF Read
  <2> QED
      BY <1>2, <2>1, <2>2, <2>3 DEF FlatTurn, Turn, TakeField, switchField, readValue, storeValue,
                IsScalar, Puts
<1> QED
    BY <1>1, <1>3, FlatStep

\* The loop of UnmarshalNested: the turns it takes, where a turn leads, its end, a
\* field of a scalar.
NestedTurn(type, r) == Turn(UnmarshalFlat, type, r)
NestedRun(type, m, d) ==
  LET after[n \in Nat] == IF n = 0 THEN Read(m, d) ELSE NestedTurn(type, after[n - 1])
  IN after
NestedLoop(type, m, d, f) ==
  /\ UnmarshalNested(type, m, d) = f[Turns(d)]
  /\ f[0] = Read(m, d)
  /\ \A n \in Nat : f[n + 1] = NestedTurn(type, f[n])

\* The turns of the loop of UnmarshalNested.
LEMMA NestedTurns ==
  ASSUME NEW type, NEW m, NEW d
  PROVE NestedLoop(type, m, d, NestedRun(type, m, d))
<1> DEFINE f[n \in Nat] == IF n = 0 THEN Read(m, d) ELSE NestedTurn(type, f[n - 1])
<1>1. UnmarshalNested(type, m, d) = f[Turns(d)]
      BY DEF UnmarshalNested, UnmarshalWith, NestedTurn
<1>2. f = [n \in Nat |-> IF n = 0 THEN Read(m, d) ELSE NestedTurn(type, f[n - 1])]
      OBVIOUS
<1>3. f = NestedRun(type, m, d)
      BY DEF NestedRun
<1> HIDE DEF f
<1>4. f[0] = Read(m, d)
      BY <1>2
<1>5. ASSUME NEW n \in Nat PROVE f[n + 1] = NestedTurn(type, f[n])
  <2>1. n + 1 \in Nat /\ n + 1 # 0 /\ (n + 1) - 1 = n
        OBVIOUS
  <2> QED
      BY <1>2, <2>1
<1>6. NestedLoop(type, m, d, f)
      BY <1>1, <1>4, <1>5 DEF NestedLoop
<1> QED
    BY <1>3, <1>6

\* A loop of UnmarshalNested that has come to another's start ends as that one does.
LEMMA NestedAhead ==
  ASSUME NEW type, NEW m, NEW d, NEW m2, NEW rest, NEW end, NEW k \in Nat, NEW j \in Nat,
         Turns(rest) = k, Turns(d) = j, k < j,
         NestedTurn(type, Read(m, d)) = Read(m2, rest),
         UnmarshalNested(type, m2, rest) = end, NestedTurn(type, end) = end
  PROVE UnmarshalNested(type, m, d) = end
<1>1. PICK f : NestedLoop(type, m, d, f)
      BY NestedTurns
<1>2. PICK g : NestedLoop(type, m2, rest, g)
      BY NestedTurns
<1>3. f[1] = g[0]
  <2>1. f[0 + 1] = NestedTurn(type, f[0])
        BY <1>1 DEF NestedLoop
  <2> QED
      BY <1>1, <1>2, <2>1 DEF NestedLoop
<1>4. Ahead(f, g)
      BY <1>1, <1>2, <1>3 DEF Ahead, NestedLoop
<1>5. Stays(g, k, end)
      BY <1>2 DEF Stays, NestedLoop
<1>6. f[j] = end
      BY <1>4, <1>5, LoopEnds
<1> QED
    BY <1>1, <1>6 DEF NestedLoop

\* UnmarshalNested takes nothing from no bytes.
LEMMA NestedEnd ==
  ASSUME NEW type, NEW m
  PROVE UnmarshalNested(type, m, <<>>) = Read(m, <<>>)
<1>1. Turns(<<>>) = 0
      BY DEF Turns
<1> QED
    BY <1>1, NestedTurns DEF NestedLoop

\* UnmarshalNested after a turn that goes past the bytes p.
LEMMA NestedStep ==
  ASSUME NEW type, NEW m, NEW m2, NEW y,
         NEW p \in Seq(Nat), Len(p) > 1, NEW rest \in Seq(Nat),
         NestedTurn(type, Read(m, p \o rest)) = Read(m2, rest),
         UnmarshalNested(type, m2, rest) = Read(y, <<>>)
  PROVE UnmarshalNested(type, m, p \o rest) = Read(y, <<>>)
<1> DEFINE d == p \o rest
           end == Read(y, <<>>)
           k == Turns(rest)
           j == Turns(d)
<1>1. k \in Nat /\ j \in Nat /\ k < j
      BY MoreTurns
<1>2. NestedTurn(type, end) = end
      BY DEF NestedTurn, Turn, Read
<1>3. NestedTurn(type, Read(m, d)) = Read(m2, rest) /\ UnmarshalNested(type, m2, rest) = end
      OBVIOUS
<1>4. k = Turns(rest) /\ j = Turns(d)
      OBVIOUS
<1>5. UnmarshalNested(type, m, d) = end
  <2> HIDE DEF d, end, k, j
  <2> QED
      BY ONLY <1>1, <1>2, <1>3, <1>4, NestedAhead
<1> QED
    BY <1>5

\* UnmarshalNested after a turn that stores a scalar.
LEMMA NestedField ==
  ASSUME NEW type, NEW m, NEW m2, NEW y, NEW num, NEW v,
         NEW p, p # <<>>, Carries(FieldsOf[type], num, p, v), NEW rest \in Seq(Nat),
         IsScalar(type, num), Puts(type, num, v, m, m2),
         UnmarshalNested(type, m2, rest) = Read(y, <<>>)
  PROVE UnmarshalNested(type, m, p \o rest) = Read(y, <<>>)
<1> DEFINE d == p \o rest
<1>1. p \in Seq(Nat) /\ Len(p) > 1
      BY DEF Carries
<1>2. readField(FieldsOf[type], d) = Read(v, rest) /\ fieldNum(d) = num
      BY DEF Carries
<1>3. NestedTurn(type, Read(m, d)) = Read(m2, rest)
  <2> HIDE DEF d
  <2>1. Read(v, rest).err = "" /\ Read(v, rest).v = v /\ Read(v, rest).rest = rest
        BY DEF Read
  <2>2. d # <<>>
        BY <1>1, MoreBytes DEF d
  <2>3. Read(m, d).err = "" /\ Read(m, d).v = m /\ Read(m, d).rest = d
        BY DEF Read
  <2> QED
      BY <1>2, <2>1, <2>2, <2>3 DEF NestedTurn, Turn, TakeField, switchField, readValue, storeValue,
                IsScalar, Puts
<1> QED
    BY <1>1, <1>3, NestedStep

\* The bytes b are v to the reader of a part of this number: they are read into
\* what m has of it, or into a new one.
NestedPartIs(type, num, m, b, v) ==
  LET f == FieldsOf[type][num]
  IN /\ num \in DOMAIN FieldsOf[type] /\ f.store \in {"part", "parts", "case"}
     /\ UnmarshalFlat(f.type, IF f.store = "part" THEN m[f.name] ELSE Zero[f.type], b) = Read(v, <<>>)

\* UnmarshalNested after a turn that stores a part.
LEMMA NestedPart ==
  ASSUME NEW type, NEW m, NEW m2, NEW y, NEW num, NEW b, NEW v,
         NEW p, p # <<>>, Carries(FieldsOf[type], num, p, b), NEW rest \in Seq(Nat),
         NestedPartIs(type, num, m, b, v), Puts(type, num, v, m, m2),
         UnmarshalNested(type, m2, rest) = Read(y, <<>>)
  PROVE UnmarshalNested(type, m, p \o rest) = Read(y, <<>>)
<1> DEFINE d == p \o rest
<1>1. p \in Seq(Nat) /\ Len(p) > 1
      BY DEF Carries
<1>2. readField(FieldsOf[type], d) = Read(b, rest) /\ fieldNum(d) = num
      BY DEF Carries
<1>3. NestedTurn(type, Read(m, d)) = Read(m2, rest)
  <2> HIDE DEF d
  <2>1. Read(b, rest).err = "" /\ Read(b, rest).v = b /\ Read(b, rest).rest = rest
        BY DEF Read
  <2>2. Read(v, <<>>).err = "" /\ Read(v, <<>>).v = v
        BY DEF Read
  <2>3. d # <<>>
        BY <1>1, MoreBytes DEF d
  <2>4. Read(m, d).err = "" /\ Read(m, d).v = m /\ Read(m, d).rest = d
        BY DEF Read
  <2> DEFINE f == FieldsOf[type][num]
             start == IF f.store = "part" THEN m[f.name] ELSE Zero[f.type]
  <2>5. UnmarshalFlat(f.type, start, b) = Read(v, <<>>) /\ num \in DOMAIN FieldsOf[type]
        BY DEF NestedPartIs
  <2>6. UnmarshalFlat(f.type, start, b).err = "" /\ UnmarshalFlat(f.type, start, b).v = v
        BY <2>2, <2>5
  <2>7. f.store \in {"part", "parts", "case"}
        BY DEF NestedPartIs
  <2>8. NestedTurn(type, Read(m, d)) = Read([m EXCEPT ![f.name] = Stored(f, @, v)], rest)
        BY <1>2, <2>1, <2>3, <2>4, <2>5, <2>6, <2>7 DEF NestedTurn, Turn, TakeField, switchField,
                  readValue, storeValue
  <2> QED
      BY <2>8 DEF Puts
<1> QED
    BY <1>1, <1>3, NestedStep

\* The loop of UnmarshalInto: the turns it takes, where a turn leads, its end, a
\* field of a scalar.
IntoTurn(type, r) == Turn(UnmarshalNested, type, r)
IntoRun(type, m, d) ==
  LET after[n \in Nat] == IF n = 0 THEN Read(m, d) ELSE IntoTurn(type, after[n - 1])
  IN after
IntoLoop(type, m, d, f) ==
  /\ UnmarshalInto(type, m, d) = f[Turns(d)]
  /\ f[0] = Read(m, d)
  /\ \A n \in Nat : f[n + 1] = IntoTurn(type, f[n])

\* The turns of the loop of UnmarshalInto.
LEMMA IntoTurns ==
  ASSUME NEW type, NEW m, NEW d
  PROVE IntoLoop(type, m, d, IntoRun(type, m, d))
<1> DEFINE f[n \in Nat] == IF n = 0 THEN Read(m, d) ELSE IntoTurn(type, f[n - 1])
<1>1. UnmarshalInto(type, m, d) = f[Turns(d)]
      BY DEF UnmarshalInto, UnmarshalWith, IntoTurn
<1>2. f = [n \in Nat |-> IF n = 0 THEN Read(m, d) ELSE IntoTurn(type, f[n - 1])]
      OBVIOUS
<1>3. f = IntoRun(type, m, d)
      BY DEF IntoRun
<1> HIDE DEF f
<1>4. f[0] = Read(m, d)
      BY <1>2
<1>5. ASSUME NEW n \in Nat PROVE f[n + 1] = IntoTurn(type, f[n])
  <2>1. n + 1 \in Nat /\ n + 1 # 0 /\ (n + 1) - 1 = n
        OBVIOUS
  <2> QED
      BY <1>2, <2>1
<1>6. IntoLoop(type, m, d, f)
      BY <1>1, <1>4, <1>5 DEF IntoLoop
<1> QED
    BY <1>3, <1>6

\* A loop of UnmarshalInto that has come to another's start ends as that one does.
LEMMA IntoAhead ==
  ASSUME NEW type, NEW m, NEW d, NEW m2, NEW rest, NEW end, NEW k \in Nat, NEW j \in Nat,
         Turns(rest) = k, Turns(d) = j, k < j,
         IntoTurn(type, Read(m, d)) = Read(m2, rest),
         UnmarshalInto(type, m2, rest) = end, IntoTurn(type, end) = end
  PROVE UnmarshalInto(type, m, d) = end
<1>1. PICK f : IntoLoop(type, m, d, f)
      BY IntoTurns
<1>2. PICK g : IntoLoop(type, m2, rest, g)
      BY IntoTurns
<1>3. f[1] = g[0]
  <2>1. f[0 + 1] = IntoTurn(type, f[0])
        BY <1>1 DEF IntoLoop
  <2> QED
      BY <1>1, <1>2, <2>1 DEF IntoLoop
<1>4. Ahead(f, g)
      BY <1>1, <1>2, <1>3 DEF Ahead, IntoLoop
<1>5. Stays(g, k, end)
      BY <1>2 DEF Stays, IntoLoop
<1>6. f[j] = end
      BY <1>4, <1>5, LoopEnds
<1> QED
    BY <1>1, <1>6 DEF IntoLoop

\* UnmarshalInto takes nothing from no bytes.
LEMMA IntoEnd ==
  ASSUME NEW type, NEW m
  PROVE UnmarshalInto(type, m, <<>>) = Read(m, <<>>)
<1>1. Turns(<<>>) = 0
      BY DEF Turns
<1> QED
    BY <1>1, IntoTurns DEF IntoLoop

\* UnmarshalInto after a turn that goes past the bytes p.
LEMMA IntoStep ==
  ASSUME NEW type, NEW m, NEW m2, NEW y,
         NEW p \in Seq(Nat), Len(p) > 1, NEW rest \in Seq(Nat),
         IntoTurn(type, Read(m, p \o rest)) = Read(m2, rest),
         UnmarshalInto(type, m2, rest) = Read(y, <<>>)
  PROVE UnmarshalInto(type, m, p \o rest) = Read(y, <<>>)
<1> DEFINE d == p \o rest
           end == Read(y, <<>>)
           k == Turns(rest)
           j == Turns(d)
<1>1. k \in Nat /\ j \in Nat /\ k < j
      BY MoreTurns
<1>2. IntoTurn(type, end) = end
      BY DEF IntoTurn, Turn, Read
<1>3. IntoTurn(type, Read(m, d)) = Read(m2, rest) /\ UnmarshalInto(type, m2, rest) = end
      OBVIOUS
<1>4. k = Turns(rest) /\ j = Turns(d)
      OBVIOUS
<1>5. UnmarshalInto(type, m, d) = end
  <2> HIDE DEF d, end, k, j
  <2> QED
      BY ONLY <1>1, <1>2, <1>3, <1>4, IntoAhead
<1> QED
    BY <1>5

\* UnmarshalInto after a turn that stores a scalar.
LEMMA IntoField ==
  ASSUME NEW type, NEW m, NEW m2, NEW y, NEW num, NEW v,
         NEW p, p # <<>>, Carries(FieldsOf[type], num, p, v), NEW rest \in Seq(Nat),
         IsScalar(type, num), Puts(type, num, v, m, m2),
         UnmarshalInto(type, m2, rest) = Read(y, <<>>)
  PROVE UnmarshalInto(type, m, p \o rest) = Read(y, <<>>)
<1> DEFINE d == p \o rest
<1>1. p \in Seq(Nat) /\ Len(p) > 1
      BY DEF Carries
<1>2. readField(FieldsOf[type], d) = Read(v, rest) /\ fieldNum(d) = num
      BY DEF Carries
<1>3. IntoTurn(type, Read(m, d)) = Read(m2, rest)
  <2> HIDE DEF d
  <2>1. Read(v, rest).err = "" /\ Read(v, rest).v = v /\ Read(v, rest).rest = rest
        BY DEF Read
  <2>2. d # <<>>
        BY <1>1, MoreBytes DEF d
  <2>3. Read(m, d).err = "" /\ Read(m, d).v = m /\ Read(m, d).rest = d
        BY DEF Read
  <2> QED
      BY <1>2, <2>1, <2>2, <2>3 DEF IntoTurn, Turn, TakeField, switchField, readValue, storeValue,
                IsScalar, Puts
<1> QED
    BY <1>1, <1>3, IntoStep

\* The bytes b are v to the reader of a part of this number: they are read into
\* what m has of it, or into a new one.
IntoPartIs(type, num, m, b, v) ==
  LET f == FieldsOf[type][num]
  IN /\ num \in DOMAIN FieldsOf[type] /\ f.store \in {"part", "parts", "case"}
     /\ UnmarshalNested(f.type, IF f.store = "part" THEN m[f.name] ELSE Zero[f.type], b) = Read(v, <<>>)

\* UnmarshalInto after a turn that stores a part.
LEMMA IntoPart ==
  ASSUME NEW type, NEW m, NEW m2, NEW y, NEW num, NEW b, NEW v,
         NEW p, p # <<>>, Carries(FieldsOf[type], num, p, b), NEW rest \in Seq(Nat),
         IntoPartIs(type, num, m, b, v), Puts(type, num, v, m, m2),
         UnmarshalInto(type, m2, rest) = Read(y, <<>>)
  PROVE UnmarshalInto(type, m, p \o rest) = Read(y, <<>>)
<1> DEFINE d == p \o rest
<1>1. p \in Seq(Nat) /\ Len(p) > 1
      BY DEF Carries
<1>2. readField(FieldsOf[type], d) = Read(b, rest) /\ fieldNum(d) = num
      BY DEF Carries
<1>3. IntoTurn(type, Read(m, d)) = Read(m2, rest)
  <2> HIDE DEF d
  <2>1. Read(b, rest).err = "" /\ Read(b, rest).v = b /\ Read(b, rest).rest = rest
        BY DEF Read
  <2>2. Read(v, <<>>).err = "" /\ Read(v, <<>>).v = v
        BY DEF Read
  <2>3. d # <<>>
        BY <1>1, MoreBytes DEF d
  <2>4. Read(m, d).err = "" /\ Read(m, d).v = m /\ Read(m, d).rest = d
        BY DEF Read
  <2> DEFINE f == FieldsOf[type][num]
             start == IF f.store = "part" THEN m[f.name] ELSE Zero[f.type]
  <2>5. UnmarshalNested(f.type, start, b) = Read(v, <<>>) /\ num \in DOMAIN FieldsOf[type]
        BY DEF IntoPartIs
  <2>6. UnmarshalNested(f.type, start, b).err = "" /\ UnmarshalNested(f.type, start, b).v = v
        BY <2>2, <2>5
  <2>7. f.store \in {"part", "parts", "case"}
        BY DEF IntoPartIs
  <2>8. IntoTurn(type, Read(m, d)) = Read([m EXCEPT ![f.name] = Stored(f, @, v)], rest)
        BY <1>2, <2>1, <2>3, <2>4, <2>5, <2>6, <2>7 DEF IntoTurn, Turn, TakeField, switchField,
                  readValue, storeValue
  <2> QED
      BY <2>8 DEF Puts
<1> QED
    BY <1>1, <1>3, IntoStep

-----------------------------------------------------------------------------
\* New messages

\* The recursion of new messages over the types of their parts.
LEMMA ZeroEquation ==
  Zero = [type \in DOMAIN FieldsOf |-> NewMessage(FieldsOf[type], Zero)]
BY DEF Zero

\* A new message of a type.
LEMMA ZeroIs ==
  ASSUME NEW type \in DOMAIN FieldsOf
  PROVE Zero[type] = NewMessage(FieldsOf[type], Zero)
BY ZeroEquation

\* A field of a new message, whichever of those of its name; and its fields.
Fresh(fields, zero, name, z) ==
  /\ \E i \in DOMAIN fields : fields[i].name = name
  /\ \A i \in DOMAIN fields : fields[i].name = name => ZeroOf(fields[i], zero) = z

\* A field of a new message is the zero of its kind.
LEMMA NewField ==
  ASSUME NEW fields, NEW zero, NEW name, NEW z, Fresh(fields, zero, name, z)
  PROVE NewMessage(fields, zero)[name] = z
BY DEF NewMessage, Fresh

HasNames(fields, names) ==
  /\ \A i \in DOMAIN fields : fields[i].name \in names
  /\ \A name \in names : \E i \in DOMAIN fields : fields[i].name = name

\* A new message has the fields of its reader.
LEMMA NewNames ==
  ASSUME NEW fields, NEW zero, NEW names, HasNames(fields, names)
  PROVE NewMessage(fields, zero) = [name \in names |-> NewMessage(fields, zero)[name]]
<1>1. {fields[i].name : i \in DOMAIN fields} = names
      BY DEF HasNames
<1> QED
    BY <1>1 DEF NewMessage

\* What the readers' switches say of each type, and its new messages.
LEMMA MemberConfigFacts ==
  /\ "MemberConfig" \in DOMAIN FieldsOf /\ DOMAIN FieldsOf["MemberConfig"] = 1..3
  /\ FieldsOf["MemberConfig"][1] = Uint32("MemberID")
  /\ FieldsOf["MemberConfig"][2] = Bytes("Host")
  /\ FieldsOf["MemberConfig"][3] = Int32("Port")
  /\ Zero["MemberConfig"] = [MemberID |-> 0, Host |-> <<>>, Port |-> 0]
<1> DEFINE fields == FieldsOf["MemberConfig"]
           z == NewMessage(fields, Zero)
           names == {"MemberID", "Host", "Port"}
<1>1. /\ "MemberConfig" \in DOMAIN FieldsOf /\ DOMAIN fields = 1..3
      /\ fields[1] = Uint32("MemberID")
      /\ fields[2] = Bytes("Host")
      /\ fields[3] = Int32("Port")
      BY DEF FieldsOf, MemberConfigFields
<1>2. /\ Uint32("MemberID").name = "MemberID" /\ ZeroOf(Uint32("MemberID"), Zero) = 0
      /\ Bytes("Host").name = "Host" /\ ZeroOf(Bytes("Host"), Zero) = <<>>
      /\ Int32("Port").name = "Port" /\ ZeroOf(Int32("Port"), Zero) = 0
      BY DEF Bytes, Int32, Uint32, ZeroOf
<1> HIDE DEF fields
<1>3. z["MemberID"] = 0
  <2>1. Fresh(fields, Zero, "MemberID", 0)
        BY <1>1, <1>2 DEF Fresh
  <2> QED
      BY <2>1, NewField
<1>4. z["Host"] = <<>>
  <2>1. Fresh(fields, Zero, "Host", <<>>)
        BY <1>1, <1>2 DEF Fresh
  <2> QED
      BY <2>1, NewField
<1>5. z["Port"] = 0
  <2>1. Fresh(fields, Zero, "Port", 0)
        BY <1>1, <1>2 DEF Fresh
  <2> QED
      BY <2>1, NewField
<1>6. z = [name \in names |-> z[name]]
  <2>1. HasNames(fields, names)
        BY <1>1, <1>2 DEF HasNames
  <2> HIDE DEF names
  <2> QED
      BY <2>1, NewNames
<1>7. z = [MemberID |-> 0, Host |-> <<>>, Port |-> 0]
  <2> HIDE DEF z
  <2> QED
      BY <1>3, <1>4, <1>5, <1>6
<1> QED
    BY <1>1, <1>7, ZeroIs DEF fields

\* The fields of a MemberEvent, and a new one.
LEMMA MemberEventFacts ==
  /\ "MemberEvent" \in DOMAIN FieldsOf /\ DOMAIN FieldsOf["MemberEvent"] = 1..2
  /\ FieldsOf["MemberEvent"][1] = Uint32("GroupID")
  /\ FieldsOf["MemberEvent"][2] = Uint32("MemberID")
  /\ Zero["MemberEvent"] = [GroupID |-> 0, MemberID |-> 0]
<1> DEFINE fields == FieldsOf["MemberEvent"]
           z == NewMessage(fields, Zero)
           names == {"GroupID", "MemberID"}
<1>1. /\ "MemberEvent" \in DOMAIN FieldsOf /\ DOMAIN fields = 1..2
      /\ fields[1] = Uint32("GroupID")
      /\ fields[2] = Uint32("MemberID")
      BY DEF FieldsOf, MemberEventFields
<1>2. /\ Uint32("GroupID").name = "GroupID" /\ ZeroOf(Uint32("GroupID"), Zero) = 0
      /\ Uint32("MemberID").name = "MemberID" /\ ZeroOf(Uint32("MemberID"), Zero) = 0
      BY DEF Uint32, ZeroOf
<1> HIDE DEF fields
<1>3. z["GroupID"] = 0
  <2>1. Fresh(fields, Zero, "GroupID", 0)
        BY <1>1, <1>2 DEF Fresh
  <2> QED
      BY <2>1, NewField
<1>4. z["MemberID"] = 0
  <2>1. Fresh(fields, Zero, "MemberID", 0)
        BY <1>1, <1>2 DEF Fresh
  <2> QED
      BY <2>1, NewField
<1>5. z = [name \in names |-> z[name]]
  <2>1. HasNames(fields, names)
        BY <1>1, <1>2 DEF HasNames
  <2> HIDE DEF names
  <2> QED
      BY <2>1, NewNames
<1>6. z = [GroupID |-> 0, MemberID |-> 0]
  <2> HIDE DEF z
  <2> QED
      BY <1>3, <1>4, <1>5
<1> QED
    BY <1>1, <1>6, ZeroIs DEF fields

\* The fields of a ConnectionInfo, and a new one.
LEMMA ConnectionInfoFacts ==
  /\ "ConnectionInfo" \in DOMAIN FieldsOf /\ DOMAIN FieldsOf["ConnectionInfo"] = 1..2
  /\ FieldsOf["ConnectionInfo"][1] = Bytes("Address")
  /\ FieldsOf["ConnectionInfo"][2] = Bool("Snapshot")
  /\ Zero["ConnectionInfo"] = [Address |-> <<>>, Snapshot |-> FALSE]
<1> DEFINE fields == FieldsOf["ConnectionInfo"]
           z == NewMessage(fields, Zero)
           names == {"Address", "Snapshot"}
<1>1. /\ "ConnectionInfo" \in DOMAIN FieldsOf /\ DOMAIN fields = 1..2
      /\ fields[1] = Bytes("Address")
      /\ fields[2] = Bool("Snapshot")
      BY DEF FieldsOf, ConnectionInfoFields
<1>2. /\ Bytes("Address").name = "Address" /\ ZeroOf(Bytes("Address"), Zero) = <<>>
      /\ Bool("Snapshot").name = "Snapshot" /\ ZeroOf(Bool("Snapshot"), Zero) = FALSE
      BY DEF Bool, Bytes, ZeroOf
<1> HIDE DEF fields
<1>3. z["Address"] = <<>>
  <2>1. Fresh(fields, Zero, "Address", <<>>)
        BY <1>1, <1>2 DEF Fresh
  <2> QED
      BY <2>1, NewField
<1>4. z["Snapshot"] = FALSE
  <2>1. Fresh(fields, Zero, "Snapshot", FALSE)
        BY <1>1, <1>2 DEF Fresh
  <2> QED
      BY <2>1, NewField
<1>5. z = [name \in names |-> z[name]]
  <2>1. HasNames(fields, names)
        BY <1>1, <1>2 DEF HasNames
  <2> HIDE DEF names
  <2> QED
      BY <2>1, NewNames
<1>6. z = [Address |-> <<>>, Snapshot |-> FALSE]
  <2> HIDE DEF z
  <2> QED
      BY <1>3, <1>4, <1>5
<1> QED
    BY <1>1, <1>6, ZeroIs DEF fields

\* The fields of a GroupConfig, and a new one.
LEMMA GroupConfigFacts ==
  /\ "GroupConfig" \in DOMAIN FieldsOf /\ DOMAIN FieldsOf["GroupConfig"] = 1..4
  /\ FieldsOf["GroupConfig"][1] = Uint32("GroupID")
  /\ FieldsOf["GroupConfig"][2] = Uint32("MemberID")
  /\ FieldsOf["GroupConfig"][3] = Int32("Role")
  /\ FieldsOf["GroupConfig"][4] = Parts("Members", "MemberConfig")
  /\ Zero["GroupConfig"] = [GroupID |-> 0, MemberID |-> 0, Role |-> 0, Members |-> <<>>]
<1> DEFINE fields == FieldsOf["GroupConfig"]
           z == NewMessage(fields, Zero)
           names == {"GroupID", "MemberID", "Role", "Members"}
<1>1. /\ "GroupConfig" \in DOMAIN FieldsOf /\ DOMAIN fields = 1..4
      /\ fields[1] = Uint32("GroupID")
      /\ fields[2] = Uint32("MemberID")
      /\ fields[3] = Int32("Role")
      /\ fields[4] = Parts("Members", "MemberConfig")
      BY DEF FieldsOf, GroupConfigFields
<1>2. /\ Uint32("GroupID").name = "GroupID" /\ ZeroOf(Uint32("GroupID"), Zero) = 0
      /\ Uint32("MemberID").name = "MemberID" /\ ZeroOf(Uint32("MemberID"), Zero) = 0
      /\ Int32("Role").name = "Role" /\ ZeroOf(Int32("Role"), Zero) = 0
      /\ Parts("Members", "MemberConfig").name = "Members" /\ ZeroOf(Parts("Members", "MemberConfig"),
                Zero) = <<>>
      BY DEF Int32, Parts, Uint32, ZeroOf
<1> HIDE DEF fields
<1>3. z["GroupID"] = 0
  <2>1. Fresh(fields, Zero, "GroupID", 0)
        BY <1>1, <1>2 DEF Fresh
  <2> QED
      BY <2>1, NewField
<1>4. z["MemberID"] = 0
  <2>1. Fresh(fields, Zero, "MemberID", 0)
        BY <1>1, <1>2 DEF Fresh
  <2> QED
      BY <2>1, NewField
<1>5. z["Role"] = 0
  <2>1. Fresh(fields, Zero, "Role", 0)
        BY <1>1, <1>2 DEF Fresh
  <2> QED
      BY <2>1, NewField
<1>6. z["Members"] = <<>>
  <2>1. Fresh(fields, Zero, "Members", <<>>)
        BY <1>1, <1>2 DEF Fresh
  <2> QED
      BY <2>1, NewField
<1>7. z = [name \in names |-> z[name]]
  <2>1. HasNames(fields, names)
        BY <1>1, <1>2 DEF HasNames
  <2> HIDE DEF names
  <2> QED
      BY <2>1, NewNames
<1>8. z = [GroupID |-> 0, MemberID |-> 0, Role |-> 0, Members |-> <<>>]
  <2> HIDE DEF z
  <2> QED
      BY <1>3, <1>4, <1>5, <1>6, <1>7
<1> QED
    BY <1>1, <1>8, ZeroIs DEF fields

\* The fields of the events of a member, and a new one.
LEMMA OfMemberFacts ==
  ASSUME NEW type \in {"MemberReadyEvent", "MembershipChangedEvent"}
  PROVE /\ type \in DOMAIN FieldsOf /\ DOMAIN FieldsOf[type] = 1..1
        /\ FieldsOf[type][1] = Part("MemberEvent", "MemberEvent")
        /\ Zero[type] = [MemberEvent |-> Zero["MemberEvent"]]
<1> DEFINE fields == FieldsOf[type]
           z == NewMessage(fields, Zero)
           names == {"MemberEvent"}
<1>1. /\ type \in DOMAIN FieldsOf /\ DOMAIN fields = 1..1
      /\ fields[1] = Part("MemberEvent", "MemberEvent")
      BY DEF FieldsOf, MemberReadyEventFields, MembershipChangedEventFields
<1>2. /\ Part("MemberEvent", "MemberEvent").name = "MemberEvent" /\ ZeroOf(Part("MemberEvent",
          "MemberEvent"), Zero) = Zero["MemberEvent"]
      BY DEF Part, ZeroOf
<1> HIDE DEF fields
<1>3. z["MemberEvent"] = Zero["MemberEvent"]
  <2>1. Fresh(fields, Zero, "MemberEvent", Zero["MemberEvent"])
        BY <1>1, <1>2 DEF Fresh
  <2> QED
      BY <2>1, NewField
<1>4. z = [name \in names |-> z[name]]
  <2>1. HasNames(fields, names)
        BY <1>1, <1>2 DEF HasNames
  <2> HIDE DEF names
  <2> QED
      BY <2>1, NewNames
<1>5. z = [MemberEvent |-> Zero["MemberEvent"]]
  <2> HIDE DEF z
  <2> QED
      BY <1>3, <1>4
<1> QED
    BY <1>1, <1>5, ZeroIs DEF fields

\* The fields of a LeaderUpdatedEvent, and a new one.
LEMMA LeaderUpdatedFacts ==
  /\ "LeaderUpdatedEvent" \in DOMAIN FieldsOf /\ DOMAIN FieldsOf["LeaderUpdatedEvent"] = 1..3
  /\ FieldsOf["LeaderUpdatedEvent"][1] = Part("MemberEvent", "MemberEvent")
  /\ FieldsOf["LeaderUpdatedEvent"][2] = Uint64("Term")
  /\ FieldsOf["LeaderUpdatedEvent"][3] = Uint32("Leader")
  /\ Zero["LeaderUpdatedEvent"] = [MemberEvent |-> Zero["MemberEvent"], Term |-> 0, Leader |-> 0]
<1> DEFINE fields == FieldsOf["LeaderUpdatedEvent"]
           z == NewMessage(fields, Zero)
           names == {"MemberEvent", "Term", "Leader"}
<1>1. /\ "LeaderUpdatedEvent" \in DOMAIN FieldsOf /\ DOMAIN fields = 1..3
      /\ fields[1] = Part("MemberEvent", "MemberEvent")
      /\ fields[2] = Uint64("Term")
      /\ fields[3] = Uint32("Leader")
      BY DEF FieldsOf, LeaderUpdatedEventFields
<1>2. /\ Part("MemberEvent", "MemberEvent").name = "MemberEvent" /\ ZeroOf(Part("MemberEvent",
          "MemberEvent"), Zero) = Zero["MemberEvent"]
      /\ Uint64("Term").name = "Term" /\ ZeroOf(Uint64("Term"), Zero) = 0
      /\ Uint32("Leader").name = "Leader" /\ ZeroOf(Uint32("Leader"), Zero) = 0
      BY DEF Part, Uint32, Uint64, ZeroOf
<1> HIDE DEF fields
<1>3. z["MemberEvent"] = Zero["MemberEvent"]
  <2>1. Fresh(fields, Zero, "MemberEvent", Zero["MemberEvent"])
        BY <1>1, <1>2 DEF Fresh
  <2> QED
      BY <2>1, NewField
<1>4. z["Term"] = 0
  <2>1. Fresh(fields, Zero, "Term", 0)
        BY <1>1, <1>2 DEF Fresh
  <2> QED
      BY <2>1, NewField
<1>5. z["Leader"] = 0
  <2>1. Fresh(fields, Zero, "Leader", 0)
        BY <1>1, <1>2 DEF Fresh
  <2> QED
      BY <2>1, NewField
<1>6. z = [name \in names |-> z[name]]
  <2>1. HasNames(fields, names)
        BY <1>1, <1>2 DEF HasNames
  <2> HIDE DEF names
  <2> QED
      BY <2>1, NewNames
<1>7. z = [MemberEvent |-> Zero["MemberEvent"], Term |-> 0, Leader |-> 0]
  <2> HIDE DEF z
  <2> QED
      BY <1>3, <1>4, <1>5, <1>6
<1> QED
    BY <1>1, <1>7, ZeroIs DEF fields

\* The fields of the three events of a snapshot being sent, and a new one.
LEMMA SendSnapshotFacts ==
  ASSUME NEW type \in {"SendSnapshotStartedEvent", "SendSnapshotCompletedEvent", "SendSnapshotAbortedEvent"}
  PROVE /\ type \in DOMAIN FieldsOf /\ DOMAIN FieldsOf[type] = 1..3
        /\ FieldsOf[type][1] = Part("MemberEvent", "MemberEvent")
        /\ FieldsOf[type][2] = Uint64("Index")
        /\ FieldsOf[type][3] = Uint32("To")
        /\ Zero[type] = [MemberEvent |-> Zero["MemberEvent"], Index |-> 0, To |-> 0]
<1> DEFINE fields == FieldsOf[type]
           z == NewMessage(fields, Zero)
           names == {"MemberEvent", "Index", "To"}
<1>1. /\ type \in DOMAIN FieldsOf /\ DOMAIN fields = 1..3
      /\ fields[1] = Part("MemberEvent", "MemberEvent")
      /\ fields[2] = Uint64("Index")
      /\ fields[3] = Uint32("To")
      BY DEF FieldsOf, SendSnapshotStartedEventFields, SendSnapshotCompletedEventFields,
                SendSnapshotAbortedEventFields
<1>2. /\ Part("MemberEvent", "MemberEvent").name = "MemberEvent" /\ ZeroOf(Part("MemberEvent",
          "MemberEvent"), Zero) = Zero["MemberEvent"]
      /\ Uint64("Index").name = "Index" /\ ZeroOf(Uint64("Index"), Zero) = 0
      /\ Uint32("To").name = "To" /\ ZeroOf(Uint32("To"), Zero) = 0
      BY DEF Part, Uint32, Uint64, ZeroOf
<1> HIDE DEF fields
<1>3. z["MemberEvent"] = Zero["MemberEvent"]
  <2>1. Fresh(fields, Zero, "MemberEvent", Zero["MemberEvent"])
        BY <1>1, <1>2 DEF Fresh
  <2> QED
      BY <2>1, NewField
<1>4. z["Index"] = 0
  <2>1. Fresh(fields, Zero, "Index", 0)
        BY <1>1, <1>2 DEF Fresh
  <2> QED
      BY <2>1, NewField
<1>5. z["To"] = 0
  <2>1. Fresh(fields, Zero, "To", 0)
        BY <1>1, <1>2 DEF Fresh
  <2> QED
      BY <2>1, NewField
<1>6. z = [name \in names |-> z[name]]
  <2>1. HasNames(fields, names)
        BY <1>1, <1>2 DEF HasNames
  <2> HIDE DEF names
  <2> QED
      BY <2>1, NewNames
<1>7. z = [MemberEvent |-> Zero["MemberEvent"], Index |-> 0, To |-> 0]
  <2> HIDE DEF z
  <2> QED
      BY <1>3, <1>4, <1>5, <1>6
<1> QED
    BY <1>1, <1>7, ZeroIs DEF fields

\* The fields of a SnapshotReceivedEvent, and a new one.
LEMMA SnapshotReceivedFacts ==
  /\ "SnapshotReceivedEvent" \in DOMAIN FieldsOf /\ DOMAIN FieldsOf["SnapshotReceivedEvent"] = 1..3
  /\ FieldsOf["SnapshotReceivedEvent"][1] = Part("MemberEvent", "MemberEvent")
  /\ FieldsOf["SnapshotReceivedEvent"][2] = Uint64("Index")
  /\ FieldsOf["SnapshotReceivedEvent"][3] = Uint32("From")
  /\ Zero["SnapshotReceivedEvent"] = [MemberEvent |-> Zero["MemberEvent"], Index |-> 0, From |-> 0]
<1> DEFINE fields == FieldsOf["SnapshotReceivedEvent"]
           z == NewMessage(fields, Zero)
           names == {"MemberEvent", "Index", "From"}
<1>1. /\ "SnapshotReceivedEvent" \in DOMAIN FieldsOf /\ DOMAIN fields = 1..3
      /\ fields[1] = Part("MemberEvent", "MemberEvent")
      /\ fields[2] = Uint64("Index")
      /\ fields[3] = Uint32("From")
      BY DEF FieldsOf, SnapshotReceivedEventFields
<1>2. /\ Part("MemberEvent", "MemberEvent").name = "MemberEvent" /\ ZeroOf(Part("MemberEvent",
          "MemberEvent"), Zero) = Zero["MemberEvent"]
      /\ Uint64("Index").name = "Index" /\ ZeroOf(Uint64("Index"), Zero) = 0
      /\ Uint32("From").name = "From" /\ ZeroOf(Uint32("From"), Zero) = 0
      BY DEF Part, Uint32, Uint64, ZeroOf
<1> HIDE DEF fields
<1>3. z["MemberEvent"] = Zero["MemberEvent"]
  <2>1. Fresh(fields, Zero, "MemberEvent", Zero["MemberEvent"])
        BY <1>1, <1>2 DEF Fresh
  <2> QED
      BY <2>1, NewField
<1>4. z["Index"] = 0
  <2>1. Fresh(fields, Zero, "Index", 0)
        BY <1>1, <1>2 DEF Fresh
  <2> QED
      BY <2>1, NewField
<1>5. z["From"] = 0
  <2>1. Fresh(fields, Zero, "From", 0)
        BY <1>1, <1>2 DEF Fresh
  <2> QED
      BY <2>1, NewField
<1>6. z = [name \in names |-> z[name]]
  <2>1. HasNames(fields, names)
        BY <1>1, <1>2 DEF HasNames
  <2> HIDE DEF names
  <2> QED
      BY <2>1, NewNames
<1>7. z = [MemberEvent |-> Zero["MemberEvent"], Index |-> 0, From |-> 0]
  <2> HIDE DEF z
  <2> QED
      BY <1>3, <1>4, <1>5, <1>6
<1> QED
    BY <1>1, <1>7, ZeroIs DEF fields

\* The fields of the events of an index, and a new one.
LEMMA IndexedFacts ==
  ASSUME NEW type \in {"SnapshotRecoveredEvent", "SnapshotCreatedEvent", "SnapshotCompactedEvent",
            "LogCompactedEvent", "LogDBCompactedEvent"}
  PROVE /\ type \in DOMAIN FieldsOf /\ DOMAIN FieldsOf[type] = 1..2
        /\ FieldsOf[type][1] = Part("MemberEvent", "MemberEvent")
        /\ FieldsOf[type][2] = Uint64("Index")
        /\ Zero[type] = [MemberEvent |-> Zero["MemberEvent"], Index |-> 0]
<1> DEFINE fields == FieldsOf[type]
           z == NewMessage(fields, Zero)
           names == {"MemberEvent", "Index"}
<1>1. /\ type \in DOMAIN FieldsOf /\ DOMAIN fields = 1..2
      /\ fields[1] = Part("MemberEvent", "MemberEvent")
      /\ fields[2] = Uint64("Index")
      BY DEF FieldsOf, SnapshotRecoveredEventFields, SnapshotCreatedEventFields,
                SnapshotCompactedEventFields, LogCompactedEventFields, LogDBCompactedEventFields
<1>2. /\ Part("MemberEvent", "MemberEvent").name = "MemberEvent" /\ ZeroOf(Part("MemberEvent",
          "MemberEvent"), Zero) = Zero["MemberEvent"]
      /\ Uint64("Index").name = "Index" /\ ZeroOf(Uint64("Index"), Zero) = 0
      BY DEF Part, Uint64, ZeroOf
<1> HIDE DEF fields
<1>3. z["MemberEvent"] = Zero["MemberEvent"]
  <2>1. Fresh(fields, Zero, "MemberEvent", Zero["MemberEvent"])
        BY <1>1, <1>2 DEF Fresh
  <2> QED
      BY <2>1, NewField
<1>4. z["Index"] = 0
  <2>1. Fresh(fields, Zero, "Index", 0)
        BY <1>1, <1>2 DEF Fresh
  <2> QED
      BY <2>1, NewField
<1>5. z = [name \in names |-> z[name]]
  <2>1. HasNames(fields, names)
        BY <1>1, <1>2 DEF HasNames
  <2> HIDE DEF names
  <2> QED
      BY <2>1, NewNames
<1>6. z = [MemberEvent |-> Zero["MemberEvent"], Index |-> 0]
  <2> HIDE DEF z
  <2> QED
      BY <1>3, <1>4, <1>5
<1> QED
    BY <1>1, <1>6, ZeroIs DEF fields

\* The fields of the events of a connection, and a new one.
LEMMA OfConnectionFacts ==
  ASSUME NEW type \in {"ConnectionEstablishedEvent", "ConnectionFailedEvent"}
  PROVE /\ type \in DOMAIN FieldsOf /\ DOMAIN FieldsOf[type] = 1..1
        /\ FieldsOf[type][1] = Part("ConnectionInfo", "ConnectionInfo")
        /\ Zero[type] = [ConnectionInfo |-> Zero["ConnectionInfo"]]
<1> DEFINE fields == FieldsOf[type]
           z == NewMessage(fields, Zero)
           names == {"ConnectionInfo"}
<1>1. /\ type \in DOMAIN FieldsOf /\ DOMAIN fields = 1..1
      /\ fields[1] = Part("ConnectionInfo", "ConnectionInfo")
      BY DEF FieldsOf, ConnectionEstablishedEventFields, ConnectionFailedEventFields
<1>2. /\ Part("ConnectionInfo", "ConnectionInfo").name = "ConnectionInfo"
          /\ ZeroOf(Part("ConnectionInfo", "ConnectionInfo"), Zero) = Zero["ConnectionInfo"]
      BY DEF Part, ZeroOf
<1> HIDE DEF fields
<1>3. z["ConnectionInfo"] = Zero["ConnectionInfo"]
  <2>1. Fresh(fields, Zero, "ConnectionInfo", Zero["ConnectionInfo"])
        BY <1>1, <1>2 DEF Fresh
  <2> QED
      BY <2>1, NewField
<1>4. z = [name \in names |-> z[name]]
  <2>1. HasNames(fields, names)
        BY <1>1, <1>2 DEF HasNames
  <2> HIDE DEF names
  <2> QED
      BY <2>1, NewNames
<1>5. z = [ConnectionInfo |-> Zero["ConnectionInfo"]]
  <2> HIDE DEF z
  <2> QED
      BY <1>3, <1>4
<1> QED
    BY <1>1, <1>5, ZeroIs DEF fields

\* The fields of a RaftProposal, and a new one.
LEMMA RaftProposalFacts ==
  /\ "RaftProposal" \in DOMAIN FieldsOf /\ DOMAIN FieldsOf["RaftProposal"] = 1..3
  /\ FieldsOf["RaftProposal"][1] = Uint64("Term")
  /\ FieldsOf["RaftProposal"][2] = Uint64("SequenceNum")
  /\ FieldsOf["RaftProposal"][3] = Bytes("Data")
  /\ Zero["RaftProposal"] = [Term |-> 0, SequenceNum |-> 0, Data |-> <<>>]
<1> DEFINE fields == FieldsOf["RaftProposal"]
           z == NewMessage(fields, Zero)
           names == {"Term", "SequenceNum", "Data"}
<1>1. /\ "RaftProposal" \in DOMAIN FieldsOf /\ DOMAIN fields = 1..3
      /\ fields[1] = Uint64("Term")
      /\ fields[2] = Uint64("SequenceNum")
      /\ fields[3] = Bytes("Data")
      BY DEF FieldsOf, RaftProposalFields
<1>2. /\ Uint64("Term").name = "Term" /\ ZeroOf(Uint64("Term"), Zero) = 0
      /\ Uint64("SequenceNum").name = "SequenceNum" /\ ZeroOf(Uint64("SequenceNum"), Zero) = 0
      /\ Bytes("Data").name = "Data" /\ ZeroOf(Bytes("Data"), Zero) = <<>>
      BY DEF Bytes, Uint64, ZeroOf
<1> HIDE DEF fields
<1>3. z["Term"] = 0
  <2>1. Fresh(fields, Zero, "Term", 0)
        BY <1>1, <1>2 DEF Fresh
  <2> QED
      BY <2>1, NewField
<1>4. z["SequenceNum"] = 0
  <2>1. Fresh(fields, Zero, "SequenceNum", 0)
        BY <1>1, <1>2 DEF Fresh
  <2> QED
      BY <2>1, NewField
<1>5. z["Data"] = <<>>
  <2>1. Fresh(fields, Zero, "Data", <<>>)
        BY <1>1, <1>2 DEF Fresh
  <2> QED
      BY <2>1, NewField
<1>6. z = [name \in names |-> z[name]]
  <2>1. HasNames(fields, names)
        BY <1>1, <1>2 DEF HasNames
  <2> HIDE DEF names
  <2> QED
      BY <2>1, NewNames
<1>7. z = [Term |-> 0, SequenceNum |-> 0, Data |-> <<>>]
  <2> HIDE DEF z
  <2> QED
      BY <1>3, <1>4, <1>5, <1>6
<1> QED
    BY <1>1, <1>7, ZeroIs DEF fields

\* The fields of a BootstrapRequest or JoinRequest, and a new one.
LEMMA GroupRequestFacts ==
  ASSUME NEW type \in {"BootstrapRequest", "JoinRequest"}
  PROVE /\ type \in DOMAIN FieldsOf /\ DOMAIN FieldsOf[type] = 1..1
        /\ FieldsOf[type][1] = Part("Group", "GroupConfig")
        /\ Zero[type] = [Group |-> Zero["GroupConfig"]]
<1> DEFINE fields == FieldsOf[type]
           z == NewMessage(fields, Zero)
           names == {"Group"}
<1>1. /\ type \in DOMAIN FieldsOf /\ DOMAIN fields = 1..1
      /\ fields[1] = Part("Group", "GroupConfig")
      BY DEF FieldsOf, BootstrapRequestFields, JoinRequestFields
<1>2. /\ Part("Group", "GroupConfig").name = "Group" /\ ZeroOf(Part("Group", "GroupConfig"),
          Zero) = Zero["GroupConfig"]
      BY DEF Part, ZeroOf
<1> HIDE DEF fields
<1>3. z["Group"] = Zero["GroupConfig"]
  <2>1. Fresh(fields, Zero, "Group", Zero["GroupConfig"])
        BY <1>1, <1>2 DEF Fresh
  <2> QED
      BY <2>1, NewField
<1>4. z = [name \in names |-> z[name]]
  <2>1. HasNames(fields, names)
        BY <1>1, <1>2 DEF HasNames
  <2> HIDE DEF names
  <2> QED
      BY <2>1, NewNames
<1>5. z = [Group |-> Zero["GroupConfig"]]
  <2> HIDE DEF z
  <2> QED
      BY <1>3, <1>4
<1> QED
    BY <1>1, <1>5, ZeroIs DEF fields

\* The fields of a LeaveRequest, and a new one.
LEMMA LeaveRequestFacts ==
  /\ "LeaveRequest" \in DOMAIN FieldsOf /\ DOMAIN FieldsOf["LeaveRequest"] = 1..1
  /\ FieldsOf["LeaveRequest"][1] = Uint32("GroupID")
  /\ Zero["LeaveRequest"] = [GroupID |-> 0]
<1> DEFINE fields == FieldsOf["LeaveRequest"]
           z == NewMessage(fields, Zero)
           names == {"GroupID"}
<1>1. /\ "LeaveRequest" \in DOMAIN FieldsOf /\ DOMAIN fields = 1..1
      /\ fields[1] = Uint32("GroupID")
      BY DEF FieldsOf, LeaveRequestFields
<1>2. /\ Uint32("GroupID").name = "GroupID" /\ ZeroOf(Uint32("GroupID"), Zero) = 0
      BY DEF Uint32, ZeroOf
<1> HIDE DEF fields
<1>3. z["GroupID"] = 0
  <2>1. Fresh(fields, Zero, "GroupID", 0)
        BY <1>1, <1>2 DEF Fresh
  <2> QED
      BY <2>1, NewField
<1>4. z = [name \in names |-> z[name]]
  <2>1. HasNames(fields, names)
        BY <1>1, <1>2 DEF HasNames
  <2> HIDE DEF names
  <2> QED
      BY <2>1, NewNames
<1>5. z = [GroupID |-> 0]
  <2> HIDE DEF z
  <2> QED
      BY <1>3, <1>4
<1> QED
    BY <1>1, <1>5, ZeroIs DEF fields

\* The fields of the messages without fields, and a new one.
LEMMA EmptyFacts ==
  ASSUME NEW type \in {"BootstrapResponse", "JoinResponse", "LeaveResponse", "WatchRequest"}
  PROVE type \in DOMAIN FieldsOf /\ FieldsOf[type] = <<>> /\ Zero[type] = <<>>
<1>1. type \in DOMAIN FieldsOf /\ FieldsOf[type] = <<>>
      BY DEF FieldsOf, BootstrapResponseFields, JoinResponseFields, LeaveResponseFields, WatchRequestFields
<1>2. DOMAIN <<>> = {}
      OBVIOUS
<1>3. NewMessage(<<>>, Zero) = <<>>
      BY <1>2 DEF NewMessage
<1> QED
    BY <1>1, <1>3, ZeroIs

\* The cases of an event, each with its field number and its type.
LEMMA EventFacts ==
  /\ "Event" \in DOMAIN FieldsOf /\ DOMAIN FieldsOf["Event"] = 1..15
  /\ FieldsOf["Event"][1] = Bytes("Timestamp")
  /\ FieldsOf["Event"][2] = OneOf("MemberReady", "MemberReadyEvent")
  /\ FieldsOf["Event"][3] = OneOf("LeaderUpdated", "LeaderUpdatedEvent")
  /\ FieldsOf["Event"][4] = OneOf("MembershipChanged", "MembershipChangedEvent")
  /\ FieldsOf["Event"][5] = OneOf("SendSnapshotStarted", "SendSnapshotStartedEvent")
  /\ FieldsOf["Event"][6] = OneOf("SendSnapshotCompleted", "SendSnapshotCompletedEvent")
  /\ FieldsOf["Event"][7] = OneOf("SendSnapshotAborted", "SendSnapshotAbortedEvent")
  /\ FieldsOf["Event"][8] = OneOf("SnapshotReceived", "SnapshotReceivedEvent")
  /\ FieldsOf["Event"][9] = OneOf("SnapshotRecovered", "SnapshotRecoveredEvent")
  /\ FieldsOf["Event"][10] = OneOf("SnapshotCreated", "SnapshotCreatedEvent")
  /\ FieldsOf["Event"][11] = OneOf("SnapshotCompacted", "SnapshotCompactedEvent")
  /\ FieldsOf["Event"][12] = OneOf("LogCompacted", "LogCompactedEvent")
  /\ FieldsOf["Event"][13] = OneOf("LogdbCompacted", "LogDBCompactedEvent")
  /\ FieldsOf["Event"][14] = OneOf("ConnectionEstablished", "ConnectionEstablishedEvent")
  /\ FieldsOf["Event"][15] = OneOf("ConnectionFailed", "ConnectionFailedEvent")
  /\ Zero["Event"] = [Timestamp |-> <<>>, Event |-> NoEvent]
<1> DEFINE fields == FieldsOf["Event"]
           z == NewMessage(fields, Zero)
           names == {"Timestamp", "Event"}
<1>1. /\ "Event" \in DOMAIN FieldsOf /\ DOMAIN fields = 1..15
      /\ fields[1] = Bytes("Timestamp")
      /\ fields[2] = OneOf("MemberReady", "MemberReadyEvent")
      /\ fields[3] = OneOf("LeaderUpdated", "LeaderUpdatedEvent")
      /\ fields[4] = OneOf("MembershipChanged", "MembershipChangedEvent")
      /\ fields[5] = OneOf("SendSnapshotStarted", "SendSnapshotStartedEvent")
      /\ fields[6] = OneOf("SendSnapshotCompleted", "SendSnapshotCompletedEvent")
      /\ fields[7] = OneOf("SendSnapshotAborted", "SendSnapshotAbortedEvent")
      /\ fields[8] = OneOf("SnapshotReceived", "SnapshotReceivedEvent")
      /\ fields[9] = OneOf("SnapshotRecovered", "SnapshotRecoveredEvent")
      /\ fields[10] = OneOf("SnapshotCreated", "SnapshotCreatedEvent")
      /\ fields[11] = OneOf("SnapshotCompacted", "SnapshotCompactedEvent")
      /\ fields[12] = OneOf("LogCompacted", "LogCompactedEvent")
      /\ fields[13] = OneOf("LogdbCompacted", "LogDBCompactedEvent")
      /\ fields[14] = OneOf("ConnectionEstablished", "ConnectionEstablishedEvent")
      /\ fields[15] = OneOf("ConnectionFailed", "ConnectionFailedEvent")
      BY DEF FieldsOf, EventFields
<1>2. Bytes("Timestamp").name = "Timestamp" /\ ZeroOf(Bytes("Timestamp"), Zero) = <<>>
      BY DEF Bytes, ZeroOf
<1>3. ASSUME NEW i \in 2..15 PROVE fields[i].name = "Event" /\ ZeroOf(fields[i], Zero) = NoEvent
  <2>1. \A case, type : OneOf(case, type).name = "Event" /\ ZeroOf(OneOf(case, type), Zero) = NoEvent
        BY DEF OneOf, ZeroOf
  <2>2. \E case, type : fields[i] = OneOf(case, type)
    <3> HIDE DEF fields
    <3>1. i \in {2, 3, 4, 5, 6, 7, 8, 9, 10, 11, 12, 13, 14, 15}
          OBVIOUS
    <3> QED
        BY <1>1, <3>1
  <2> QED
      BY <2>1, <2>2
<1> HIDE DEF fields
<1>4. z["Timestamp"] = <<>>
  <2>1. Fresh(fields, Zero, "Timestamp", <<>>)
        BY <1>1, <1>2, <1>3 DEF Fresh
  <2> QED
      BY <2>1, NewField
<1>5. z["Event"] = NoEvent
  <2>1. Fresh(fields, Zero, "Event", NoEvent)
        BY <1>1, <1>2, <1>3 DEF Fresh
  <2> QED
      BY <2>1, NewField
<1>6. z = [name \in names |-> z[name]]
  <2>1. HasNames(fields, names)
        BY <1>1, <1>2, <1>3 DEF HasNames
  <2> HIDE DEF names
  <2> QED
      BY <2>1, NewNames
<1>7. z = [Timestamp |-> <<>>, Event |-> NoEvent]
  <2> HIDE DEF z
  <2> QED
      BY <1>4, <1>5, <1>6
<1> QED
    BY <1>1, <1>7, ZeroIs DEF fields

-----------------------------------------------------------------------------
\* Fields as they are written

\* The values of fields: of uint64, uint32 and int32, and strings or bytes that
\* leave room for what a message around them adds.
Wide == 0..(pow2[WideBits] - 1)
Narrow == 0..(pow2[NarrowBits] - 1)
Narrow1 == 0..(pow2[NarrowBits - 1] - 1)
Short == {b \in Seq(Nat) : Len(b) + 2 * WideBits < pow2[WideBits - 1]}

\* The bytes p say x of the field of this name, or nothing if x is zero.
Tells(type, name, zero, p, x) ==
  \/ p = <<>> /\ x = zero
  \/ /\ p # <<>>
     /\ \E num, v :
          /\ IsScalar(type, num) /\ Carries(FieldsOf[type], num, p, v)
          /\ FieldsOf[type][num].name = name
          /\ \A old : Stored(FieldsOf[type][num], old, v) = x

\* A tag and an integer are that field to a reader that has it.
LEMMA VarintCarries ==
  ASSUME NEW fields, NEW tag \in Nat, tag < 128, tag % 8 = 0, tag >= 8,
         tag \div 8 \in DOMAIN fields, fields[tag \div 8].wire = 0,
         NEW v \in Nat, v < pow2[WideBits], v # 0
  PROVE Carries(fields, tag \div 8, Varint(tag, v), v) /\ Varint(tag, v) # <<>>
<1> DEFINE e == encodeVarint[v]
<1>1. Varint(tag, v) \in Seq(Nat) /\ Varint(tag, v) = <<tag>> \o e
      BY VarintWritten
<1>2. e \in Seq(Nat) /\ Len(e) >= 1
      BY EncodeType
<1>3. ASSUME NEW rest \in Seq(Nat)
      PROVE readField(fields, Varint(tag, v) \o rest) = Read(v, rest) /\ fieldNum(Varint(tag,
                v) \o rest) = tag \div 8
  <2>1. readField(fields, <<tag>> \o (e \o rest)) = Read(v, rest)
        BY VarintField
  <2> HIDE DEF e
  <2>2. (<<tag>> \o e) \o rest = <<tag>> \o (e \o rest) /\ e \o rest \in Seq(Nat)
        BY <1>2, Bytes3
  <2>3. fieldNum(<<tag>> \o (e \o rest)) = tag \div 8
        BY <2>2, TagRead
  <2>4. Varint(tag, v) \o rest = <<tag>> \o (e \o rest)
        BY <1>1, <2>2
  <2> QED
      BY <2>1, <2>3, <2>4
<1>4. Varint(tag, v) # <<>>
  <2> HIDE DEF e
  <2> QED
      BY <1>1, <1>2, Bytes1
<1>5. Len(Varint(tag, v)) > 1
  <2> HIDE DEF e
  <2>1. Len(<<tag>> \o e) = 1 + Len(e) /\ Len(e) \in Nat
        BY <1>2, Bytes1
  <2> QED
      BY <1>1, <1>2, <2>1
<1> QED
    BY <1>1, <1>3, <1>4, <1>5 DEF Carries

\* A tag and delimited bytes are that field to a reader that has it.
LEMMA DelimitedCarries ==
  ASSUME NEW fields, NEW tag \in Nat, tag < 128, tag % 8 = 2, tag >= 8,
         tag \div 8 \in DOMAIN fields, fields[tag \div 8].wire = 2,
         NEW b \in Seq(Nat), Len(b) < pow2[WideBits - 1]
  PROVE Carries(fields, tag \div 8, Delimited(tag, b), b) /\ Delimited(tag, b) # <<>>
<1> DEFINE e == encodeVarint[Len(b)]
<1>1. e \in Seq(Nat) /\ Len(e) >= 1 /\ Len(b) \in Nat /\ Len(b) < pow2[WideBits]
      BY EncodeType, InWidth
<1>2. Delimited(tag, b) \in Seq(Nat) /\ Delimited(tag, b) = <<tag>> \o (e \o b)
      BY <1>1, DelimitedWritten
<1>3. \A rest \in Seq(Nat) : /\ readField(fields, Delimited(tag, b) \o rest) = Read(b, rest)
                              /\ fieldNum(Delimited(tag, b) \o rest) = tag \div 8
      BY DelimitedField
<1>4. Delimited(tag, b) # <<>>
  <2> HIDE DEF e
  <2>1. e \o b \in Seq(Nat)
        BY <1>1
  <2> DEFINE x == e \o b
  <2>2. <<tag>> \o x # <<>>
    <3> HIDE DEF x
    <3>1. x \in Seq(Nat)
          BY <2>1 DEF x
    <3> QED
        BY <3>1, Bytes1
  <2> QED
      BY <1>2, <2>2
<1>5. Len(Delimited(tag, b)) > 1
  <2> HIDE DEF e
  <2> DEFINE x == e \o b
  <2>1. x \in Seq(Nat) /\ Len(x) = Len(e) + Len(b) /\ Len(e) \in Nat
        BY <1>1
  <2>2. Len(x) \in Nat /\ Len(x) >= 1
        BY <1>1, <2>1
  <2> HIDE DEF x
  <2>3. Len(<<tag>> \o x) = 1 + Len(x)
        BY <2>1, Bytes1
  <2> QED
      BY <1>2, <2>2, <2>3 DEF x
<1> QED
    BY <1>2, <1>3, <1>4, <1>5 DEF Carries

\* The tag is that of this field, which it numbers so.
Tagged(type, tag, num, f) ==
  /\ tag \in Nat /\ tag < 128 /\ tag >= 8 /\ tag \div 8 = num /\ tag % 8 = f.wire
  /\ num \in DOMAIN FieldsOf[type] /\ FieldsOf[type][num] = f

\* What Varint writes tells the reader of an unsigned or signed field its value.
LEMMA UintTells ==
  ASSUME NEW type, NEW name, NEW tag, NEW num, NEW v,
         \/ Tagged(type, tag, num, Uint64(name)) /\ v \in Wide
         \/ Tagged(type, tag, num, Uint32(name)) /\ v \in Narrow
         \/ Tagged(type, tag, num, Int32(name)) /\ v \in Narrow1
  PROVE Tells(type, name, 0, Varint(tag, v), v)
<1> DEFINE f == FieldsOf[type][num]
<1>1. v \in Nat /\ v < pow2[WideBits] /\ Stored(f, 0, v) = v /\ \A old : Stored(f, old, v) = Stored(f, 0, v)
  <2>1. CASE f = Uint64(name) /\ v \in Wide
    <3>1. v \in Nat /\ v < pow2[WideBits]
          BY <2>1, Widths DEF Wide
    <3>2. f.store = "uint" /\ f.bits = WideBits
          BY <2>1 DEF Uint64
    <3> QED
        BY <3>1, <3>2, InWidth DEF Stored
  <2>2. CASE f = Uint32(name) /\ v \in Narrow
    <3>1. v \in Nat /\ v < pow2[NarrowBits]
          BY <2>2, Widths DEF Narrow
    <3>2. f.store = "uint" /\ f.bits = NarrowBits
          BY <2>2 DEF Uint32
    <3> QED
        BY <3>1, <3>2, InWidth DEF Stored
  <2>3. CASE f = Int32(name) /\ v \in Narrow1
    <3>1. v \in Nat /\ v < pow2[NarrowBits - 1]
          BY <2>3, Widths DEF Narrow1
    <3>2. f.store = "int" /\ f.bits = NarrowBits
          BY <2>3 DEF Int32
    <3> QED
        BY <3>1, <3>2, InWidth DEF Stored
  <2> QED
      BY <2>1, <2>2, <2>3 DEF Tagged
<1>2. /\ f.name = name /\ f.wire = 0 /\ IsScalar(type, num)
      /\ tag \in Nat /\ tag < 128 /\ tag % 8 = 0 /\ tag >= 8 /\ tag \div 8 = num
                /\ num \in DOMAIN FieldsOf[type]
      BY DEF IsScalar, Tagged, Uint64, Uint32, Int32
<1>3. CASE v = 0
  <2>1. Varint(tag, v) = <<>>
        BY <1>3 DEF Varint
  <2> QED
      BY <1>3, <2>1 DEF Tells
<1>4. CASE v # 0
  <2>1. Carries(FieldsOf[type], num, Varint(tag, v), v) /\ Varint(tag, v) # <<>>
        BY <1>1, <1>2, <1>4, VarintCarries
  <2> QED
      BY <1>1, <1>2, <2>1 DEF Tells
<1> QED
    BY <1>3, <1>4

\* What Text writes tells the reader of the field its bytes.
LEMMA TextTells ==
  ASSUME NEW type, NEW name, NEW tag, NEW num, Tagged(type, tag, num, Bytes(name)), NEW b \in Short
  PROVE /\ Tells(type, name, <<>>, Text(tag, b), b)
        /\ Tells(type, name, <<>>, Delimited(tag, b), b)
<1> DEFINE f == FieldsOf[type][num]
<1>1. b \in Seq(Nat) /\ Len(b) < pow2[WideBits - 1]
  <2> DEFINE n == Len(b)
  <2>1. n \in Nat /\ n + 2 * WideBits < pow2[WideBits - 1]
        BY DEF Short
  <2>2. n < pow2[WideBits - 1]
    <3> HIDE DEF n
    <3> QED
        BY <2>1, Widths
  <2> QED
      BY <2>2 DEF Short
<1>2. /\ f.name = name /\ f.wire = 2 /\ IsScalar(type, num) /\ f.store = "bytes"
      /\ tag \in Nat /\ tag < 128 /\ tag % 8 = 2 /\ tag >= 8 /\ tag \div 8 = num
                /\ num \in DOMAIN FieldsOf[type]
      BY DEF IsScalar, Tagged, Bytes
<1>3. \A old : Stored(f, old, b) = b
      BY <1>2 DEF Stored
<1>4. Carries(FieldsOf[type], num, Delimited(tag, b), b) /\ Delimited(tag, b) # <<>>
      BY <1>1, <1>2, DelimitedCarries
<1>5. Tells(type, name, <<>>, Delimited(tag, b), b)
      BY <1>2, <1>3, <1>4 DEF Tells
<1>6. CASE b = <<>>
  <2>1. Text(tag, b) = <<>>
        BY <1>6 DEF Text
  <2> QED
      BY <1>5, <1>6, <2>1 DEF Tells
<1>7. CASE b # <<>>
  <2>1. Text(tag, b) = Delimited(tag, b)
        BY <1>7 DEF Text
  <2> QED
      BY <1>5, <2>1
<1> QED
    BY <1>6, <1>7

\* What is written of TRUE.
LEMMA OneWritten ==
  ASSUME NEW tag \in Nat
  PROVE Varint(tag, 1) = <<tag, 1>>
<1>1. 1 \in Nat /\ 1 < pow2[WideBits] /\ 1 # 0
      BY Widths
<1>2. Varint(tag, 1) = <<tag>> \o encodeVarint[1]
      BY <1>1, VarintWritten
<1>3. encodeVarint[1] = <<1>>
  <2>1. \A v \in Nat : v < 128 => encodeVarint[v] = <<v>>
        BY EncodeEquation
  <2>2. 1 \in Nat /\ 1 < 128
        OBVIOUS
  <2> QED
      BY <2>1, <2>2
<1>4. <<tag>> \o <<1>> = <<tag, 1>>
  <2> DEFINE a == <<tag>>
             b == <<1>>
             c == <<tag, 1>>
  <2>1. a \in Seq(Nat) /\ Len(a) = 1 /\ a[1] = tag
        OBVIOUS
  <2>2. b \in Seq(Nat) /\ Len(b) = 1 /\ b[1] = 1
        OBVIOUS
  <2>3. c = [i \in 1..2 |-> IF i = 1 THEN tag ELSE 1]
        OBVIOUS
  <2> HIDE DEF a, b, c
  <2> DEFINE d == a \o b
  <2>4. d \in Seq(Nat) /\ Len(d) = 2 /\ d[1] = tag /\ d[2] = 1
        BY <2>1, <2>2
  <2> HIDE DEF d
  <2>5. d = [i \in 1..2 |-> d[i]]
        BY <2>4
  <2>6. d = [i \in 1..2 |-> IF i = 1 THEN tag ELSE 1]
        BY <2>4, <2>5
  <2> QED
      BY <2>3, <2>6 DEF a, b, c, d
<1> QED
    BY <1>2, <1>3, <1>4

\* A field whose value is stored as x tells x.
LEMMA Telling ==
  ASSUME NEW type, NEW name, NEW zero, NEW p, p # <<>>, NEW x, NEW num, NEW v,
         IsScalar(type, num), Carries(FieldsOf[type], num, p, v), FieldsOf[type][num].name = name,
         \A old : Stored(FieldsOf[type][num], old, v) = x
  PROVE Tells(type, name, zero, p, x)
BY DEF Tells

\* What is written of TRUE tells TRUE.
LEMMA TrueTells ==
  ASSUME NEW type, NEW name, NEW no, NEW yes, yes = TRUE, NEW tag, NEW num, Tagged(type, tag, num, Bool(name))
  PROVE Tells(type, name, no, <<tag, 1>>, yes)
<1> DEFINE f == FieldsOf[type][num]
<1>1. /\ f.name = name /\ f.wire = 0 /\ IsScalar(type, num) /\ f.store = "bool"
      /\ tag \in Nat /\ tag < 128 /\ tag % 8 = 0 /\ tag >= 8 /\ tag \div 8 = num
                /\ num \in DOMAIN FieldsOf[type]
      BY DEF IsScalar, Tagged, Bool
<1>2. \A old : Stored(f, old, 1) = yes
  <2>1. \A old : Stored(f, old, 1) = (1 # 0)
        BY <1>1 DEF Stored
  <2>2. (1 # 0) = yes
    <3>1. 1 # 0
          OBVIOUS
    <3> QED
        BY <3>1, Zenon
  <2> QED
      BY <2>1, <2>2
<1>3. 1 < pow2[WideBits] /\ 1 # 0 /\ 1 \in Nat
      BY Widths
<1>4. Carries(FieldsOf[type], num, Varint(tag, 1), 1) /\ Varint(tag, 1) # <<>>
      BY <1>1, <1>3, VarintCarries
<1>5. Varint(tag, 1) = <<tag, 1>>
      BY <1>1, OneWritten
<1>6. Tells(type, name, no, Varint(tag, 1), yes)
  <2> DEFINE p == Varint(tag, 1)
  <2>1. Carries(FieldsOf[type], num, p, 1) /\ p # <<>>
        BY <1>4
  <2> DEFINE one == 1
  <2>2. IsScalar(type, num) /\ f.name = name
        BY <1>1
  <2>3. Carries(FieldsOf[type], num, p, one) /\ \A old : Stored(f, old, one) = yes
        BY <1>2, <2>1
  <2> HIDE DEF p, one
  <2>4. p # <<>>
        BY <2>1
  <2>5. Tells(type, name, no, p, yes)
        BY <2>2, <2>3, <2>4, Telling
  <2> QED
      BY <2>5 DEF p
<1> QED
    BY <1>5, <1>6

\* What is written of a Boolean tells it.
LEMMA BoolTells ==
  ASSUME NEW type, NEW name, NEW tag, NEW num, Tagged(type, tag, num, Bool(name)), NEW x \in BOOLEAN
  PROVE Tells(type, name, FALSE, IF x THEN <<tag, 1>> ELSE <<>>, x)
<1> DEFINE no == FALSE
           p == IF x THEN <<tag, 1>> ELSE <<>>
<1>1. CASE x = no
  <2>1. p = <<>>
        BY <1>1
  <2> HIDE DEF no, p
  <2>2. Tells(type, name, no, p, x)
        BY <1>1, <2>1 DEF Tells
  <2> QED
      BY <2>2 DEF no, p
<1>2. CASE x = TRUE
  <2>1. p = <<tag, 1>>
        BY <1>2
  <2> HIDE DEF no, p
  <2>2. Tells(type, name, no, p, x)
        BY <1>2, <2>1, TrueTells
  <2> QED
      BY <2>2 DEF no, p
<1> QED
    BY <1>1, <1>2

\* Fields one after the other.
LEMMA Joined1 ==
  ASSUME NEW a \in Seq(Nat)
  PROVE a \o <<>> = a
OBVIOUS

\* Two parts of a message, the second with nothing behind it.
LEMMA Joined2 ==
  ASSUME NEW a \in Seq(Nat), NEW b \in Seq(Nat)
  PROVE a \o b = a \o (b \o <<>>) /\ a \o b \in Seq(Nat) /\ Len(a \o b) = Len(a) + Len(b)
OBVIOUS

Three(a, b, c) == a \o b \o c

\* Three parts of a message, the last with nothing behind it.
LEMMA Joined3 ==
  ASSUME NEW a \in Seq(Nat), NEW b \in Seq(Nat), NEW c \in Seq(Nat)
  PROVE Three(a, b, c) = a \o (b \o (c \o <<>>))
<1>1. (a \o b) \o c = a \o (b \o c) /\ c \o <<>> = c
      OBVIOUS
<1> QED
    BY <1>1 DEF Three

Sized(b, n) == b \in Seq(Nat) /\ n \in Nat /\ Len(b) = n

\* The sizes of three parts add up.
LEMMA Length3 ==
  ASSUME NEW a, NEW b, NEW c, NEW x, NEW y, NEW z, Sized(a, x), Sized(b, y), Sized(c, z)
  PROVE Sized(Three(a, b, c), x + y + z)
<1> DEFINE ab == a \o b
<1>1. /\ a \in Seq(Nat) /\ b \in Seq(Nat) /\ c \in Seq(Nat)
      /\ x \in Nat /\ y \in Nat /\ z \in Nat /\ Len(a) = x /\ Len(b) = y /\ Len(c) = z
      BY DEF Sized
<1>2. ab \in Seq(Nat) /\ Len(ab) = x + y
      BY <1>1, Joined2
<1> HIDE DEF ab
<1>3. ab \o c \in Seq(Nat) /\ Len(ab \o c) = (x + y) + z
      BY <1>1, <1>2, Joined2
<1> QED
    BY <1>1, <1>3 DEF ab, Three, Sized

\* Fields before others.
LEMMA Before1 ==
  ASSUME NEW a \in Seq(Nat), NEW r \in Seq(Nat)
  PROVE a \o r \in Seq(Nat)
OBVIOUS

\* Two parts of a message and what is behind them.
LEMMA Before2 ==
  ASSUME NEW a \in Seq(Nat), NEW b \in Seq(Nat), NEW r \in Seq(Nat)
  PROVE (a \o b) \o r = a \o (b \o r)
OBVIOUS

\* Three parts of a message and what is behind them.
LEMMA Before3 ==
  ASSUME NEW a, NEW b, NEW c, NEW r, AreBytes(a), AreBytes(b), AreBytes(c), AreBytes(r)
  PROVE Cat(Three(a, b, c), r) = Cat(a, Cat(b, Cat(c, r)))
<1>1. Three(a, b, c) = Cat(Cat(a, b), c)
      BY DEF Three, Cat
<1>2. AreBytes(Cat(a, b)) /\ AreBytes(Cat(c, r))
      BY CatCat
<1>3. Cat(Cat(Cat(a, b), c), r) = Cat(Cat(a, b), Cat(c, r))
      BY <1>2, CatCat
<1>4. Cat(Cat(a, b), Cat(c, r)) = Cat(a, Cat(b, Cat(c, r)))
      BY <1>2, CatCat
<1> QED
    BY <1>1, <1>3, <1>4

\* m2 is m with this field, or still m if the field is zero.
Becomes(m, name, zero, x, m2) == m2 = [m EXCEPT ![name] = x] /\ (x = zero => m2 = m)

\* UnmarshalFlat after bytes that say x of a field, or nothing if x is zero.
LEMMA FlatTold ==
  ASSUME NEW type, NEW m, NEW m2, NEW y, NEW name, NEW zero, NEW p, NEW x, Tells(type, name, zero, p, x),
         Becomes(m, name, zero, x, m2),
         NEW rest \in Seq(Nat), UnmarshalFlat(type, m2, rest) = Read(y, <<>>)
  PROVE UnmarshalFlat(type, m, p \o rest) = Read(y, <<>>)
<1>1. CASE p = <<>> /\ x = zero
  <2>1. p \o rest = rest /\ m2 = m
        BY <1>1 DEF Becomes
  <2> QED
      BY <2>1
<1>2. CASE p # <<>> /\ ~(p = <<>> /\ x = zero)
  <2>1. PICK num, v :
          /\ IsScalar(type, num) /\ Carries(FieldsOf[type], num, p, v)
          /\ FieldsOf[type][num].name = name
          /\ \A old : Stored(FieldsOf[type][num], old, v) = x
        BY <1>2 DEF Tells
  <2>2. Puts(type, num, v, m, m2)
        BY <2>1 DEF Puts, Becomes
  <2> QED
      BY <1>2, <2>1, <2>2, FlatField
<1> QED
    BY <1>1, <1>2 DEF Tells

\* UnmarshalNested after bytes that say x of a field, or nothing if x is zero.
LEMMA NestedTold ==
  ASSUME NEW type, NEW m, NEW m2, NEW y, NEW name, NEW zero, NEW p, NEW x, Tells(type, name, zero, p, x),
         Becomes(m, name, zero, x, m2),
         NEW rest \in Seq(Nat), UnmarshalNested(type, m2, rest) = Read(y, <<>>)
  PROVE UnmarshalNested(type, m, p \o rest) = Read(y, <<>>)
<1>1. CASE p = <<>> /\ x = zero
  <2>1. p \o rest = rest /\ m2 = m
        BY <1>1 DEF Becomes
  <2> QED
      BY <2>1
<1>2. CASE p # <<>> /\ ~(p = <<>> /\ x = zero)
  <2>1. PICK num, v :
          /\ IsScalar(type, num) /\ Carries(FieldsOf[type], num, p, v)
          /\ FieldsOf[type][num].name = name
          /\ \A old : Stored(FieldsOf[type][num], old, v) = x
        BY <1>2 DEF Tells
  <2>2. Puts(type, num, v, m, m2)
        BY <2>1 DEF Puts, Becomes
  <2> QED
      BY <1>2, <2>1, <2>2, NestedField
<1> QED
    BY <1>1, <1>2 DEF Tells

\* UnmarshalInto after bytes that say x of a field, or nothing if x is zero.
LEMMA IntoTold ==
  ASSUME NEW type, NEW m, NEW m2, NEW y, NEW name, NEW zero, NEW p, NEW x, Tells(type, name, zero, p, x),
         Becomes(m, name, zero, x, m2),
         NEW rest \in Seq(Nat), UnmarshalInto(type, m2, rest) = Read(y, <<>>)
  PROVE UnmarshalInto(type, m, p \o rest) = Read(y, <<>>)
<1>1. CASE p = <<>> /\ x = zero
  <2>1. p \o rest = rest /\ m2 = m
        BY <1>1 DEF Becomes
  <2> QED
      BY <2>1
<1>2. CASE p # <<>> /\ ~(p = <<>> /\ x = zero)
  <2>1. PICK num, v :
          /\ IsScalar(type, num) /\ Carries(FieldsOf[type], num, p, v)
          /\ FieldsOf[type][num].name = name
          /\ \A old : Stored(FieldsOf[type][num], old, v) = x
        BY <1>2 DEF Tells
  <2>2. Puts(type, num, v, m, m2)
        BY <2>1 DEF Puts, Becomes
  <2> QED
      BY <1>2, <2>1, <2>2, IntoField
<1> QED
    BY <1>1, <1>2 DEF Tells

-----------------------------------------------------------------------------
\* The messages there may be

AMemberConfig == [MemberID : Narrow, Host : Short, Port : Narrow1]
AMemberEvent == [GroupID : Narrow, MemberID : Narrow]
AConnectionInfo == [Address : Short, Snapshot : BOOLEAN]
AOfMember == [MemberEvent : AMemberEvent]
ALeaderUpdated == [MemberEvent : AMemberEvent, Term : Wide, Leader : Narrow]
ASendSnapshot == [MemberEvent : AMemberEvent, Index : Wide, To : Narrow]
ASnapshotReceived == [MemberEvent : AMemberEvent, Index : Wide, From : Narrow]
AIndexed == [MemberEvent : AMemberEvent, Index : Wide]
AOfConnection == [ConnectionInfo : AConnectionInfo]
ARaftProposal == [Term : Wide, SequenceNum : Wide, Data : Short]
ALeaveRequest == [GroupID : Narrow]

\* What types of the same fields are written as.
MarshalSendSnapshot(m) == MarshalMember(m) \o Varint(\h10, m.Index) \o Varint(\h18, m.To)
SizeSendSnapshot(m) == SizeMember(m) + VarintSize(m.Index) + VarintSize(m.To)
MarshalIndexed(m) == MarshalMember(m) \o Varint(\h10, m.Index)
SizeIndexed(m) == SizeMember(m) + VarintSize(m.Index)
MarshalOfConnection(m) == Delimited(\ha, MarshalConnectionInfo(m.ConnectionInfo))
SizeOfConnection(m) == DelimitedSize(SizeConnectionInfo(m.ConnectionInfo))

\* A number of any of the integer types is written in as many bytes as counted.
LEMMA UintWritten ==
  ASSUME NEW tag \in Nat, NEW v \in Wide \cup Narrow \cup Narrow1
  PROVE /\ Varint(tag, v) \in Seq(Nat) /\ Len(Varint(tag, v)) = VarintSize(v)
        /\ VarintSize(v) \in 0..(1 + MaxGroups)
<1>1. v \in Nat /\ v < pow2[WideBits]
      BY Widths DEF Wide, Narrow, Narrow1
<1> QED
    BY <1>1, VarintWritten

\* What it means for a text to be short.
LEMMA ShortIs ==
  ASSUME NEW b \in Short
  PROVE /\ b \in Seq(Nat) /\ Len(b) \in Nat /\ Len(b) + 2 * WideBits < pow2[WideBits - 1]
        /\ Len(b) < pow2[WideBits]
<1> DEFINE n == Len(b)
<1>1. b \in Seq(Nat) /\ n \in Nat /\ n + 2 * WideBits < pow2[WideBits - 1]
      BY DEF Short
<1>2. n \in Nat /\ n + 2 * WideBits < pow2[WideBits - 1]
      BY <1>1
<1>3. n < pow2[WideBits]
  <2> HIDE DEF n
  <2> QED
      BY <1>2, Widths
<1> QED
    BY <1>1, <1>3

\* A short text is written in as many bytes as counted.
LEMMA TextShort ==
  ASSUME NEW tag \in Nat, NEW b \in Short
  PROVE /\ Text(tag, b) \in Seq(Nat) /\ Len(Text(tag, b)) = TextSize(b)
        /\ TextSize(b) \in 0..(1 + MaxGroups + Len(b)) /\ Len(b) \in Nat
<1>1. /\ Text(tag, b) \in Seq(Nat) /\ Len(Text(tag, b)) = TextSize(b)
      /\ TextSize(b) \in 0..(1 + Len(b) + MaxGroups) /\ Len(b) \in Nat
      BY ShortIs, TextWritten
<1> QED
    BY <1>1, GroupsBound

\* A Boolean is written in two bytes or none.
LEMMA BoolWritten ==
  ASSUME NEW tag \in Nat, NEW x
  PROVE /\ (IF x THEN <<tag, 1>> ELSE <<>>) \in Seq(Nat)
        /\ Len(IF x THEN <<tag, 1>> ELSE <<>>) = (IF x THEN 2 ELSE 0)
        /\ (IF x THEN 2 ELSE 0) \in 0..2
OBVIOUS

\* The bytes of a MemberConfig are as many as its size.
LEMMA MemberConfigWritten ==
  ASSUME NEW m \in AMemberConfig
  PROVE /\ MarshalMemberConfig(m) \in Seq(Nat) /\ Len(MarshalMemberConfig(m)) = SizeMemberConfig(m)
        /\ SizeMemberConfig(m) \in 0..(3 * (1 + MaxGroups) + Len(m.Host))
<1> DEFINE p1 == Varint(\h8, m.MemberID)
           p2 == Text(\h12, m.Host)
           p3 == Varint(\h18, m.Port)
           s1 == VarintSize(m.MemberID)
           s2 == TextSize(m.Host)
           s3 == VarintSize(m.Port)
<1>1. p1 \in Seq(Nat) /\ Len(p1) = s1 /\ s1 \in 0..(1 + MaxGroups)
  <2>1. m.MemberID \in Narrow
        BY DEF AMemberConfig
  <2> QED
      BY <2>1, UintWritten
<1>2. p2 \in Seq(Nat) /\ Len(p2) = s2 /\ s2 \in 0..(1 + MaxGroups + Len(m.Host)) /\ Len(m.Host) \in Nat
  <2>1. m.Host \in Short
        BY DEF AMemberConfig
  <2> QED
      BY <2>1, TextShort
<1>3. p3 \in Seq(Nat) /\ Len(p3) = s3 /\ s3 \in 0..(1 + MaxGroups)
  <2>1. m.Port \in Narrow1
        BY DEF AMemberConfig
  <2> QED
      BY <2>1, UintWritten
<1>4. MarshalMemberConfig(m) = p1 \o p2 \o p3 /\ SizeMemberConfig(m) = s1 + s2 + s3
      BY DEF MarshalMemberConfig, SizeMemberConfig
<1> HIDE DEF p1, p2, p3, s1, s2, s3
<1>5. MarshalMemberConfig(m) \in Seq(Nat) /\ Len(MarshalMemberConfig(m)) = Len(p1) + Len(p2) + Len(p3)
  <2>1. MarshalMemberConfig(m) = Three(p1, p2, p3)
        BY <1>4 DEF Three
  <2>2. Sized(p1, s1) /\ Sized(p2, s2) /\ Sized(p3, s3)
        BY <1>1, <1>2, <1>3, GroupsBound DEF Sized
  <2>3. Sized(Three(p1, p2, p3), s1 + s2 + s3)
        BY <2>2, Length3
  <2> QED
      BY <1>1, <1>2, <1>3, <2>1, <2>3 DEF Sized
<1>6. SizeMemberConfig(m) \in 0..(3 * (1 + MaxGroups) + Len(m.Host))
  <2> DEFINE h == Len(m.Host)
  <2>1. s1 \in 0..(1 + MaxGroups) /\ s2 \in 0..(1 + MaxGroups + h) /\ s3 \in 0..(1 + MaxGroups) /\ h \in Nat
        BY <1>1, <1>2, <1>3
  <2> HIDE DEF h
  <2>2. s1 + s2 + s3 \in 0..(3 * (1 + MaxGroups) + h)
        BY ONLY <2>1, GroupsBound
  <2> QED
      BY <1>4, <2>2 DEF h
<1> QED
    BY <1>1, <1>2, <1>3, <1>4, <1>5, <1>6

\* The bytes of a MemberConfig are read into a new message, which is then the one written.
LEMMA MemberConfigRead ==
  ASSUME NEW m \in AMemberConfig
  PROVE UnmarshalFlat("MemberConfig", Zero["MemberConfig"], MarshalMemberConfig(m)) = Read(m, <<>>)
<1> DEFINE none == <<>>
           v1 == m.MemberID
           v2 == m.Host
           v3 == m.Port
           p1 == Varint(\h8, v1)
           p2 == Text(\h12, v2)
           p3 == Varint(\h18, v3)
           m0 == [MemberID |-> 0, Host |-> none, Port |-> 0]
           m1 == [MemberID |-> v1, Host |-> none, Port |-> 0]
           m2 == [MemberID |-> v1, Host |-> v2, Port |-> 0]
           m3 == [MemberID |-> v1, Host |-> v2, Port |-> v3]
           c3 == none
           c2 == p3 \o c3
           c1 == p2 \o c2
           c0 == p1 \o c1
<1>1. m = m3 /\ v1 \in Narrow /\ v2 \in Short /\ v3 \in Narrow1
      BY DEF AMemberConfig
<1>2. p1 \in Seq(Nat) /\ p2 \in Seq(Nat) /\ p3 \in Seq(Nat)
  <2> HIDE DEF v1, v2, v3
  <2> QED
      BY <1>1, UintWritten, TextShort
<1>3. Tells("MemberConfig", "MemberID", 0, p1, v1) /\ Becomes(m0, "MemberID", 0, v1, m1)
  <2>1. Tagged("MemberConfig", \h8, 1, Uint32("MemberID"))
        BY MemberConfigFacts DEF Tagged, Uint32
  <2> HIDE DEF v1, v2, v3
  <2>2. Tells("MemberConfig", "MemberID", 0, p1, v1)
        BY <1>1, <2>1, UintTells
  <2> HIDE DEF none, p1, p2, p3
  <2>3. Becomes(m0, "MemberID", 0, v1, m1)
        BY DEF Becomes
  <2> QED
      BY <2>2, <2>3
<1>4. Tells("MemberConfig", "Host", none, p2, v2) /\ Becomes(m1, "Host", none, v2, m2)
  <2>1. Tagged("MemberConfig", \h12, 2, Bytes("Host"))
        BY MemberConfigFacts DEF Tagged, Bytes
  <2> HIDE DEF v1, v2, v3
  <2>2. Tells("MemberConfig", "Host", none, p2, v2)
        BY <1>1, <2>1, TextTells
  <2> HIDE DEF none, p1, p2, p3
  <2>3. Becomes(m1, "Host", none, v2, m2)
        BY DEF Becomes
  <2> QED
      BY <2>2, <2>3
<1>5. Tells("MemberConfig", "Port", 0, p3, v3) /\ Becomes(m2, "Port", 0, v3, m3)
  <2>1. Tagged("MemberConfig", \h18, 3, Int32("Port"))
        BY MemberConfigFacts DEF Tagged, Int32
  <2> HIDE DEF v1, v2, v3
  <2>2. Tells("MemberConfig", "Port", 0, p3, v3)
        BY <1>1, <2>1, UintTells
  <2> HIDE DEF none, p1, p2, p3
  <2>3. Becomes(m2, "Port", 0, v3, m3)
        BY DEF Becomes
  <2> QED
      BY <2>2, <2>3
<1>6. c3 \in Seq(Nat) /\ c2 \in Seq(Nat) /\ c1 \in Seq(Nat)
  <2> HIDE DEF p1, p2, p3
  <2> QED
      BY <1>2
<1>7. UnmarshalFlat("MemberConfig", m3, c3) = Read(m, <<>>)
      BY <1>1, FlatEnd
<1>8. MarshalMemberConfig(m) = c0
  <2>1. MarshalMemberConfig(m) = p1 \o p2 \o p3
        BY DEF MarshalMemberConfig
  <2> HIDE DEF p1, p2, p3
  <2>2. MarshalMemberConfig(m) = Three(p1, p2, p3)
        BY <2>1 DEF Three
  <2> QED
      BY <1>2, <2>2, Joined3
<1>9. Zero["MemberConfig"] = m0
      BY MemberConfigFacts
<1>10. c2 = p3 \o c3 /\ c1 = p2 \o c2 /\ c0 = p1 \o c1
      OBVIOUS
<1> HIDE DEF none, v1, v2, v3, p1, p2, p3, m0, m1, m2, m3, c0, c1, c2, c3
<1>11. UnmarshalFlat("MemberConfig", m2, c2) = Read(m, <<>>)
  <2>1. c2 = p3 \o c3 /\ c3 \in Seq(Nat)
        BY <1>6, <1>10
  <2> QED
      BY <1>5, <1>7, <2>1, FlatTold
<1>12. UnmarshalFlat("MemberConfig", m1, c1) = Read(m, <<>>)
  <2>1. c1 = p2 \o c2 /\ c2 \in Seq(Nat)
        BY <1>6, <1>10
  <2> QED
      BY <1>4, <1>11, <2>1, FlatTold
<1>13. UnmarshalFlat("MemberConfig", m0, c0) = Read(m, <<>>)
  <2>1. c0 = p1 \o c1 /\ c1 \in Seq(Nat)
        BY <1>6, <1>10
  <2> QED
      BY <1>3, <1>12, <2>1, FlatTold
<1> QED
    BY <1>13, <1>8, <1>9

\* The bytes of a MemberEvent are as many as its size.
LEMMA MemberEventWritten ==
  ASSUME NEW m \in AMemberEvent
  PROVE /\ MarshalMemberEvent(m) \in Seq(Nat) /\ Len(MarshalMemberEvent(m)) = SizeMemberEvent(m)
        /\ SizeMemberEvent(m) \in 0..(2 * (1 + MaxGroups))
<1> DEFINE p1 == Varint(\h8, m.GroupID)
           p2 == Varint(\h10, m.MemberID)
           s1 == VarintSize(m.GroupID)
           s2 == VarintSize(m.MemberID)
<1>1. p1 \in Seq(Nat) /\ Len(p1) = s1 /\ s1 \in 0..(1 + MaxGroups)
  <2>1. m.GroupID \in Narrow
        BY DEF AMemberEvent
  <2> QED
      BY <2>1, UintWritten
<1>2. p2 \in Seq(Nat) /\ Len(p2) = s2 /\ s2 \in 0..(1 + MaxGroups)
  <2>1. m.MemberID \in Narrow
        BY DEF AMemberEvent
  <2> QED
      BY <2>1, UintWritten
<1>3. MarshalMemberEvent(m) = p1 \o p2 /\ SizeMemberEvent(m) = s1 + s2
      BY DEF MarshalMemberEvent, SizeMemberEvent
<1> HIDE DEF p1, p2, s1, s2
<1>4. MarshalMemberEvent(m) \in Seq(Nat) /\ Len(MarshalMemberEvent(m)) = Len(p1) + Len(p2)
      BY <1>1, <1>2, <1>3, Joined2
<1>5. SizeMemberEvent(m) \in 0..(2 * (1 + MaxGroups))
  <2>1. s1 \in 0..(1 + MaxGroups) /\ s2 \in 0..(1 + MaxGroups)
        BY <1>1, <1>2
  <2>2. s1 + s2 \in 0..(2 * (1 + MaxGroups))
        BY ONLY <2>1, GroupsBound
  <2> QED
      BY <1>3, <2>2
<1> QED
    BY <1>1, <1>2, <1>3, <1>4, <1>5

\* The bytes of a MemberEvent are read into a new message, which is then the one written.
LEMMA MemberEventRead ==
  ASSUME NEW m \in AMemberEvent
  PROVE UnmarshalFlat("MemberEvent", Zero["MemberEvent"], MarshalMemberEvent(m)) = Read(m, <<>>)
<1> DEFINE none == <<>>
           v1 == m.GroupID
           v2 == m.MemberID
           p1 == Varint(\h8, v1)
           p2 == Varint(\h10, v2)
           m0 == [GroupID |-> 0, MemberID |-> 0]
           m1 == [GroupID |-> v1, MemberID |-> 0]
           m2 == [GroupID |-> v1, MemberID |-> v2]
           c2 == none
           c1 == p2 \o c2
           c0 == p1 \o c1
<1>1. m = m2 /\ v1 \in Narrow /\ v2 \in Narrow
      BY DEF AMemberEvent
<1>2. p1 \in Seq(Nat) /\ p2 \in Seq(Nat)
  <2> HIDE DEF v1, v2
  <2> QED
      BY <1>1, UintWritten
<1>3. Tells("MemberEvent", "GroupID", 0, p1, v1) /\ Becomes(m0, "GroupID", 0, v1, m1)
  <2>1. Tagged("MemberEvent", \h8, 1, Uint32("GroupID"))
        BY MemberEventFacts DEF Tagged, Uint32
  <2> HIDE DEF v1, v2
  <2>2. Tells("MemberEvent", "GroupID", 0, p1, v1)
        BY <1>1, <2>1, UintTells
  <2> HIDE DEF none, p1, p2
  <2>3. Becomes(m0, "GroupID", 0, v1, m1)
        BY DEF Becomes
  <2> QED
      BY <2>2, <2>3
<1>4. Tells("MemberEvent", "MemberID", 0, p2, v2) /\ Becomes(m1, "MemberID", 0, v2, m2)
  <2>1. Tagged("MemberEvent", \h10, 2, Uint32("MemberID"))
        BY MemberEventFacts DEF Tagged, Uint32
  <2> HIDE DEF v1, v2
  <2>2. Tells("MemberEvent", "MemberID", 0, p2, v2)
        BY <1>1, <2>1, UintTells
  <2> HIDE DEF none, p1, p2
  <2>3. Becomes(m1, "MemberID", 0, v2, m2)
        BY DEF Becomes
  <2> QED
      BY <2>2, <2>3
<1>5. c2 \in Seq(Nat) /\ c1 \in Seq(Nat)
  <2> HIDE DEF p1, p2
  <2> QED
      BY <1>2
<1>6. UnmarshalFlat("MemberEvent", m2, c2) = Read(m, <<>>)
      BY <1>1, FlatEnd
<1>7. MarshalMemberEvent(m) = c0
  <2>1. MarshalMemberEvent(m) = p1 \o p2
        BY DEF MarshalMemberEvent
  <2> HIDE DEF p1, p2
  <2> QED
      BY <1>2, <2>1, Joined2
<1>8. Zero["MemberEvent"] = m0
      BY MemberEventFacts
<1>9. c1 = p2 \o c2 /\ c0 = p1 \o c1
      OBVIOUS
<1> HIDE DEF none, v1, v2, p1, p2, m0, m1, m2, c0, c1, c2
<1>10. UnmarshalFlat("MemberEvent", m1, c1) = Read(m, <<>>)
  <2>1. c1 = p2 \o c2 /\ c2 \in Seq(Nat)
        BY <1>5, <1>9
  <2> QED
      BY <1>4, <1>6, <2>1, FlatTold
<1>11. UnmarshalFlat("MemberEvent", m0, c0) = Read(m, <<>>)
  <2>1. c0 = p1 \o c1 /\ c1 \in Seq(Nat)
        BY <1>5, <1>9
  <2> QED
      BY <1>3, <1>10, <2>1, FlatTold
<1> QED
    BY <1>11, <1>7, <1>8

\* A part as its message has it: its length fits an int.
LEMMA MemberPart ==
  ASSUME NEW m \in AMemberEvent
  PROVE /\ MarshalMemberEvent(m) \in Seq(Nat) /\ Len(MarshalMemberEvent(m)) < pow2[WideBits - 1]
        /\ Delimited(\ha, MarshalMemberEvent(m)) \in Seq(Nat)
        /\ Len(Delimited(\ha, MarshalMemberEvent(m))) = DelimitedSize(SizeMemberEvent(m))
        /\ DelimitedSize(SizeMemberEvent(m)) \in 0..(3 * (1 + MaxGroups))
<1> DEFINE b == MarshalMemberEvent(m)
           n == Len(b)
<1>1. b \in Seq(Nat) /\ n = SizeMemberEvent(m) /\ n \in 0..(2 * (1 + MaxGroups))
      BY MemberEventWritten
<1> HIDE DEF b
<1>2. n \in Nat /\ n < pow2[WideBits - 1] /\ n < pow2[WideBits]
  <2>1. n \in 0..(2 * (1 + MaxGroups))
        BY <1>1
  <2> HIDE DEF n
  <2> QED
      BY <2>1, GroupsBound, Widths
<1>3. /\ Delimited(\ha, b) \in Seq(Nat) /\ Len(Delimited(\ha, b)) = DelimitedSize(n)
      /\ DelimitedSize(n) \in n..(1 + n + MaxGroups)
      BY <1>1, <1>2, DelimitedWritten
<1>4. DelimitedSize(n) \in 0..(3 * (1 + MaxGroups))
  <2>1. n \in 0..(2 * (1 + MaxGroups)) /\ DelimitedSize(n) \in n..(1 + n + MaxGroups)
        BY <1>1, <1>3
  <2> HIDE DEF n
  <2> QED
      BY <2>1, GroupsBound
<1> QED
    BY <1>1, <1>2, <1>3, <1>4 DEF b

\* The bytes of a ConnectionInfo are as many as its size.
LEMMA ConnectionInfoWritten ==
  ASSUME NEW m \in AConnectionInfo
  PROVE /\ MarshalConnectionInfo(m) \in Seq(Nat) /\ Len(MarshalConnectionInfo(m)) = SizeConnectionInfo(m)
        /\ SizeConnectionInfo(m) \in 0..(1 * (1 + MaxGroups) + Len(m.Address) + 2)
<1> DEFINE p1 == Text(\ha, m.Address)
           p2 == (IF m.Snapshot THEN <<\h10, 1>> ELSE <<>>)
           s1 == TextSize(m.Address)
           s2 == (IF m.Snapshot THEN 2 ELSE 0)
<1>1. p1 \in Seq(Nat) /\ Len(p1) = s1 /\ s1 \in 0..(1 + MaxGroups + Len(m.Address)) /\ Len(m.Address) \in Nat
  <2>1. m.Address \in Short
        BY DEF AConnectionInfo
  <2> QED
      BY <2>1, TextShort
<1>2. p2 \in Seq(Nat) /\ Len(p2) = s2 /\ s2 \in 0..2
      BY BoolWritten
<1>3. MarshalConnectionInfo(m) = p1 \o p2 /\ SizeConnectionInfo(m) = s1 + s2
      BY DEF MarshalConnectionInfo, SizeConnectionInfo
<1> HIDE DEF p1, p2, s1, s2
<1>4. MarshalConnectionInfo(m) \in Seq(Nat) /\ Len(MarshalConnectionInfo(m)) = Len(p1) + Len(p2)
      BY <1>1, <1>2, <1>3, Joined2
<1>5. SizeConnectionInfo(m) \in 0..(1 * (1 + MaxGroups) + Len(m.Address) + 2)
  <2> DEFINE h == Len(m.Address)
  <2>1. s1 \in 0..(1 + MaxGroups + h) /\ s2 \in 0..2 /\ h \in Nat
        BY <1>1, <1>2
  <2> HIDE DEF h
  <2>2. s1 + s2 \in 0..(1 * (1 + MaxGroups) + h + 2)
        BY ONLY <2>1, GroupsBound
  <2> QED
      BY <1>3, <2>2 DEF h
<1> QED
    BY <1>1, <1>2, <1>3, <1>4, <1>5

\* The bytes of a ConnectionInfo are read into a new message, which is then the one written.
LEMMA ConnectionInfoRead ==
  ASSUME NEW m \in AConnectionInfo
  PROVE UnmarshalFlat("ConnectionInfo", Zero["ConnectionInfo"], MarshalConnectionInfo(m)) = Read(m, <<>>)
<1> DEFINE none == <<>>
           no == FALSE
           v1 == m.Address
           v2 == m.Snapshot
           p1 == Text(\ha, v1)
           p2 == (IF v2 THEN <<\h10, 1>> ELSE <<>>)
           m0 == [Address |-> none, Snapshot |-> no]
           m1 == [Address |-> v1, Snapshot |-> no]
           m2 == [Address |-> v1, Snapshot |-> v2]
           c2 == none
           c1 == p2 \o c2
           c0 == p1 \o c1
<1>1. m = m2 /\ v1 \in Short /\ v2 \in BOOLEAN
      BY DEF AConnectionInfo
<1>2. p1 \in Seq(Nat) /\ p2 \in Seq(Nat)
  <2> HIDE DEF v1, v2
  <2> QED
      BY <1>1, TextShort, BoolWritten
<1>3. Tells("ConnectionInfo", "Address", none, p1, v1) /\ Becomes(m0, "Address", none, v1, m1)
  <2>1. Tagged("ConnectionInfo", \ha, 1, Bytes("Address"))
        BY ConnectionInfoFacts DEF Tagged, Bytes
  <2> HIDE DEF v1, v2
  <2>2. Tells("ConnectionInfo", "Address", none, p1, v1)
        BY <1>1, <2>1, TextTells
  <2> HIDE DEF none, no, p1, p2
  <2>3. Becomes(m0, "Address", none, v1, m1)
        BY DEF Becomes
  <2> QED
      BY <2>2, <2>3
<1>4. Tells("ConnectionInfo", "Snapshot", no, p2, v2) /\ Becomes(m1, "Snapshot", no, v2, m2)
  <2>1. Tagged("ConnectionInfo", \h10, 2, Bool("Snapshot"))
        BY ConnectionInfoFacts DEF Tagged, Bool
  <2> HIDE DEF v1, v2
  <2>2. Tells("ConnectionInfo", "Snapshot", no, p2, v2)
        BY <1>1, <2>1, BoolTells
  <2> HIDE DEF none, no, p1, p2
  <2>3. Becomes(m1, "Snapshot", no, v2, m2)
        BY DEF Becomes
  <2> QED
      BY <2>2, <2>3
<1>5. c2 \in Seq(Nat) /\ c1 \in Seq(Nat)
  <2> HIDE DEF p1, p2
  <2> QED
      BY <1>2
<1>6. UnmarshalFlat("ConnectionInfo", m2, c2) = Read(m, <<>>)
      BY <1>1, FlatEnd
<1>7. MarshalConnectionInfo(m) = c0
  <2>1. MarshalConnectionInfo(m) = p1 \o p2
        BY DEF MarshalConnectionInfo
  <2> HIDE DEF p1, p2
  <2> QED
      BY <1>2, <2>1, Joined2
<1>8. Zero["ConnectionInfo"] = m0
      BY ConnectionInfoFacts
<1>9. c1 = p2 \o c2 /\ c0 = p1 \o c1
      OBVIOUS
<1> HIDE DEF none, no, v1, v2, p1, p2, m0, m1, m2, c0, c1, c2
<1>10. UnmarshalFlat("ConnectionInfo", m1, c1) = Read(m, <<>>)
  <2>1. c1 = p2 \o c2 /\ c2 \in Seq(Nat)
        BY <1>5, <1>9
  <2> QED
      BY <1>4, <1>6, <2>1, FlatTold
<1>11. UnmarshalFlat("ConnectionInfo", m0, c0) = Read(m, <<>>)
  <2>1. c0 = p1 \o c1 /\ c1 \in Seq(Nat)
        BY <1>5, <1>9
  <2> QED
      BY <1>3, <1>10, <2>1, FlatTold
<1> QED
    BY <1>11, <1>7, <1>8

\* The bytes of a ConnectionInfo as the part of an event.
LEMMA ConnectionPart ==
  ASSUME NEW m \in AConnectionInfo
  PROVE /\ MarshalConnectionInfo(m) \in Seq(Nat) /\ Len(MarshalConnectionInfo(m)) < pow2[WideBits - 1]
        /\ Delimited(\ha, MarshalConnectionInfo(m)) \in Seq(Nat)
        /\ Len(Delimited(\ha, MarshalConnectionInfo(m))) = DelimitedSize(SizeConnectionInfo(m))
        /\ DelimitedSize(SizeConnectionInfo(m)) \in 0..(2 * (1 + MaxGroups) + Len(m.Address) + 2)
<1> DEFINE b == MarshalConnectionInfo(m)
           n == Len(b)
           a == Len(m.Address)
<1>1. b \in Seq(Nat) /\ n = SizeConnectionInfo(m) /\ n \in 0..(1 * (1 + MaxGroups) + a + 2)
      BY ConnectionInfoWritten
<1>2. a \in Nat /\ a + 2 * WideBits < pow2[WideBits - 1]
      BY ShortIs DEF AConnectionInfo
<1> HIDE DEF b, a
<1>3. n \in Nat /\ n < pow2[WideBits - 1] /\ n < pow2[WideBits]
  <2>1. n \in 0..(1 * (1 + MaxGroups) + a + 2)
        BY <1>1
  <2> HIDE DEF n
  <2> QED
      BY <1>2, <2>1, GroupsBound, Widths
<1>4. /\ Delimited(\ha, b) \in Seq(Nat) /\ Len(Delimited(\ha, b)) = DelimitedSize(n)
      /\ DelimitedSize(n) \in n..(1 + n + MaxGroups)
      BY <1>1, <1>3, DelimitedWritten
<1>5. DelimitedSize(n) \in 0..(2 * (1 + MaxGroups) + a + 2)
  <2>1. n \in 0..(1 * (1 + MaxGroups) + a + 2) /\ DelimitedSize(n) \in n..(1 + n + MaxGroups)
        BY <1>1, <1>4
  <2> HIDE DEF n
  <2> QED
      BY <1>2, <2>1, GroupsBound
<1> QED
    BY <1>1, <1>3, <1>4, <1>5 DEF b, a

\* The bytes of the events of a member are as many as its size.
LEMMA OfMemberWritten ==
  ASSUME NEW m \in AOfMember
  PROVE /\ MarshalMember(m) \in Seq(Nat) /\ Len(MarshalMember(m)) = SizeMember(m)
        /\ SizeMember(m) \in 0..(3 * (1 + MaxGroups))
<1> DEFINE p1 == Delimited(\ha, MarshalMemberEvent(m.MemberEvent))
           s1 == DelimitedSize(SizeMemberEvent(m.MemberEvent))
<1>1. p1 \in Seq(Nat) /\ Len(p1) = s1 /\ s1 \in 0..(3 * (1 + MaxGroups))
  <2>1. m.MemberEvent \in AMemberEvent
        BY DEF AOfMember
  <2> QED
      BY <2>1, MemberPart
<1>2. MarshalMember(m) = p1 /\ SizeMember(m) = s1
      BY DEF MarshalMember, SizeMember
<1> HIDE DEF p1, s1
<1>3. MarshalMember(m) \in Seq(Nat) /\ Len(MarshalMember(m)) = Len(p1)
      BY <1>1, <1>2
<1>4. SizeMember(m) \in 0..(3 * (1 + MaxGroups))
  <2>1. s1 \in 0..(3 * (1 + MaxGroups))
        BY <1>1
  <2>2. s1 \in 0..(3 * (1 + MaxGroups))
        BY ONLY <2>1, GroupsBound
  <2> QED
      BY <1>2, <2>2
<1> QED
    BY <1>1, <1>2, <1>3, <1>4

\* The bytes of the events of a member are read into a new message, which is then the one written.
LEMMA OfMemberRead ==
  ASSUME NEW type \in {"MemberReadyEvent", "MembershipChangedEvent"},
         NEW m \in AOfMember
  PROVE UnmarshalNested(type, Zero[type], MarshalMember(m)) = Read(m, <<>>)
<1> DEFINE none == <<>>
           v1 == m.MemberEvent
           p1 == Delimited(\ha, MarshalMemberEvent(v1))
           m0 == [MemberEvent |-> Zero["MemberEvent"]]
           m1 == [MemberEvent |-> v1]
           c1 == none
           c0 == p1 \o c1
           b == MarshalMemberEvent(v1)
<1>1. m = m1 /\ v1 \in AMemberEvent
      BY DEF AOfMember
<1>2. p1 \in Seq(Nat)
  <2> HIDE DEF v1
  <2> QED
      BY <1>1, MemberPart
<1>3. Carries(FieldsOf[type], 1, p1, b) /\ p1 # <<>> /\ NestedPartIs(type, 1, m0, b, v1) /\ Puts(type,
          1, v1, m0, m1)
  <2> DEFINE f == FieldsOf[type][1]
  <2>1. f = Part("MemberEvent", "MemberEvent") /\ 1 \in DOMAIN FieldsOf[type]
        BY OfMemberFacts
  <2>2. f.name = "MemberEvent" /\ f.store = "part" /\ f.wire = 2 /\ f.type = "MemberEvent"
        BY <2>1 DEF Part
  <2>3. b \in Seq(Nat) /\ Len(b) < pow2[WideBits - 1]
        BY <1>1, MemberPart
  <2>4. Carries(FieldsOf[type], 1, p1, b) /\ p1 # <<>>
    <3>1. \ha \in Nat /\ \ha < 128 /\ \ha % 8 = 2 /\ \ha >= 8 /\ \ha \div 8 = 1
          OBVIOUS
    <3> HIDE DEF b, f
    <3> QED
        BY <2>1, <2>2, <2>3, <3>1, DelimitedCarries DEF b, f
  <2>5. UnmarshalFlat("MemberEvent", Zero["MemberEvent"], b) = Read(v1, <<>>)
        BY <1>1, MemberEventRead
  <2>6. m0["MemberEvent"] = Zero["MemberEvent"]
        OBVIOUS
  <2> HIDE DEF v1
  <2>7. m1 = [m0 EXCEPT !["MemberEvent"] = v1]
        OBVIOUS
  <2> HIDE DEF m0, m1, p1, b
  <2>8. NestedPartIs(type, 1, m0, b, v1)
        BY <2>1, <2>2, <2>5, <2>6 DEF NestedPartIs
  <2>9. Puts(type, 1, v1, m0, m1)
    <3>1. \A old : Stored(f, old, v1) = v1
          BY <2>2 DEF Stored
    <3> QED
        BY <2>2, <2>7, <3>1 DEF Puts
  <2> QED
      BY <2>4, <2>8, <2>9
<1>4. c1 \in Seq(Nat)
  <2> HIDE DEF p1
  <2> QED
      BY <1>2
<1>5. UnmarshalNested(type, m1, c1) = Read(m, <<>>)
      BY <1>1, NestedEnd
<1>6. MarshalMember(m) = c0
  <2>1. MarshalMember(m) = p1
        BY DEF MarshalMember
  <2> HIDE DEF p1
  <2> QED
      BY <1>2, <2>1, Joined1
<1>7. Zero[type] = m0
      BY OfMemberFacts
<1>8. c0 = p1 \o c1
      OBVIOUS
<1> HIDE DEF none, v1, p1, m0, m1, c0, c1, b
<1>9. UnmarshalNested(type, m0, c0) = Read(m, <<>>)
  <2>1. c0 = p1 \o c1 /\ c1 \in Seq(Nat)
        BY <1>4, <1>8
  <2> QED
      BY <1>3, <1>5, <2>1, NestedPart
<1> QED
    BY <1>9, <1>6, <1>7

\* The bytes of a LeaderUpdatedEvent are as many as its size.
LEMMA LeaderUpdatedWritten ==
  ASSUME NEW m \in ALeaderUpdated
  PROVE /\ MarshalLeaderUpdatedEvent(m) \in Seq(Nat)
            /\ Len(MarshalLeaderUpdatedEvent(m)) = SizeLeaderUpdatedEvent(m)
        /\ SizeLeaderUpdatedEvent(m) \in 0..(5 * (1 + MaxGroups))
<1> DEFINE p1 == Delimited(\ha, MarshalMemberEvent(m.MemberEvent))
           p2 == Varint(\h10, m.Term)
           p3 == Varint(\h18, m.Leader)
           s1 == DelimitedSize(SizeMemberEvent(m.MemberEvent))
           s2 == VarintSize(m.Term)
           s3 == VarintSize(m.Leader)
<1>1. p1 \in Seq(Nat) /\ Len(p1) = s1 /\ s1 \in 0..(3 * (1 + MaxGroups))
  <2>1. m.MemberEvent \in AMemberEvent
        BY DEF ALeaderUpdated
  <2> QED
      BY <2>1, MemberPart
<1>2. p2 \in Seq(Nat) /\ Len(p2) = s2 /\ s2 \in 0..(1 + MaxGroups)
  <2>1. m.Term \in Wide
        BY DEF ALeaderUpdated
  <2> QED
      BY <2>1, UintWritten
<1>3. p3 \in Seq(Nat) /\ Len(p3) = s3 /\ s3 \in 0..(1 + MaxGroups)
  <2>1. m.Leader \in Narrow
        BY DEF ALeaderUpdated
  <2> QED
      BY <2>1, UintWritten
<1>4. MarshalLeaderUpdatedEvent(m) = p1 \o p2 \o p3 /\ SizeLeaderUpdatedEvent(m) = s1 + s2 + s3
      BY DEF MarshalLeaderUpdatedEvent, SizeLeaderUpdatedEvent, MarshalMember, SizeMember
<1> HIDE DEF p1, p2, p3, s1, s2, s3
<1>5. MarshalLeaderUpdatedEvent(m) \in Seq(Nat)
          /\ Len(MarshalLeaderUpdatedEvent(m)) = Len(p1) + Len(p2) + Len(p3)
  <2>1. MarshalLeaderUpdatedEvent(m) = Three(p1, p2, p3)
        BY <1>4 DEF Three
  <2>2. Sized(p1, s1) /\ Sized(p2, s2) /\ Sized(p3, s3)
        BY <1>1, <1>2, <1>3, GroupsBound DEF Sized
  <2>3. Sized(Three(p1, p2, p3), s1 + s2 + s3)
        BY <2>2, Length3
  <2> QED
      BY <1>1, <1>2, <1>3, <2>1, <2>3 DEF Sized
<1>6. SizeLeaderUpdatedEvent(m) \in 0..(5 * (1 + MaxGroups))
  <2>1. s1 \in 0..(3 * (1 + MaxGroups)) /\ s2 \in 0..(1 + MaxGroups) /\ s3 \in 0..(1 + MaxGroups)
        BY <1>1, <1>2, <1>3
  <2>2. s1 + s2 + s3 \in 0..(5 * (1 + MaxGroups))
        BY ONLY <2>1, GroupsBound
  <2> QED
      BY <1>4, <2>2
<1> QED
    BY <1>1, <1>2, <1>3, <1>4, <1>5, <1>6

\* The bytes of a LeaderUpdatedEvent are read into a new message, which is then the one written.
LEMMA LeaderUpdatedRead ==
  ASSUME NEW m \in ALeaderUpdated
  PROVE UnmarshalNested("LeaderUpdatedEvent", Zero["LeaderUpdatedEvent"],
            MarshalLeaderUpdatedEvent(m)) = Read(m, <<>>)
<1> DEFINE none == <<>>
           v1 == m.MemberEvent
           v2 == m.Term
           v3 == m.Leader
           p1 == Delimited(\ha, MarshalMemberEvent(v1))
           p2 == Varint(\h10, v2)
           p3 == Varint(\h18, v3)
           m0 == [MemberEvent |-> Zero["MemberEvent"], Term |-> 0, Leader |-> 0]
           m1 == [MemberEvent |-> v1, Term |-> 0, Leader |-> 0]
           m2 == [MemberEvent |-> v1, Term |-> v2, Leader |-> 0]
           m3 == [MemberEvent |-> v1, Term |-> v2, Leader |-> v3]
           c3 == none
           c2 == p3 \o c3
           c1 == p2 \o c2
           c0 == p1 \o c1
           b == MarshalMemberEvent(v1)
<1>1. m = m3 /\ v1 \in AMemberEvent /\ v2 \in Wide /\ v3 \in Narrow
      BY DEF ALeaderUpdated
<1>2. p1 \in Seq(Nat) /\ p2 \in Seq(Nat) /\ p3 \in Seq(Nat)
  <2> HIDE DEF v1, v2, v3
  <2> QED
      BY <1>1, MemberPart, UintWritten
<1>3. Carries(FieldsOf["LeaderUpdatedEvent"], 1, p1, b) /\ p1 # <<>>
          /\ NestedPartIs("LeaderUpdatedEvent", 1, m0, b, v1) /\ Puts("LeaderUpdatedEvent", 1, v1, m0, m1)
  <2> DEFINE f == FieldsOf["LeaderUpdatedEvent"][1]
  <2>1. f = Part("MemberEvent", "MemberEvent") /\ 1 \in DOMAIN FieldsOf["LeaderUpdatedEvent"]
        BY LeaderUpdatedFacts
  <2>2. f.name = "MemberEvent" /\ f.store = "part" /\ f.wire = 2 /\ f.type = "MemberEvent"
        BY <2>1 DEF Part
  <2>3. b \in Seq(Nat) /\ Len(b) < pow2[WideBits - 1]
        BY <1>1, MemberPart
  <2>4. Carries(FieldsOf["LeaderUpdatedEvent"], 1, p1, b) /\ p1 # <<>>
    <3>1. \ha \in Nat /\ \ha < 128 /\ \ha % 8 = 2 /\ \ha >= 8 /\ \ha \div 8 = 1
          OBVIOUS
    <3> HIDE DEF b, f
    <3> QED
        BY <2>1, <2>2, <2>3, <3>1, DelimitedCarries DEF b, f
  <2>5. UnmarshalFlat("MemberEvent", Zero["MemberEvent"], b) = Read(v1, <<>>)
        BY <1>1, MemberEventRead
  <2>6. m0["MemberEvent"] = Zero["MemberEvent"]
        OBVIOUS
  <2> HIDE DEF v1, v2, v3
  <2>7. m1 = [m0 EXCEPT !["MemberEvent"] = v1]
        OBVIOUS
  <2> HIDE DEF m0, m1, m2, m3, p1, p2, p3, b
  <2>8. NestedPartIs("LeaderUpdatedEvent", 1, m0, b, v1)
        BY <2>1, <2>2, <2>5, <2>6 DEF NestedPartIs
  <2>9. Puts("LeaderUpdatedEvent", 1, v1, m0, m1)
    <3>1. \A old : Stored(f, old, v1) = v1
          BY <2>2 DEF Stored
    <3> QED
        BY <2>2, <2>7, <3>1 DEF Puts
  <2> QED
      BY <2>4, <2>8, <2>9
<1>4. Tells("LeaderUpdatedEvent", "Term", 0, p2, v2) /\ Becomes(m1, "Term", 0, v2, m2)
  <2>1. Tagged("LeaderUpdatedEvent", \h10, 2, Uint64("Term"))
        BY LeaderUpdatedFacts DEF Tagged, Uint64
  <2> HIDE DEF v1, v2, v3
  <2>2. Tells("LeaderUpdatedEvent", "Term", 0, p2, v2)
        BY <1>1, <2>1, UintTells
  <2> HIDE DEF none, p1, p2, p3
  <2>3. Becomes(m1, "Term", 0, v2, m2)
        BY DEF Becomes
  <2> QED
      BY <2>2, <2>3
<1>5. Tells("LeaderUpdatedEvent", "Leader", 0, p3, v3) /\ Becomes(m2, "Leader", 0, v3, m3)
  <2>1. Tagged("LeaderUpdatedEvent", \h18, 3, Uint32("Leader"))
        BY LeaderUpdatedFacts DEF Tagged, Uint32
  <2> HIDE DEF v1, v2, v3
  <2>2. Tells("LeaderUpdatedEvent", "Leader", 0, p3, v3)
        BY <1>1, <2>1, UintTells
  <2> HIDE DEF none, p1, p2, p3
  <2>3. Becomes(m2, "Leader", 0, v3, m3)
        BY DEF Becomes
  <2> QED
      BY <2>2, <2>3
<1>6. c3 \in Seq(Nat) /\ c2 \in Seq(Nat) /\ c1 \in Seq(Nat)
  <2> HIDE DEF p1, p2, p3
  <2> QED
      BY <1>2
<1>7. UnmarshalNested("LeaderUpdatedEvent", m3, c3) = Read(m, <<>>)
      BY <1>1, NestedEnd
<1>8. MarshalLeaderUpdatedEvent(m) = c0
  <2>1. MarshalLeaderUpdatedEvent(m) = p1 \o p2 \o p3
        BY DEF MarshalLeaderUpdatedEvent, MarshalMember
  <2> HIDE DEF p1, p2, p3
  <2>2. MarshalLeaderUpdatedEvent(m) = Three(p1, p2, p3)
        BY <2>1 DEF Three
  <2> QED
      BY <1>2, <2>2, Joined3
<1>9. Zero["LeaderUpdatedEvent"] = m0
      BY LeaderUpdatedFacts
<1>10. c2 = p3 \o c3 /\ c1 = p2 \o c2 /\ c0 = p1 \o c1
      OBVIOUS
<1> HIDE DEF none, v1, v2, v3, p1, p2, p3, m0, m1, m2, m3, c0, c1, c2, c3, b
<1>11. UnmarshalNested("LeaderUpdatedEvent", m2, c2) = Read(m, <<>>)
  <2>1. c2 = p3 \o c3 /\ c3 \in Seq(Nat)
        BY <1>6, <1>10
  <2> QED
      BY <1>5, <1>7, <2>1, NestedTold
<1>12. UnmarshalNested("LeaderUpdatedEvent", m1, c1) = Read(m, <<>>)
  <2>1. c1 = p2 \o c2 /\ c2 \in Seq(Nat)
        BY <1>6, <1>10
  <2> QED
      BY <1>4, <1>11, <2>1, NestedTold
<1>13. UnmarshalNested("LeaderUpdatedEvent", m0, c0) = Read(m, <<>>)
  <2>1. c0 = p1 \o c1 /\ c1 \in Seq(Nat)
        BY <1>6, <1>10
  <2> QED
      BY <1>3, <1>12, <2>1, NestedPart
<1> QED
    BY <1>13, <1>8, <1>9

\* The bytes of the three events of a snapshot being sent are as many as its size.
LEMMA SendSnapshotWritten ==
  ASSUME NEW m \in ASendSnapshot
  PROVE /\ MarshalSendSnapshot(m) \in Seq(Nat) /\ Len(MarshalSendSnapshot(m)) = SizeSendSnapshot(m)
        /\ SizeSendSnapshot(m) \in 0..(5 * (1 + MaxGroups))
<1> DEFINE p1 == Delimited(\ha, MarshalMemberEvent(m.MemberEvent))
           p2 == Varint(\h10, m.Index)
           p3 == Varint(\h18, m.To)
           s1 == DelimitedSize(SizeMemberEvent(m.MemberEvent))
           s2 == VarintSize(m.Index)
           s3 == VarintSize(m.To)
<1>1. p1 \in Seq(Nat) /\ Len(p1) = s1 /\ s1 \in 0..(3 * (1 + MaxGroups))
  <2>1. m.MemberEvent \in AMemberEvent
        BY DEF ASendSnapshot
  <2> QED
      BY <2>1, MemberPart
<1>2. p2 \in Seq(Nat) /\ Len(p2) = s2 /\ s2 \in 0..(1 + MaxGroups)
  <2>1. m.Index \in Wide
        BY DEF ASendSnapshot
  <2> QED
      BY <2>1, UintWritten
<1>3. p3 \in Seq(Nat) /\ Len(p3) = s3 /\ s3 \in 0..(1 + MaxGroups)
  <2>1. m.To \in Narrow
        BY DEF ASendSnapshot
  <2> QED
      BY <2>1, UintWritten
<1>4. MarshalSendSnapshot(m) = p1 \o p2 \o p3 /\ SizeSendSnapshot(m) = s1 + s2 + s3
      BY DEF MarshalSendSnapshot, SizeSendSnapshot, MarshalMember, SizeMember
<1> HIDE DEF p1, p2, p3, s1, s2, s3
<1>5. MarshalSendSnapshot(m) \in Seq(Nat) /\ Len(MarshalSendSnapshot(m)) = Len(p1) + Len(p2) + Len(p3)
  <2>1. MarshalSendSnapshot(m) = Three(p1, p2, p3)
        BY <1>4 DEF Three
  <2>2. Sized(p1, s1) /\ Sized(p2, s2) /\ Sized(p3, s3)
        BY <1>1, <1>2, <1>3, GroupsBound DEF Sized
  <2>3. Sized(Three(p1, p2, p3), s1 + s2 + s3)
        BY <2>2, Length3
  <2> QED
      BY <1>1, <1>2, <1>3, <2>1, <2>3 DEF Sized
<1>6. SizeSendSnapshot(m) \in 0..(5 * (1 + MaxGroups))
  <2>1. s1 \in 0..(3 * (1 + MaxGroups)) /\ s2 \in 0..(1 + MaxGroups) /\ s3 \in 0..(1 + MaxGroups)
        BY <1>1, <1>2, <1>3
  <2>2. s1 + s2 + s3 \in 0..(5 * (1 + MaxGroups))
        BY ONLY <2>1, GroupsBound
  <2> QED
      BY <1>4, <2>2
<1> QED
    BY <1>1, <1>2, <1>3, <1>4, <1>5, <1>6

\* The bytes of the three events of a snapshot being sent are read into a new message, which is then the one written.
LEMMA SendSnapshotRead ==
  ASSUME NEW type \in {"SendSnapshotStartedEvent", "SendSnapshotCompletedEvent", "SendSnapshotAbortedEvent"},
         NEW m \in ASendSnapshot
  PROVE UnmarshalNested(type, Zero[type], MarshalSendSnapshot(m)) = Read(m, <<>>)
<1> DEFINE none == <<>>
           v1 == m.MemberEvent
           v2 == m.Index
           v3 == m.To
           p1 == Delimited(\ha, MarshalMemberEvent(v1))
           p2 == Varint(\h10, v2)
           p3 == Varint(\h18, v3)
           m0 == [MemberEvent |-> Zero["MemberEvent"], Index |-> 0, To |-> 0]
           m1 == [MemberEvent |-> v1, Index |-> 0, To |-> 0]
           m2 == [MemberEvent |-> v1, Index |-> v2, To |-> 0]
           m3 == [MemberEvent |-> v1, Index |-> v2, To |-> v3]
           c3 == none
           c2 == p3 \o c3
           c1 == p2 \o c2
           c0 == p1 \o c1
           b == MarshalMemberEvent(v1)
<1>1. m = m3 /\ v1 \in AMemberEvent /\ v2 \in Wide /\ v3 \in Narrow
      BY DEF ASendSnapshot
<1>2. p1 \in Seq(Nat) /\ p2 \in Seq(Nat) /\ p3 \in Seq(Nat)
  <2> HIDE DEF v1, v2, v3
  <2> QED
      BY <1>1, MemberPart, UintWritten
<1>3. Carries(FieldsOf[type], 1, p1, b) /\ p1 # <<>> /\ NestedPartIs(type, 1, m0, b, v1) /\ Puts(type,
          1, v1, m0, m1)
  <2> DEFINE f == FieldsOf[type][1]
  <2>1. f = Part("MemberEvent", "MemberEvent") /\ 1 \in DOMAIN FieldsOf[type]
        BY SendSnapshotFacts
  <2>2. f.name = "MemberEvent" /\ f.store = "part" /\ f.wire = 2 /\ f.type = "MemberEvent"
        BY <2>1 DEF Part
  <2>3. b \in Seq(Nat) /\ Len(b) < pow2[WideBits - 1]
        BY <1>1, MemberPart
  <2>4. Carries(FieldsOf[type], 1, p1, b) /\ p1 # <<>>
    <3>1. \ha \in Nat /\ \ha < 128 /\ \ha % 8 = 2 /\ \ha >= 8 /\ \ha \div 8 = 1
          OBVIOUS
    <3> HIDE DEF b, f
    <3> QED
        BY <2>1, <2>2, <2>3, <3>1, DelimitedCarries DEF b, f
  <2>5. UnmarshalFlat("MemberEvent", Zero["MemberEvent"], b) = Read(v1, <<>>)
        BY <1>1, MemberEventRead
  <2>6. m0["MemberEvent"] = Zero["MemberEvent"]
        OBVIOUS
  <2> HIDE DEF v1, v2, v3
  <2>7. m1 = [m0 EXCEPT !["MemberEvent"] = v1]
        OBVIOUS
  <2> HIDE DEF m0, m1, m2, m3, p1, p2, p3, b
  <2>8. NestedPartIs(type, 1, m0, b, v1)
        BY <2>1, <2>2, <2>5, <2>6 DEF NestedPartIs
  <2>9. Puts(type, 1, v1, m0, m1)
    <3>1. \A old : Stored(f, old, v1) = v1
          BY <2>2 DEF Stored
    <3> QED
        BY <2>2, <2>7, <3>1 DEF Puts
  <2> QED
      BY <2>4, <2>8, <2>9
<1>4. Tells(type, "Index", 0, p2, v2) /\ Becomes(m1, "Index", 0, v2, m2)
  <2>1. Tagged(type, \h10, 2, Uint64("Index"))
        BY SendSnapshotFacts DEF Tagged, Uint64
  <2> HIDE DEF v1, v2, v3
  <2>2. Tells(type, "Index", 0, p2, v2)
        BY <1>1, <2>1, UintTells
  <2> HIDE DEF none, p1, p2, p3
  <2>3. Becomes(m1, "Index", 0, v2, m2)
        BY DEF Becomes
  <2> QED
      BY <2>2, <2>3
<1>5. Tells(type, "To", 0, p3, v3) /\ Becomes(m2, "To", 0, v3, m3)
  <2>1. Tagged(type, \h18, 3, Uint32("To"))
        BY SendSnapshotFacts DEF Tagged, Uint32
  <2> HIDE DEF v1, v2, v3
  <2>2. Tells(type, "To", 0, p3, v3)
        BY <1>1, <2>1, UintTells
  <2> HIDE DEF none, p1, p2, p3
  <2>3. Becomes(m2, "To", 0, v3, m3)
        BY DEF Becomes
  <2> QED
      BY <2>2, <2>3
<1>6. c3 \in Seq(Nat) /\ c2 \in Seq(Nat) /\ c1 \in Seq(Nat)
  <2> HIDE DEF p1, p2, p3
  <2> QED
      BY <1>2
<1>7. UnmarshalNested(type, m3, c3) = Read(m, <<>>)
      BY <1>1, NestedEnd
<1>8. MarshalSendSnapshot(m) = c0
  <2>1. MarshalSendSnapshot(m) = p1 \o p2 \o p3
        BY DEF MarshalSendSnapshot, MarshalMember
  <2> HIDE DEF p1, p2, p3
  <2>2. MarshalSendSnapshot(m) = Three(p1, p2, p3)
        BY <2>1 DEF Three
  <2> QED
      BY <1>2, <2>2, Joined3
<1>9. Zero[type] = m0
      BY SendSnapshotFacts
<1>10. c2 = p3 \o c3 /\ c1 = p2 \o c2 /\ c0 = p1 \o c1
      OBVIOUS
<1> HIDE DEF none, v1, v2, v3, p1, p2, p3, m0, m1, m2, m3, c0, c1, c2, c3, b
<1>11. UnmarshalNested(type, m2, c2) = Read(m, <<>>)
  <2>1. c2 = p3 \o c3 /\ c3 \in Seq(Nat)
        BY <1>6, <1>10
  <2> QED
      BY <1>5, <1>7, <2>1, NestedTold
<1>12. UnmarshalNested(type, m1, c1) = Read(m, <<>>)
  <2>1. c1 = p2 \o c2 /\ c2 \in Seq(Nat)
        BY <1>6, <1>10
  <2> QED
      BY <1>4, <1>11, <2>1, NestedTold
<1>13. UnmarshalNested(type, m0, c0) = Read(m, <<>>)
  <2>1. c0 = p1 \o c1 /\ c1 \in Seq(Nat)
        BY <1>6, <1>10
  <2> QED
      BY <1>3, <1>12, <2>1, NestedPart
<1> QED
    BY <1>13, <1>8, <1>9

\* The bytes of a SnapshotReceivedEvent are as many as its size.
LEMMA SnapshotReceivedWritten ==
  ASSUME NEW m \in ASnapshotReceived
  PROVE /\ MarshalSnapshotReceivedEvent(m) \in Seq(Nat)
            /\ Len(MarshalSnapshotReceivedEvent(m)) = SizeSnapshotReceivedEvent(m)
        /\ SizeSnapshotReceivedEvent(m) \in 0..(5 * (1 + MaxGroups))
<1> DEFINE p1 == Delimited(\ha, MarshalMemberEvent(m.MemberEvent))
           p2 == Varint(\h10, m.Index)
           p3 == Varint(\h18, m.From)
           s1 == DelimitedSize(SizeMemberEvent(m.MemberEvent))
           s2 == VarintSize(m.Index)
           s3 == VarintSize(m.From)
<1>1. p1 \in Seq(Nat) /\ Len(p1) = s1 /\ s1 \in 0..(3 * (1 + MaxGroups))
  <2>1. m.MemberEvent \in AMemberEvent
        BY DEF ASnapshotReceived
  <2> QED
      BY <2>1, MemberPart
<1>2. p2 \in Seq(Nat) /\ Len(p2) = s2 /\ s2 \in 0..(1 + MaxGroups)
  <2>1. m.Index \in Wide
        BY DEF ASnapshotReceived
  <2> QED
      BY <2>1, UintWritten
<1>3. p3 \in Seq(Nat) /\ Len(p3) = s3 /\ s3 \in 0..(1 + MaxGroups)
  <2>1. m.From \in Narrow
        BY DEF ASnapshotReceived
  <2> QED
      BY <2>1, UintWritten
<1>4. MarshalSnapshotReceivedEvent(m) = p1 \o p2 \o p3 /\ SizeSnapshotReceivedEvent(m) = s1 + s2 + s3
      BY DEF MarshalSnapshotReceivedEvent, SizeSnapshotReceivedEvent, MarshalMember, SizeMember
<1> HIDE DEF p1, p2, p3, s1, s2, s3
<1>5. MarshalSnapshotReceivedEvent(m) \in Seq(Nat)
          /\ Len(MarshalSnapshotReceivedEvent(m)) = Len(p1) + Len(p2) + Len(p3)
  <2>1. MarshalSnapshotReceivedEvent(m) = Three(p1, p2, p3)
        BY <1>4 DEF Three
  <2>2. Sized(p1, s1) /\ Sized(p2, s2) /\ Sized(p3, s3)
        BY <1>1, <1>2, <1>3, GroupsBound DEF Sized
  <2>3. Sized(Three(p1, p2, p3), s1 + s2 + s3)
        BY <2>2, Length3
  <2> QED
      BY <1>1, <1>2, <1>3, <2>1, <2>3 DEF Sized
<1>6. SizeSnapshotReceivedEvent(m) \in 0..(5 * (1 + MaxGroups))
  <2>1. s1 \in 0..(3 * (1 + MaxGroups)) /\ s2 \in 0..(1 + MaxGroups) /\ s3 \in 0..(1 + MaxGroups)
        BY <1>1, <1>2, <1>3
  <2>2. s1 + s2 + s3 \in 0..(5 * (1 + MaxGroups))
        BY ONLY <2>1, GroupsBound
  <2> QED
      BY <1>4, <2>2
<1> QED
    BY <1>1, <1>2, <1>3, <1>4, <1>5, <1>6

\* The bytes of a SnapshotReceivedEvent are read into a new message, which is then the one written.
LEMMA SnapshotReceivedRead ==
  ASSUME NEW m \in ASnapshotReceived
  PROVE UnmarshalNested("SnapshotReceivedEvent", Zero["SnapshotReceivedEvent"],
            MarshalSnapshotReceivedEvent(m)) = Read(m, <<>>)
<1> DEFINE none == <<>>
           v1 == m.MemberEvent
           v2 == m.Index
           v3 == m.From
           p1 == Delimited(\ha, MarshalMemberEvent(v1))
           p2 == Varint(\h10, v2)
           p3 == Varint(\h18, v3)
           m0 == [MemberEvent |-> Zero["MemberEvent"], Index |-> 0, From |-> 0]
           m1 == [MemberEvent |-> v1, Index |-> 0, From |-> 0]
           m2 == [MemberEvent |-> v1, Index |-> v2, From |-> 0]
           m3 == [MemberEvent |-> v1, Index |-> v2, From |-> v3]
           c3 == none
           c2 == p3 \o c3
           c1 == p2 \o c2
           c0 == p1 \o c1
           b == MarshalMemberEvent(v1)
<1>1. m = m3 /\ v1 \in AMemberEvent /\ v2 \in Wide /\ v3 \in Narrow
      BY DEF ASnapshotReceived
<1>2. p1 \in Seq(Nat) /\ p2 \in Seq(Nat) /\ p3 \in Seq(Nat)
  <2> HIDE DEF v1, v2, v3
  <2> QED
      BY <1>1, MemberPart, UintWritten
<1>3. Carries(FieldsOf["SnapshotReceivedEvent"], 1, p1, b) /\ p1 # <<>>
          /\ NestedPartIs("SnapshotReceivedEvent", 1, m0, b, v1) /\ Puts("SnapshotReceivedEvent", 1, v1, m0, m1)
  <2> DEFINE f == FieldsOf["SnapshotReceivedEvent"][1]
  <2>1. f = Part("MemberEvent", "MemberEvent") /\ 1 \in DOMAIN FieldsOf["SnapshotReceivedEvent"]
        BY SnapshotReceivedFacts
  <2>2. f.name = "MemberEvent" /\ f.store = "part" /\ f.wire = 2 /\ f.type = "MemberEvent"
        BY <2>1 DEF Part
  <2>3. b \in Seq(Nat) /\ Len(b) < pow2[WideBits - 1]
        BY <1>1, MemberPart
  <2>4. Carries(FieldsOf["SnapshotReceivedEvent"], 1, p1, b) /\ p1 # <<>>
    <3>1. \ha \in Nat /\ \ha < 128 /\ \ha % 8 = 2 /\ \ha >= 8 /\ \ha \div 8 = 1
          OBVIOUS
    <3> HIDE DEF b, f
    <3> QED
        BY <2>1, <2>2, <2>3, <3>1, DelimitedCarries DEF b, f
  <2>5. UnmarshalFlat("MemberEvent", Zero["MemberEvent"], b) = Read(v1, <<>>)
        BY <1>1, MemberEventRead
  <2>6. m0["MemberEvent"] = Zero["MemberEvent"]
        OBVIOUS
  <2> HIDE DEF v1, v2, v3
  <2>7. m1 = [m0 EXCEPT !["MemberEvent"] = v1]
        OBVIOUS
  <2> HIDE DEF m0, m1, m2, m3, p1, p2, p3, b
  <2>8. NestedPartIs("SnapshotReceivedEvent", 1, m0, b, v1)
        BY <2>1, <2>2, <2>5, <2>6 DEF NestedPartIs
  <2>9. Puts("SnapshotReceivedEvent", 1, v1, m0, m1)
    <3>1. \A old : Stored(f, old, v1) = v1
          BY <2>2 DEF Stored
    <3> QED
        BY <2>2, <2>7, <3>1 DEF Puts
  <2> QED
      BY <2>4, <2>8, <2>9
<1>4. Tells("SnapshotReceivedEvent", "Index", 0, p2, v2) /\ Becomes(m1, "Index", 0, v2, m2)
  <2>1. Tagged("SnapshotReceivedEvent", \h10, 2, Uint64("Index"))
        BY SnapshotReceivedFacts DEF Tagged, Uint64
  <2> HIDE DEF v1, v2, v3
  <2>2. Tells("SnapshotReceivedEvent", "Index", 0, p2, v2)
        BY <1>1, <2>1, UintTells
  <2> HIDE DEF none, p1, p2, p3
  <2>3. Becomes(m1, "Index", 0, v2, m2)
        BY DEF Becomes
  <2> QED
      BY <2>2, <2>3
<1>5. Tells("SnapshotReceivedEvent", "From", 0, p3, v3) /\ Becomes(m2, "From", 0, v3, m3)
  <2>1. Tagged("SnapshotReceivedEvent", \h18, 3, Uint32("From"))
        BY SnapshotReceivedFacts DEF Tagged, Uint32
  <2> HIDE DEF v1, v2, v3
  <2>2. Tells("SnapshotReceivedEvent", "From", 0, p3, v3)
        BY <1>1, <2>1, UintTells
  <2> HIDE DEF none, p1, p2, p3
  <2>3. Becomes(m2, "From", 0, v3, m3)
        BY DEF Becomes
  <2> QED
      BY <2>2, <2>3
<1>6. c3 \in Seq(Nat) /\ c2 \in Seq(Nat) /\ c1 \in Seq(Nat)
  <2> HIDE DEF p1, p2, p3
  <2> QED
      BY <1>2
<1>7. UnmarshalNested("SnapshotReceivedEvent", m3, c3) = Read(m, <<>>)
      BY <1>1, NestedEnd
<1>8. MarshalSnapshotReceivedEvent(m) = c0
  <2>1. MarshalSnapshotReceivedEvent(m) = p1 \o p2 \o p3
        BY DEF MarshalSnapshotReceivedEvent, MarshalMember
  <2> HIDE DEF p1, p2, p3
  <2>2. MarshalSnapshotReceivedEvent(m) = Three(p1, p2, p3)
        BY <2>1 DEF Three
  <2> QED
      BY <1>2, <2>2, Joined3
<1>9. Zero["SnapshotReceivedEvent"] = m0
      BY SnapshotReceivedFacts
<1>10. c2 = p3 \o c3 /\ c1 = p2 \o c2 /\ c0 = p1 \o c1
      OBVIOUS
<1> HIDE DEF none, v1, v2, v3, p1, p2, p3, m0, m1, m2, m3, c0, c1, c2, c3, b
<1>11. UnmarshalNested("SnapshotReceivedEvent", m2, c2) = Read(m, <<>>)
  <2>1. c2 = p3 \o c3 /\ c3 \in Seq(Nat)
        BY <1>6, <1>10
  <2> QED
      BY <1>5, <1>7, <2>1, NestedTold
<1>12. UnmarshalNested("SnapshotReceivedEvent", m1, c1) = Read(m, <<>>)
  <2>1. c1 = p2 \o c2 /\ c2 \in Seq(Nat)
        BY <1>6, <1>10
  <2> QED
      BY <1>4, <1>11, <2>1, NestedTold
<1>13. UnmarshalNested("SnapshotReceivedEvent", m0, c0) = Read(m, <<>>)
  <2>1. c0 = p1 \o c1 /\ c1 \in Seq(Nat)
        BY <1>6, <1>10
  <2> QED
      BY <1>3, <1>12, <2>1, NestedPart
<1> QED
    BY <1>13, <1>8, <1>9

\* The bytes of the events of an index are as many as its size.
LEMMA IndexedWritten ==
  ASSUME NEW m \in AIndexed
  PROVE /\ MarshalIndexed(m) \in Seq(Nat) /\ Len(MarshalIndexed(m)) = SizeIndexed(m)
        /\ SizeIndexed(m) \in 0..(4 * (1 + MaxGroups))
<1> DEFINE p1 == Delimited(\ha, MarshalMemberEvent(m.MemberEvent))
           p2 == Varint(\h10, m.Index)
           s1 == DelimitedSize(SizeMemberEvent(m.MemberEvent))
           s2 == VarintSize(m.Index)
<1>1. p1 \in Seq(Nat) /\ Len(p1) = s1 /\ s1 \in 0..(3 * (1 + MaxGroups))
  <2>1. m.MemberEvent \in AMemberEvent
        BY DEF AIndexed
  <2> QED
      BY <2>1, MemberPart
<1>2. p2 \in Seq(Nat) /\ Len(p2) = s2 /\ s2 \in 0..(1 + MaxGroups)
  <2>1. m.Index \in Wide
        BY DEF AIndexed
  <2> QED
      BY <2>1, UintWritten
<1>3. MarshalIndexed(m) = p1 \o p2 /\ SizeIndexed(m) = s1 + s2
      BY DEF MarshalIndexed, SizeIndexed, MarshalMember, SizeMember
<1> HIDE DEF p1, p2, s1, s2
<1>4. MarshalIndexed(m) \in Seq(Nat) /\ Len(MarshalIndexed(m)) = Len(p1) + Len(p2)
      BY <1>1, <1>2, <1>3, Joined2
<1>5. SizeIndexed(m) \in 0..(4 * (1 + MaxGroups))
  <2>1. s1 \in 0..(3 * (1 + MaxGroups)) /\ s2 \in 0..(1 + MaxGroups)
        BY <1>1, <1>2
  <2>2. s1 + s2 \in 0..(4 * (1 + MaxGroups))
        BY ONLY <2>1, GroupsBound
  <2> QED
      BY <1>3, <2>2
<1> QED
    BY <1>1, <1>2, <1>3, <1>4, <1>5

\* The bytes of the events of an index are read into a new message, which is then the one written.
LEMMA IndexedRead ==
  ASSUME NEW type \in {"SnapshotRecoveredEvent", "SnapshotCreatedEvent", "SnapshotCompactedEvent",
            "LogCompactedEvent", "LogDBCompactedEvent"},
         NEW m \in AIndexed
  PROVE UnmarshalNested(type, Zero[type], MarshalIndexed(m)) = Read(m, <<>>)
<1> DEFINE none == <<>>
           v1 == m.MemberEvent
           v2 == m.Index
           p1 == Delimited(\ha, MarshalMemberEvent(v1))
           p2 == Varint(\h10, v2)
           m0 == [MemberEvent |-> Zero["MemberEvent"], Index |-> 0]
           m1 == [MemberEvent |-> v1, Index |-> 0]
           m2 == [MemberEvent |-> v1, Index |-> v2]
           c2 == none
           c1 == p2 \o c2
           c0 == p1 \o c1
           b == MarshalMemberEvent(v1)
<1>1. m = m2 /\ v1 \in AMemberEvent /\ v2 \in Wide
      BY DEF AIndexed
<1>2. p1 \in Seq(Nat) /\ p2 \in Seq(Nat)
  <2> HIDE DEF v1, v2
  <2> QED
      BY <1>1, MemberPart, UintWritten
<1>3. Carries(FieldsOf[type], 1, p1, b) /\ p1 # <<>> /\ NestedPartIs(type, 1, m0, b, v1) /\ Puts(type,
          1, v1, m0, m1)
  <2> DEFINE f == FieldsOf[type][1]
  <2>1. f = Part("MemberEvent", "MemberEvent") /\ 1 \in DOMAIN FieldsOf[type]
        BY IndexedFacts
  <2>2. f.name = "MemberEvent" /\ f.store = "part" /\ f.wire = 2 /\ f.type = "MemberEvent"
        BY <2>1 DEF Part
  <2>3. b \in Seq(Nat) /\ Len(b) < pow2[WideBits - 1]
        BY <1>1, MemberPart
  <2>4. Carries(FieldsOf[type], 1, p1, b) /\ p1 # <<>>
    <3>1. \ha \in Nat /\ \ha < 128 /\ \ha % 8 = 2 /\ \ha >= 8 /\ \ha \div 8 = 1
          OBVIOUS
    <3> HIDE DEF b, f
    <3> QED
        BY <2>1, <2>2, <2>3, <3>1, DelimitedCarries DEF b, f
  <2>5. UnmarshalFlat("MemberEvent", Zero["MemberEvent"], b) = Read(v1, <<>>)
        BY <1>1, MemberEventRead
  <2>6. m0["MemberEvent"] = Zero["MemberEvent"]
        OBVIOUS
  <2> HIDE DEF v1, v2
  <2>7. m1 = [m0 EXCEPT !["MemberEvent"] = v1]
        OBVIOUS
  <2> HIDE DEF m0, m1, m2, p1, p2, b
  <2>8. NestedPartIs(type, 1, m0, b, v1)
        BY <2>1, <2>2, <2>5, <2>6 DEF NestedPartIs
  <2>9. Puts(type, 1, v1, m0, m1)
    <3>1. \A old : Stored(f, old, v1) = v1
          BY <2>2 DEF Stored
    <3> QED
        BY <2>2, <2>7, <3>1 DEF Puts
  <2> QED
      BY <2>4, <2>8, <2>9
<1>4. Tells(type, "Index", 0, p2, v2) /\ Becomes(m1, "Index", 0, v2, m2)
  <2>1. Tagged(type, \h10, 2, Uint64("Index"))
        BY IndexedFacts DEF Tagged, Uint64
  <2> HIDE DEF v1, v2
  <2>2. Tells(type, "Index", 0, p2, v2)
        BY <1>1, <2>1, UintTells
  <2> HIDE DEF none, p1, p2
  <2>3. Becomes(m1, "Index", 0, v2, m2)
        BY DEF Becomes
  <2> QED
      BY <2>2, <2>3
<1>5. c2 \in Seq(Nat) /\ c1 \in Seq(Nat)
  <2> HIDE DEF p1, p2
  <2> QED
      BY <1>2
<1>6. UnmarshalNested(type, m2, c2) = Read(m, <<>>)
      BY <1>1, NestedEnd
<1>7. MarshalIndexed(m) = c0
  <2>1. MarshalIndexed(m) = p1 \o p2
        BY DEF MarshalIndexed, MarshalMember
  <2> HIDE DEF p1, p2
  <2> QED
      BY <1>2, <2>1, Joined2
<1>8. Zero[type] = m0
      BY IndexedFacts
<1>9. c1 = p2 \o c2 /\ c0 = p1 \o c1
      OBVIOUS
<1> HIDE DEF none, v1, v2, p1, p2, m0, m1, m2, c0, c1, c2, b
<1>10. UnmarshalNested(type, m1, c1) = Read(m, <<>>)
  <2>1. c1 = p2 \o c2 /\ c2 \in Seq(Nat)
        BY <1>5, <1>9
  <2> QED
      BY <1>4, <1>6, <2>1, NestedTold
<1>11. UnmarshalNested(type, m0, c0) = Read(m, <<>>)
  <2>1. c0 = p1 \o c1 /\ c1 \in Seq(Nat)
        BY <1>5, <1>9
  <2> QED
      BY <1>3, <1>10, <2>1, NestedPart
<1> QED
    BY <1>11, <1>7, <1>8

\* The bytes of the events of a connection are as many as its size.
LEMMA OfConnectionWritten ==
  ASSUME NEW m \in AOfConnection
  PROVE /\ MarshalOfConnection(m) \in Seq(Nat) /\ Len(MarshalOfConnection(m)) = SizeOfConnection(m)
        /\ SizeOfConnection(m) \in 0..(2 * (1 + MaxGroups) + Len(m.ConnectionInfo.Address) + 2)
<1> DEFINE p1 == Delimited(\ha, MarshalConnectionInfo(m.ConnectionInfo))
           s1 == DelimitedSize(SizeConnectionInfo(m.ConnectionInfo))
<1>1. p1 \in Seq(Nat) /\ Len(p1) = s1 /\ s1 \in 0..(2 * (1 + MaxGroups) + Len(m.ConnectionInfo.Address) + 2)
  <2>1. m.ConnectionInfo \in AConnectionInfo
        BY DEF AOfConnection
  <2> QED
      BY <2>1, ConnectionPart
<1>2. MarshalOfConnection(m) = p1 /\ SizeOfConnection(m) = s1
      BY DEF MarshalOfConnection, SizeOfConnection
<1> HIDE DEF p1, s1
<1>3. MarshalOfConnection(m) \in Seq(Nat) /\ Len(MarshalOfConnection(m)) = Len(p1)
      BY <1>1, <1>2
<1>4. SizeOfConnection(m) \in 0..(2 * (1 + MaxGroups) + Len(m.ConnectionInfo.Address) + 2)
  <2> DEFINE h == Len(m.ConnectionInfo.Address)
  <2>1. s1 \in 0..(2 * (1 + MaxGroups) + h + 2) /\ h \in Nat
        BY <1>1
  <2> HIDE DEF h
  <2>2. s1 \in 0..(2 * (1 + MaxGroups) + h + 2)
        BY ONLY <2>1, GroupsBound
  <2> QED
      BY <1>2, <2>2 DEF h
<1> QED
    BY <1>1, <1>2, <1>3, <1>4

\* The bytes of the events of a connection are read into a new message, which is then the one written.
LEMMA OfConnectionRead ==
  ASSUME NEW type \in {"ConnectionEstablishedEvent", "ConnectionFailedEvent"},
         NEW m \in AOfConnection
  PROVE UnmarshalNested(type, Zero[type], MarshalOfConnection(m)) = Read(m, <<>>)
<1> DEFINE none == <<>>
           v1 == m.ConnectionInfo
           p1 == Delimited(\ha, MarshalConnectionInfo(v1))
           m0 == [ConnectionInfo |-> Zero["ConnectionInfo"]]
           m1 == [ConnectionInfo |-> v1]
           c1 == none
           c0 == p1 \o c1
           b == MarshalConnectionInfo(v1)
<1>1. m = m1 /\ v1 \in AConnectionInfo
      BY DEF AOfConnection
<1>2. p1 \in Seq(Nat)
  <2> HIDE DEF v1
  <2> QED
      BY <1>1, ConnectionPart
<1>3. Carries(FieldsOf[type], 1, p1, b) /\ p1 # <<>> /\ NestedPartIs(type, 1, m0, b, v1) /\ Puts(type,
          1, v1, m0, m1)
  <2> DEFINE f == FieldsOf[type][1]
  <2>1. f = Part("ConnectionInfo", "ConnectionInfo") /\ 1 \in DOMAIN FieldsOf[type]
        BY OfConnectionFacts
  <2>2. f.name = "ConnectionInfo" /\ f.store = "part" /\ f.wire = 2 /\ f.type = "ConnectionInfo"
        BY <2>1 DEF Part
  <2>3. b \in Seq(Nat) /\ Len(b) < pow2[WideBits - 1]
        BY <1>1, ConnectionPart
  <2>4. Carries(FieldsOf[type], 1, p1, b) /\ p1 # <<>>
    <3>1. \ha \in Nat /\ \ha < 128 /\ \ha % 8 = 2 /\ \ha >= 8 /\ \ha \div 8 = 1
          OBVIOUS
    <3> HIDE DEF b, f
    <3> QED
        BY <2>1, <2>2, <2>3, <3>1, DelimitedCarries DEF b, f
  <2>5. UnmarshalFlat("ConnectionInfo", Zero["ConnectionInfo"], b) = Read(v1, <<>>)
        BY <1>1, ConnectionInfoRead
  <2>6. m0["ConnectionInfo"] = Zero["ConnectionInfo"]
        OBVIOUS
  <2> HIDE DEF v1
  <2>7. m1 = [m0 EXCEPT !["ConnectionInfo"] = v1]
        OBVIOUS
  <2> HIDE DEF m0, m1, p1, b
  <2>8. NestedPartIs(type, 1, m0, b, v1)
        BY <2>1, <2>2, <2>5, <2>6 DEF NestedPartIs
  <2>9. Puts(type, 1, v1, m0, m1)
    <3>1. \A old : Stored(f, old, v1) = v1
          BY <2>2 DEF Stored
    <3> QED
        BY <2>2, <2>7, <3>1 DEF Puts
  <2> QED
      BY <2>4, <2>8, <2>9
<1>4. c1 \in Seq(Nat)
  <2> HIDE DEF p1
  <2> QED
      BY <1>2
<1>5. UnmarshalNested(type, m1, c1) = Read(m, <<>>)
      BY <1>1, NestedEnd
<1>6. MarshalOfConnection(m) = c0
  <2>1. MarshalOfConnection(m) = p1
        BY DEF MarshalOfConnection
  <2> HIDE DEF p1
  <2> QED
      BY <1>2, <2>1, Joined1
<1>7. Zero[type] = m0
      BY OfConnectionFacts
<1>8. c0 = p1 \o c1
      OBVIOUS
<1> HIDE DEF none, v1, p1, m0, m1, c0, c1, b
<1>9. UnmarshalNested(type, m0, c0) = Read(m, <<>>)
  <2>1. c0 = p1 \o c1 /\ c1 \in Seq(Nat)
        BY <1>4, <1>8
  <2> QED
      BY <1>3, <1>5, <2>1, NestedPart
<1> QED
    BY <1>9, <1>6, <1>7

\* The bytes of a RaftProposal are as many as its size.
LEMMA RaftProposalWritten ==
  ASSUME NEW m \in ARaftProposal
  PROVE /\ MarshalRaftProposal(m) \in Seq(Nat) /\ Len(MarshalRaftProposal(m)) = SizeRaftProposal(m)
<1> DEFINE p1 == Varint(\h8, m.Term)
           p2 == Varint(\h10, m.SequenceNum)
           p3 == Text(\h1a, m.Data)
           s1 == VarintSize(m.Term)
           s2 == VarintSize(m.SequenceNum)
           s3 == TextSize(m.Data)
<1>1. p1 \in Seq(Nat) /\ Len(p1) = s1 /\ s1 \in 0..(1 + MaxGroups)
  <2>1. m.Term \in Wide
        BY DEF ARaftProposal
  <2> QED
      BY <2>1, UintWritten
<1>2. p2 \in Seq(Nat) /\ Len(p2) = s2 /\ s2 \in 0..(1 + MaxGroups)
  <2>1. m.SequenceNum \in Wide
        BY DEF ARaftProposal
  <2> QED
      BY <2>1, UintWritten
<1>3. p3 \in Seq(Nat) /\ Len(p3) = s3 /\ s3 \in 0..(1 + MaxGroups + Len(m.Data)) /\ Len(m.Data) \in Nat
  <2>1. m.Data \in Short
        BY DEF ARaftProposal
  <2> QED
      BY <2>1, TextShort
<1>4. MarshalRaftProposal(m) = p1 \o p2 \o p3 /\ SizeRaftProposal(m) = s1 + s2 + s3
      BY DEF MarshalRaftProposal, SizeRaftProposal
<1> HIDE DEF p1, p2, p3, s1, s2, s3
<1>5. MarshalRaftProposal(m) \in Seq(Nat) /\ Len(MarshalRaftProposal(m)) = Len(p1) + Len(p2) + Len(p3)
  <2>1. MarshalRaftProposal(m) = Three(p1, p2, p3)
        BY <1>4 DEF Three
  <2>2. Sized(p1, s1) /\ Sized(p2, s2) /\ Sized(p3, s3)
        BY <1>1, <1>2, <1>3, GroupsBound DEF Sized
  <2>3. Sized(Three(p1, p2, p3), s1 + s2 + s3)
        BY <2>2, Length3
  <2> QED
      BY <1>1, <1>2, <1>3, <2>1, <2>3 DEF Sized
<1> QED
    BY <1>1, <1>2, <1>3, <1>4, <1>5

\* The bytes of a RaftProposal are read into a new message, which is then the one written.
LEMMA RaftProposalRead ==
  ASSUME NEW m \in ARaftProposal, NEW rest, AreBytes(rest),
         UnmarshalInto("RaftProposal", m, rest) = Read(m, <<>>)
  PROVE UnmarshalInto("RaftProposal", Zero["RaftProposal"], MarshalRaftProposal(m) \o rest) = Read(m, <<>>)
<1> DEFINE none == <<>>
           v1 == m.Term
           v2 == m.SequenceNum
           v3 == m.Data
           p1 == Varint(\h8, v1)
           p2 == Varint(\h10, v2)
           p3 == Text(\h1a, v3)
           m0 == [Term |-> 0, SequenceNum |-> 0, Data |-> none]
           m1 == [Term |-> v1, SequenceNum |-> 0, Data |-> none]
           m2 == [Term |-> v1, SequenceNum |-> v2, Data |-> none]
           m3 == [Term |-> v1, SequenceNum |-> v2, Data |-> v3]
           c3 == rest
           c2 == p3 \o c3
           c1 == p2 \o c2
           c0 == p1 \o c1
<1>1. m = m3 /\ v1 \in Wide /\ v2 \in Wide /\ v3 \in Short
      BY DEF ARaftProposal
<1>2. p1 \in Seq(Nat) /\ p2 \in Seq(Nat) /\ p3 \in Seq(Nat)
  <2> HIDE DEF v1, v2, v3
  <2> QED
      BY <1>1, UintWritten, TextShort
<1>3. Tells("RaftProposal", "Term", 0, p1, v1) /\ Becomes(m0, "Term", 0, v1, m1)
  <2>1. Tagged("RaftProposal", \h8, 1, Uint64("Term"))
        BY RaftProposalFacts DEF Tagged, Uint64
  <2> HIDE DEF v1, v2, v3
  <2>2. Tells("RaftProposal", "Term", 0, p1, v1)
        BY <1>1, <2>1, UintTells
  <2> HIDE DEF none, p1, p2, p3
  <2>3. Becomes(m0, "Term", 0, v1, m1)
        BY DEF Becomes
  <2> QED
      BY <2>2, <2>3
<1>4. Tells("RaftProposal", "SequenceNum", 0, p2, v2) /\ Becomes(m1, "SequenceNum", 0, v2, m2)
  <2>1. Tagged("RaftProposal", \h10, 2, Uint64("SequenceNum"))
        BY RaftProposalFacts DEF Tagged, Uint64
  <2> HIDE DEF v1, v2, v3
  <2>2. Tells("RaftProposal", "SequenceNum", 0, p2, v2)
        BY <1>1, <2>1, UintTells
  <2> HIDE DEF none, p1, p2, p3
  <2>3. Becomes(m1, "SequenceNum", 0, v2, m2)
        BY DEF Becomes
  <2> QED
      BY <2>2, <2>3
<1>5. Tells("RaftProposal", "Data", none, p3, v3) /\ Becomes(m2, "Data", none, v3, m3)
  <2>1. Tagged("RaftProposal", \h1a, 3, Bytes("Data"))
        BY RaftProposalFacts DEF Tagged, Bytes
  <2> HIDE DEF v1, v2, v3
  <2>2. Tells("RaftProposal", "Data", none, p3, v3)
        BY <1>1, <2>1, TextTells
  <2> HIDE DEF none, p1, p2, p3
  <2>3. Becomes(m2, "Data", none, v3, m3)
        BY DEF Becomes
  <2> QED
      BY <2>2, <2>3
<1>6. c3 \in Seq(Nat) /\ c2 \in Seq(Nat) /\ c1 \in Seq(Nat)
  <2> HIDE DEF p1, p2, p3
  <2> QED
      BY <1>2, Before1 DEF AreBytes
<1>7. UnmarshalInto("RaftProposal", m3, c3) = Read(m, <<>>)
      BY <1>1
<1>8. MarshalRaftProposal(m) \o rest = c0
  <2>1. MarshalRaftProposal(m) = p1 \o p2 \o p3
        BY DEF MarshalRaftProposal
  <2> HIDE DEF p1, p2, p3
  <2>2. MarshalRaftProposal(m) = Three(p1, p2, p3)
        BY <2>1 DEF Three
  <2>3. Cat(Three(p1, p2, p3), rest) = Cat(p1, Cat(p2, Cat(p3, rest)))
    <3>1. AreBytes(p1) /\ AreBytes(p2) /\ AreBytes(p3)
          BY <1>2 DEF AreBytes
    <3> QED
        BY <3>1, Before3
  <2> QED
      BY <2>2, <2>3, Zenon DEF Cat
<1>9. Zero["RaftProposal"] = m0
      BY RaftProposalFacts
<1>10. c2 = p3 \o c3 /\ c1 = p2 \o c2 /\ c0 = p1 \o c1
      OBVIOUS
<1> HIDE DEF none, v1, v2, v3, p1, p2, p3, m0, m1, m2, m3, c0, c1, c2, c3
<1>11. UnmarshalInto("RaftProposal", m2, c2) = Read(m, <<>>)
  <2>1. c2 = p3 \o c3 /\ c3 \in Seq(Nat)
        BY <1>6, <1>10
  <2> QED
      BY <1>5, <1>7, <2>1, IntoTold
<1>12. UnmarshalInto("RaftProposal", m1, c1) = Read(m, <<>>)
  <2>1. c1 = p2 \o c2 /\ c2 \in Seq(Nat)
        BY <1>6, <1>10
  <2> QED
      BY <1>4, <1>11, <2>1, IntoTold
<1>13. UnmarshalInto("RaftProposal", m0, c0) = Read(m, <<>>)
  <2>1. c0 = p1 \o c1 /\ c1 \in Seq(Nat)
        BY <1>6, <1>10
  <2> QED
      BY <1>3, <1>12, <2>1, IntoTold
<1> QED
    BY <1>13, <1>8, <1>9

\* The bytes of a LeaveRequest are as many as its size.
LEMMA LeaveRequestWritten ==
  ASSUME NEW m \in ALeaveRequest
  PROVE /\ MarshalLeaveRequest(m) \in Seq(Nat) /\ Len(MarshalLeaveRequest(m)) = SizeLeaveRequest(m)
        /\ SizeLeaveRequest(m) \in 0..(1 * (1 + MaxGroups))
<1> DEFINE p1 == Varint(\h8, m.GroupID)
           s1 == VarintSize(m.GroupID)
<1>1. p1 \in Seq(Nat) /\ Len(p1) = s1 /\ s1 \in 0..(1 + MaxGroups)
  <2>1. m.GroupID \in Narrow
        BY DEF ALeaveRequest
  <2> QED
      BY <2>1, UintWritten
<1>2. MarshalLeaveRequest(m) = p1 /\ SizeLeaveRequest(m) = s1
      BY DEF MarshalLeaveRequest, SizeLeaveRequest
<1> HIDE DEF p1, s1
<1>3. MarshalLeaveRequest(m) \in Seq(Nat) /\ Len(MarshalLeaveRequest(m)) = Len(p1)
      BY <1>1, <1>2
<1>4. SizeLeaveRequest(m) \in 0..(1 * (1 + MaxGroups))
  <2>1. s1 \in 0..(1 + MaxGroups)
        BY <1>1
  <2>2. s1 \in 0..(1 * (1 + MaxGroups))
        BY ONLY <2>1, GroupsBound
  <2> QED
      BY <1>2, <2>2
<1> QED
    BY <1>1, <1>2, <1>3, <1>4

\* The bytes of a LeaveRequest are read into a new message, which is then the one written.
LEMMA LeaveRequestRead ==
  ASSUME NEW m \in ALeaveRequest, NEW rest, AreBytes(rest),
         UnmarshalInto("LeaveRequest", m, rest) = Read(m, <<>>)
  PROVE UnmarshalInto("LeaveRequest", Zero["LeaveRequest"], MarshalLeaveRequest(m) \o rest) = Read(m, <<>>)
<1> DEFINE none == <<>>
           v1 == m.GroupID
           p1 == Varint(\h8, v1)
           m0 == [GroupID |-> 0]
           m1 == [GroupID |-> v1]
           c1 == rest
           c0 == p1 \o c1
<1>1. m = m1 /\ v1 \in Narrow
      BY DEF ALeaveRequest
<1>2. p1 \in Seq(Nat)
  <2> HIDE DEF v1
  <2> QED
      BY <1>1, UintWritten
<1>3. Tells("LeaveRequest", "GroupID", 0, p1, v1) /\ Becomes(m0, "GroupID", 0, v1, m1)
  <2>1. Tagged("LeaveRequest", \h8, 1, Uint32("GroupID"))
        BY LeaveRequestFacts DEF Tagged, Uint32
  <2> HIDE DEF v1
  <2>2. Tells("LeaveRequest", "GroupID", 0, p1, v1)
        BY <1>1, <2>1, UintTells
  <2> HIDE DEF none, p1
  <2>3. Becomes(m0, "GroupID", 0, v1, m1)
        BY DEF Becomes
  <2> QED
      BY <2>2, <2>3
<1>4. c1 \in Seq(Nat)
  <2> HIDE DEF p1
  <2> QED
      BY <1>2, Before1 DEF AreBytes
<1>5. UnmarshalInto("LeaveRequest", m1, c1) = Read(m, <<>>)
      BY <1>1
<1>6. MarshalLeaveRequest(m) \o rest = c0
  <2>1. MarshalLeaveRequest(m) = p1
        BY DEF MarshalLeaveRequest
  <2> HIDE DEF p1
  <2> QED
      BY <1>2, <2>1, Before1
<1>7. Zero["LeaveRequest"] = m0
      BY LeaveRequestFacts
<1>8. c0 = p1 \o c1
      OBVIOUS
<1> HIDE DEF none, v1, p1, m0, m1, c0, c1
<1>9. UnmarshalInto("LeaveRequest", m0, c0) = Read(m, <<>>)
  <2>1. c0 = p1 \o c1 /\ c1 \in Seq(Nat)
        BY <1>4, <1>8
  <2> QED
      BY <1>3, <1>5, <2>1, IntoTold
<1> QED
    BY <1>9, <1>6, <1>7

-----------------------------------------------------------------------------
\* The configuration of a group: its list of members is written from the end
\* and read from the start.

AGroupConfig ==
  {m \in [GroupID : Narrow, MemberID : Narrow, Role : Narrow1, Members : Seq(AMemberConfig)] :
     SizeGroupConfig(m) < pow2[WideBits - 1]}

\* The bytes of a MemberConfig as an entry of a group's list.
LEMMA MemberConfigPart ==
  ASSUME NEW m \in AMemberConfig
  PROVE /\ AreBytes(MarshalMemberConfig(m)) /\ Len(MarshalMemberConfig(m)) < pow2[WideBits - 1]
        /\ Sized(Delimited(\h22, MarshalMemberConfig(m)), DelimitedSize(SizeMemberConfig(m)))
<1> DEFINE b == MarshalMemberConfig(m)
           n == Len(b)
           a == Len(m.Host)
<1>1. b \in Seq(Nat) /\ n = SizeMemberConfig(m) /\ n \in 0..(3 * (1 + MaxGroups) + a)
      BY MemberConfigWritten
<1>2. a \in Nat /\ a + 2 * WideBits < pow2[WideBits - 1]
      BY ShortIs DEF AMemberConfig
<1> HIDE DEF b, a
<1>3. n \in Nat /\ n < pow2[WideBits - 1] /\ n < pow2[WideBits]
  <2>1. n \in 0..(3 * (1 + MaxGroups) + a)
        BY <1>1
  <2> HIDE DEF n
  <2> QED
      BY <1>2, <2>1, GroupsBound, Widths
<1>4. /\ Delimited(\h22, b) \in Seq(Nat) /\ Len(Delimited(\h22, b)) = DelimitedSize(n)
      /\ DelimitedSize(n) \in n..(1 + n + MaxGroups)
      BY <1>1, <1>3, DelimitedWritten
<1>5. Sized(Delimited(\h22, b), DelimitedSize(n))
  <2>1. DelimitedSize(n) \in Nat
        BY <1>3, <1>4
  <2> QED
      BY <1>4, <2>1 DEF Sized
<1> QED
    BY <1>1, <1>3, <1>5 DEF b, AreBytes

\* The loops of the writer and of its size.
LastRun(list) ==
  LET last[n \in Nat] ==
        IF n = 0 THEN <<>> ELSE MarshalEntry(list[Len(list) - n + 1], last[n - 1])
  IN last
FirstRun(list) ==
  LET first[n \in Nat] ==
        IF n = 0 THEN 0 ELSE first[n - 1] + DelimitedSize(SizeMemberConfig(list[n]))
  IN first

\* The turns of the loop that writes the list from its end.
LEMMA LastTurns ==
  ASSUME NEW list
  PROVE /\ MarshalMembers(list) = LastRun(list)[Len(list)]
        /\ LastRun(list)[0] = <<>>
        /\ \A n \in Nat : LastRun(list)[n + 1] = MarshalEntry(list[Len(list) - (n + 1) + 1], LastRun(list)[n])
<1> DEFINE none == <<>>
           entry(n) == list[Len(list) - n + 1]
           f[n \in Nat] == IF n = 0 THEN none ELSE MarshalEntry(entry(n), f[n - 1])
<1>1. MarshalMembers(list) = f[Len(list)]
      BY DEF MarshalMembers
<1>2. f = [n \in Nat |-> IF n = 0 THEN none ELSE MarshalEntry(entry(n), f[n - 1])]
  <2> HIDE DEF none, entry
  <2> QED
      OBVIOUS
<1>3. f = LastRun(list)
      BY DEF LastRun
<1> HIDE DEF f, none
<1>4. f[0] = none
      BY <1>2
<1>5. ASSUME NEW n \in Nat PROVE f[n + 1] = MarshalEntry(entry(n + 1), f[n])
  <2> HIDE DEF entry
  <2>1. n + 1 \in Nat /\ n + 1 # 0 /\ (n + 1) - 1 = n
        OBVIOUS
  <2> QED
      BY <1>2, <2>1
<1> QED
    BY <1>1, <1>3, <1>4, <1>5 DEF none

\* The turns of the loop that counts the list from its start.
LEMMA FirstTurns ==
  ASSUME NEW list
  PROVE /\ SizeMembers(list) = FirstRun(list)[Len(list)]
        /\ FirstRun(list)[0] = 0
        /\ \A n \in Nat : FirstRun(list)[n + 1] = FirstRun(list)[n] + DelimitedSize(SizeMemberConfig(list[n + 1]))
<1> DEFINE f[n \in Nat] == IF n = 0 THEN 0 ELSE f[n - 1] + DelimitedSize(SizeMemberConfig(list[n]))
<1>1. SizeMembers(list) = f[Len(list)]
      BY DEF SizeMembers
<1>2. f = [n \in Nat |-> IF n = 0 THEN 0 ELSE f[n - 1] + DelimitedSize(SizeMemberConfig(list[n]))]
      OBVIOUS
<1>3. f = FirstRun(list)
      BY DEF FirstRun
<1> HIDE DEF f
<1>4. f[0] = 0
      BY <1>2
<1>5. ASSUME NEW n \in Nat PROVE f[n + 1] = f[n] + DelimitedSize(SizeMemberConfig(list[n + 1]))
  <2>1. n + 1 \in Nat /\ n + 1 # 0 /\ (n + 1) - 1 = n
        OBVIOUS
  <2> QED
      BY <1>2, <2>1
<1> QED
    BY <1>1, <1>3, <1>4, <1>5

\* The sizes of two parts add up.
LEMMA SizedCat ==
  ASSUME NEW a, NEW b, NEW x, NEW y, Sized(a, x), Sized(b, y)
  PROVE Sized(Cat(a, b), x + y)
<1>1. a \in Seq(Nat) /\ b \in Seq(Nat) /\ x \in Nat /\ y \in Nat /\ Len(a) = x /\ Len(b) = y
      BY DEF Sized
<1>2. a \o b \in Seq(Nat) /\ Len(a \o b) = x + y
      BY <1>1, Joined2
<1> QED
    BY <1>1, <1>2 DEF Sized, Cat

\* An entry of a list, counted from its end.
LEMMA EntryOf ==
  ASSUME NEW list \in Seq(AMemberConfig), NEW n \in Nat, n + 1 <= Len(list)
  PROVE /\ Len(list) - (n + 1) + 1 = Len(list) - n
        /\ Len(list) - n \in 1..Len(list) /\ list[Len(list) - n] \in AMemberConfig
        /\ Len(list) - n = (Len(list) - (n + 1)) + 1 /\ Len(list) - (n + 1) \in Nat
<1>1. Len(list) \in Nat
      OBVIOUS
<1> DEFINE L == Len(list)
<1>2. L - n \in 1..L /\ L - (n + 1) + 1 = L - n /\ L - n = (L - (n + 1)) + 1 /\ L - (n + 1) \in Nat
  <2> HIDE DEF L
  <2> QED
      BY <1>1 DEF L
<1>3. \A i \in 1..L : list[i] \in AMemberConfig
      OBVIOUS
<1> QED
    BY <1>2, <1>3

\* The loop that writes the list from its end and the one that counts it from
\* its start agree, by the entries that both have gone through.
LEMMA MembersWritten ==
  ASSUME NEW list \in Seq(AMemberConfig)
  PROVE /\ Sized(MarshalMembers(list), SizeMembers(list))
        /\ \A n \in Nat : n <= Len(list) => AreBytes(LastRun(list)[n])
<1> DEFINE L == Len(list)
           last == LastRun(list)
           first == FirstRun(list)
           D(i) == DelimitedSize(SizeMemberConfig(list[i]))
           S == {n \in Nat : n <= L => first[n] \in Nat}
           T == {n \in Nat : n <= L => Sized(last[n], first[L] - first[L - n])}
<1>1. L \in Nat
      OBVIOUS
<1>2. ASSUME NEW i \in 1..L
      PROVE Sized(Delimited(\h22, MarshalMemberConfig(list[i])), D(i)) /\ D(i) \in Nat
  <2>1. list[i] \in AMemberConfig
        OBVIOUS
  <2> QED
      BY <2>1, MemberConfigPart DEF Sized
<1>3. first[0] = 0 /\ \A n \in Nat : first[n + 1] = first[n] + D(n + 1)
      BY FirstTurns
<1>4. last[0] = <<>> /\ \A n \in Nat : last[n + 1] = MarshalEntry(list[L - (n + 1) + 1], last[n])
      BY LastTurns
<1>5. MarshalMembers(list) = last[L] /\ SizeMembers(list) = first[L]
      BY FirstTurns, LastTurns
<1> HIDE DEF last, first
<1>6. \A n \in Nat : n \in S
  <2>1. 0 \in S
        BY <1>3
  <2>2. ASSUME NEW n \in Nat, n \in S PROVE n + 1 \in S
    <3> SUFFICES ASSUME n + 1 <= L PROVE first[n + 1] \in Nat
        OBVIOUS
    <3>1. n <= L /\ n + 1 \in 1..L
          BY <1>1
    <3> DEFINE d == D(n + 1)
    <3>2. first[n] \in Nat /\ d \in Nat
          BY <1>2, <2>2, <3>1
    <3>3. first[n + 1] = first[n] + d
          BY <1>3
    <3> HIDE DEF d
    <3> QED
        BY <3>2, <3>3
  <2> HIDE DEF S
  <2> QED
      BY <2>1, <2>2, Induction
<1>7. \A n \in Nat : n \in T
  <2>1. 0 \in T
    <3> SUFFICES Sized(last[0], first[L] - first[L - 0])
        OBVIOUS
    <3>1. first[L] \in Nat /\ L - 0 = L
          BY <1>1, <1>6
    <3>2. first[L] - first[L - 0] = 0
          BY <3>1
    <3>3. Sized(<<>>, 0)
          BY DEF Sized
    <3> QED
        BY <1>4, <3>2, <3>3
  <2>2. ASSUME NEW n \in Nat, n \in T PROVE n + 1 \in T
    <3> SUFFICES ASSUME n + 1 <= L PROVE Sized(last[n + 1], first[L] - first[L - (n + 1)])
        OBVIOUS
    <3> DEFINE e == Delimited(\h22, MarshalMemberConfig(list[L - n]))
               k == L - (n + 1)
               d == D(k + 1)
               all == first[L]
               upTo == first[k]
               upToNext == first[k + 1]
    <3>1. n <= L /\ L - (n + 1) + 1 = L - n /\ L - n \in 1..L /\ k \in Nat /\ L - n = k + 1
              /\ L - n <= L /\ k <= L
          BY <1>1
    <3>2. Sized(e, d) /\ d \in Nat
          BY <1>2, <3>1
    <3>3. last[n + 1] = Cat(e, last[n])
          BY <1>4, <3>1 DEF MarshalEntry, Cat
    <3>4. Sized(last[n], all - upToNext)
          BY <2>2, <3>1
    <3>5. all \in Nat
          BY <1>1, <1>6
    <3>6. upTo \in Nat /\ upToNext \in Nat
          BY <1>6, <3>1
    <3>7. upToNext = upTo + d
          BY <1>3, <3>1
    <3> HIDE DEF e, d, all, upTo, upToNext
    <3>8. d + (all - upToNext) = all - upTo
          BY ONLY <3>2, <3>5, <3>6, <3>7
    <3>9. Sized(Cat(e, last[n]), d + (all - upToNext))
          BY <3>2, <3>4, SizedCat
    <3>10. Sized(last[n + 1], all - upTo)
          BY <3>3, <3>8, <3>9
    <3> QED
        BY <3>10 DEF all, upTo
  <2> HIDE DEF T
  <2> QED
      BY <2>1, <2>2, Induction
<1>8. Sized(last[L], first[L] - first[L - L])
      BY <1>1, <1>7
<1>9. first[L] - first[L - L] = first[L]
  <2>1. L - L = 0 /\ first[L] \in Nat
        BY <1>1, <1>6
  <2>2. first[L - L] = 0
        BY <1>3, <2>1
  <2> DEFINE all == first[L]
  <2>3. all \in Nat
        BY <2>1
  <2> HIDE DEF all
  <2>4. all - 0 = all
        BY <2>3
  <2> QED
      BY <2>2, <2>4 DEF all
<1>10. ASSUME NEW n \in Nat, n <= L PROVE AreBytes(last[n])
  <2>1. Sized(last[n], first[L] - first[L - n])
        BY <1>7, <1>10
  <2> QED
      BY <2>1 DEF Sized, AreBytes
<1> QED
    BY <1>5, <1>8, <1>9, <1>10 DEF last

-----------------------------------------------------------------------------
\* The configuration of a group, read with the first of its members.
GroupWith(m, n) ==
  [GroupID |-> m.GroupID, MemberID |-> m.MemberID, Role |-> m.Role, Members |-> SubSeq(m.Members, 1, n)]

\* An entry more of the list is one Append of the reader.
LEMMA OneMore ==
  ASSUME NEW list \in Seq(AMemberConfig), NEW k \in Nat, k + 1 <= Len(list)
  PROVE Append(SubSeq(list, 1, k), list[k + 1]) = SubSeq(list, 1, k + 1)
<1> DEFINE a == SubSeq(list, 1, k)
           b == SubSeq(list, 1, k + 1)
           x == list[k + 1]
<1>1. Len(list) \in Nat
      OBVIOUS
<1>2. /\ a = [i \in 1..k |-> list[i]] /\ Len(a) = k /\ a \in Seq(AMemberConfig)
  <2>1. k <= Len(list)
        BY <1>1
  <2> QED
      BY <2>1
<1>3. b = [i \in 1..(k + 1) |-> list[i]]
      OBVIOUS
<1>4. x \in AMemberConfig
      BY <1>1
<1> HIDE DEF a, b, x
<1>5. Append(a, x) = [i \in 1..(k + 1) |-> IF i = k + 1 THEN x ELSE a[i]]
      BY <1>2, <1>4
<1>6. ASSUME NEW i \in 1..(k + 1) PROVE (IF i = k + 1 THEN x ELSE a[i]) = list[i]
  <2>1. i # k + 1 => i \in 1..k
        OBVIOUS
  <2> QED
      BY <1>2, <2>1 DEF x
<1>7. Append(a, x) = b
      BY <1>3, <1>5, <1>6
<1> QED
    BY <1>7 DEF a, b, x

\* A group whose reader has come to an entry, and the group with that entry.
LEMMA GroupMore ==
  ASSUME NEW m \in AGroupConfig, NEW k \in Nat, k + 1 <= Len(m.Members)
  PROVE /\ m.Members[k + 1] \in AMemberConfig
        /\ Puts("GroupConfig", 4, m.Members[k + 1], GroupWith(m, k), GroupWith(m, k + 1))
<1> DEFINE list == m.Members
           x == list[k + 1]
           a == SubSeq(list, 1, k)
           c == SubSeq(list, 1, k + 1)
<1>1. list \in Seq(AMemberConfig) /\ Len(list) \in Nat
      BY DEF AGroupConfig
<1>2. x \in AMemberConfig
      BY <1>1
<1>3. Append(a, x) = c
      BY <1>1, OneMore
<1>4. /\ GroupWith(m, k) = [GroupID |-> m.GroupID, MemberID |-> m.MemberID, Role |-> m.Role, Members |-> a]
      /\ GroupWith(m, k + 1) = [GroupID |-> m.GroupID, MemberID |-> m.MemberID, Role |-> m.Role, Members |-> c]
      BY DEF GroupWith
<1>5. FieldsOf["GroupConfig"][4].name = "Members" /\ FieldsOf["GroupConfig"][4].store = "parts"
      BY GroupConfigFacts DEF Parts
<1> HIDE DEF a, c, x
<1>6. Stored(FieldsOf["GroupConfig"][4], a, x) = c
      BY <1>3, <1>5 DEF Stored
<1>7. Puts("GroupConfig", 4, x, GroupWith(m, k), GroupWith(m, k + 1))
      BY <1>4, <1>5, <1>6 DEF Puts
<1> QED
    BY <1>2, <1>7 DEF x

\* The list is read entry by entry, in its order, although written from its end.
LEMMA MembersRead ==
  ASSUME NEW m \in AGroupConfig
  PROVE UnmarshalNested("GroupConfig", GroupWith(m, 0), MarshalMembers(m.Members)) = Read(m, <<>>)
<1> DEFINE list == m.Members
           L == Len(list)
           last == LastRun(list)
           S == {n \in Nat : n <= L => UnmarshalNested("GroupConfig", GroupWith(m, L - n),
                     last[n]) = Read(m, <<>>)}
<1>1. list \in Seq(AMemberConfig) /\ L \in Nat
      BY DEF AGroupConfig
<1>2. last[0] = <<>> /\ \A n \in Nat : last[n + 1] = MarshalEntry(list[L - (n + 1) + 1], last[n])
      BY LastTurns
<1>3. MarshalMembers(list) = last[L]
      BY LastTurns
<1>4. \A n \in Nat : n <= L => AreBytes(last[n])
      BY <1>1, MembersWritten
<1> HIDE DEF last
<1>5. 0 \in S
  <2> SUFFICES UnmarshalNested("GroupConfig", GroupWith(m, L - 0), last[0]) = Read(m, <<>>)
      OBVIOUS
  <2>1. L - 0 = L /\ SubSeq(list, 1, L) = list
        BY <1>1
  <2>2. GroupWith(m, L - 0) = m
        BY <2>1 DEF GroupWith, AGroupConfig
  <2> QED
      BY <1>2, <2>2, NestedEnd
<1>6. ASSUME NEW n \in Nat, n \in S PROVE n + 1 \in S
  <2> SUFFICES ASSUME n + 1 <= L
               PROVE UnmarshalNested("GroupConfig", GroupWith(m, L - (n + 1)), last[n + 1]) = Read(m, <<>>)
      OBVIOUS
  <2> DEFINE k == L - (n + 1)
             v == list[k + 1]
             b == MarshalMemberConfig(v)
             p == Delimited(\h22, b)
             T == "GroupConfig"
  <2>1. /\ n <= L /\ k \in Nat /\ k + 1 <= L /\ L - n = k + 1 /\ L - (n + 1) + 1 = k + 1
        BY <1>1
  <2>2. v \in AMemberConfig /\ Puts(T, 4, v, GroupWith(m, k), GroupWith(m, k + 1))
        BY <2>1, GroupMore
  <2>3. UnmarshalNested(T, GroupWith(m, k + 1), last[n]) = Read(m, <<>>)
        BY <1>6, <2>1
  <2>4. AreBytes(b) /\ Len(b) < pow2[WideBits - 1]
        BY <2>2, MemberConfigPart
  <2>5. UnmarshalFlat("MemberConfig", Zero["MemberConfig"], b) = Read(v, <<>>)
        BY <2>2, MemberConfigRead
  <2>6. last[n + 1] = p \o last[n]
        BY <1>2, <2>1 DEF MarshalEntry
  <2>7. last[n] \in Seq(Nat)
        BY <1>4, <2>1 DEF AreBytes
  <2> HIDE DEF k, v, b
  <2>8. Carries(FieldsOf[T], 4, p, b) /\ p # <<>> /\ NestedPartIs(T, 4, GroupWith(m, k), b, v)
    <3> DEFINE f == FieldsOf[T][4]
    <3>1. f = Parts("Members", "MemberConfig") /\ 4 \in DOMAIN FieldsOf[T]
          BY GroupConfigFacts
    <3>2. f.store = "parts" /\ f.wire = 2 /\ f.type = "MemberConfig"
          BY <3>1 DEF Parts
    <3>3. \h22 \in Nat /\ \h22 < 128 /\ \h22 % 8 = 2 /\ \h22 >= 8 /\ \h22 \div 8 = 4
          OBVIOUS
    <3>4. b \in Seq(Nat)
          BY <2>4 DEF AreBytes
    <3>5. Carries(FieldsOf[T], 4, p, b) /\ p # <<>>
          BY <2>4, <3>1, <3>2, <3>3, <3>4, DelimitedCarries
    <3>6. NestedPartIs(T, 4, GroupWith(m, k), b, v)
          BY <2>5, <3>1, <3>2 DEF NestedPartIs
    <3> QED
        BY <3>5, <3>6
  <2> HIDE DEF p, T
  <2>9. UnmarshalNested(T, GroupWith(m, k), p \o last[n]) = Read(m, <<>>)
        BY <2>2, <2>3, <2>7, <2>8, NestedPart
  <2> QED
      BY <2>6, <2>9 DEF k, T
<1>7. \A n \in Nat : n \in S
  <2> HIDE DEF S
  <2> QED
      BY <1>5, <1>6, Induction
<1>8. UnmarshalNested("GroupConfig", GroupWith(m, L - L), last[L]) = Read(m, <<>>)
      BY <1>1, <1>7
<1>9. L - L = 0
      BY <1>1
<1> QED
    BY <1>3, <1>8, <1>9

-----------------------------------------------------------------------------
\* A configuration, and the requests that carry one.
LEMMA GroupConfigWritten ==
  ASSUME NEW m \in AGroupConfig
  PROVE Sized(MarshalGroupConfig(m), SizeGroupConfig(m)) /\ SizeGroupConfig(m) < pow2[WideBits - 1]
<1> DEFINE p1 == Varint(\h8, m.GroupID)
           p2 == Varint(\h10, m.MemberID)
           p3 == Varint(\h18, m.Role)
           p4 == MarshalMembers(m.Members)
           s1 == VarintSize(m.GroupID)
           s2 == VarintSize(m.MemberID)
           s3 == VarintSize(m.Role)
           s4 == SizeMembers(m.Members)
<1>1. m.GroupID \in Narrow /\ m.MemberID \in Narrow /\ m.Role \in Narrow1 /\ m.Members \in Seq(AMemberConfig)
      BY DEF AGroupConfig
<1>2. Sized(p1, s1) /\ Sized(p2, s2) /\ Sized(p3, s3)
  <2>1. \h8 \in Nat /\ \h10 \in Nat /\ \h18 \in Nat
        OBVIOUS
  <2>2. p1 \in Seq(Nat) /\ Len(p1) = s1 /\ s1 \in 0..(1 + MaxGroups)
        BY <1>1, <2>1, UintWritten
  <2>3. p2 \in Seq(Nat) /\ Len(p2) = s2 /\ s2 \in 0..(1 + MaxGroups)
        BY <1>1, <2>1, UintWritten
  <2>4. p3 \in Seq(Nat) /\ Len(p3) = s3 /\ s3 \in 0..(1 + MaxGroups)
        BY <1>1, <2>1, UintWritten
  <2> HIDE DEF p1, p2, p3, s1, s2, s3
  <2> QED
      BY <2>2, <2>3, <2>4, GroupsBound DEF Sized
<1>3. Sized(p4, s4)
      BY <1>1, MembersWritten
<1>4. MarshalGroupConfig(m) = Cat(Three(p1, p2, p3), p4) /\ SizeGroupConfig(m) = s1 + s2 + s3 + s4
      BY DEF MarshalGroupConfig, SizeGroupConfig, Cat, Three
<1> HIDE DEF p1, p2, p3, p4, s1, s2, s3, s4
<1>5. Sized(Three(p1, p2, p3), s1 + s2 + s3)
      BY <1>2, Length3
<1>6. Sized(Cat(Three(p1, p2, p3), p4), s1 + s2 + s3 + s4)
      BY <1>3, <1>5, SizedCat
<1> QED
    BY <1>4, <1>6 DEF AGroupConfig

\* The bytes of a GroupConfig as the part of a request.
LEMMA GroupPart ==
  ASSUME NEW m \in AGroupConfig
  PROVE /\ MarshalGroupConfig(m) \in Seq(Nat) /\ Len(MarshalGroupConfig(m)) < pow2[WideBits - 1]
        /\ Delimited(\ha, MarshalGroupConfig(m)) \in Seq(Nat)
        /\ Len(Delimited(\ha, MarshalGroupConfig(m))) = DelimitedSize(SizeGroupConfig(m))
<1> DEFINE b == MarshalGroupConfig(m)
           n == SizeGroupConfig(m)
<1>1. Sized(b, n) /\ n < pow2[WideBits - 1]
      BY GroupConfigWritten
<1> HIDE DEF b, n
<1>2. b \in Seq(Nat) /\ n \in Nat /\ Len(b) = n
      BY <1>1 DEF Sized
<1>3. n < pow2[WideBits]
      BY <1>1, <1>2, Widths
<1>4. Delimited(\ha, b) \in Seq(Nat) /\ Len(Delimited(\ha, b)) = DelimitedSize(n)
      BY <1>2, <1>3, DelimitedWritten
<1> QED
    BY <1>1, <1>2, <1>4 DEF b, n

\* The bytes of a GroupConfig are read into a new message, which is then the one written.
LEMMA GroupConfigRead ==
  ASSUME NEW m \in AGroupConfig
  PROVE UnmarshalNested("GroupConfig", Zero["GroupConfig"], MarshalGroupConfig(m)) = Read(m, <<>>)
<1> DEFINE none == <<>>
           T == "GroupConfig"
           v1 == m.GroupID
           v2 == m.MemberID
           v3 == m.Role
           p1 == Varint(\h8, v1)
           p2 == Varint(\h10, v2)
           p3 == Varint(\h18, v3)
           m0 == [GroupID |-> 0, MemberID |-> 0, Role |-> 0, Members |-> none]
           m1 == [GroupID |-> v1, MemberID |-> 0, Role |-> 0, Members |-> none]
           m2 == [GroupID |-> v1, MemberID |-> v2, Role |-> 0, Members |-> none]
           m3 == [GroupID |-> v1, MemberID |-> v2, Role |-> v3, Members |-> none]
           c3 == MarshalMembers(m.Members)
           c2 == p3 \o c3
           c1 == p2 \o c2
           c0 == p1 \o c1
<1>1. v1 \in Narrow /\ v2 \in Narrow /\ v3 \in Narrow1 /\ m.Members \in Seq(AMemberConfig)
      BY DEF AGroupConfig
<1>2. p1 \in Seq(Nat) /\ p2 \in Seq(Nat) /\ p3 \in Seq(Nat)
  <2> HIDE DEF v1, v2, v3
  <2> QED
      BY <1>1, UintWritten
<1>3. Tells(T, "GroupID", 0, p1, v1) /\ Becomes(m0, "GroupID", 0, v1, m1)
  <2>1. Tagged(T, \h8, 1, Uint32("GroupID"))
        BY GroupConfigFacts DEF Tagged, Uint32
  <2> HIDE DEF v1, v2, v3
  <2>2. Tells(T, "GroupID", 0, p1, v1)
        BY <1>1, <2>1, UintTells
  <2> HIDE DEF none, p1, p2, p3
  <2>3. Becomes(m0, "GroupID", 0, v1, m1)
        BY DEF Becomes
  <2> QED
      BY <2>2, <2>3
<1>4. Tells(T, "MemberID", 0, p2, v2) /\ Becomes(m1, "MemberID", 0, v2, m2)
  <2>1. Tagged(T, \h10, 2, Uint32("MemberID"))
        BY GroupConfigFacts DEF Tagged, Uint32
  <2> HIDE DEF v1, v2, v3
  <2>2. Tells(T, "MemberID", 0, p2, v2)
        BY <1>1, <2>1, UintTells
  <2> HIDE DEF none, p1, p2, p3
  <2>3. Becomes(m1, "MemberID", 0, v2, m2)
        BY DEF Becomes
  <2> QED
      BY <2>2, <2>3
<1>5. Tells(T, "Role", 0, p3, v3) /\ Becomes(m2, "Role", 0, v3, m3)
  <2>1. Tagged(T, \h18, 3, Int32("Role"))
        BY GroupConfigFacts DEF Tagged, Int32
  <2> HIDE DEF v1, v2, v3
  <2>2. Tells(T, "Role", 0, p3, v3)
        BY <1>1, <2>1, UintTells
  <2> HIDE DEF none, p1, p2, p3
  <2>3. Becomes(m2, "Role", 0, v3, m3)
        BY DEF Becomes
  <2> QED
      BY <2>2, <2>3
<1>6. c3 \in Seq(Nat) /\ c2 \in Seq(Nat) /\ c1 \in Seq(Nat)
  <2>1. c3 \in Seq(Nat)
        BY <1>1, MembersWritten DEF Sized
  <2> HIDE DEF p1, p2, p3, c3
  <2> QED
      BY <1>2, <2>1, Before1
<1>7. UnmarshalNested(T, m3, c3) = Read(m, <<>>)
  <2>1. SubSeq(m.Members, 1, 0) = none
        BY <1>1
  <2>2. GroupWith(m, 0) = m3
        BY <2>1 DEF GroupWith
  <2> QED
      BY <2>2, MembersRead
<1>8. MarshalGroupConfig(m) = c0
  <2> DEFINE r == c3
  <2>1. MarshalGroupConfig(m) = p1 \o p2 \o p3 \o r
        BY DEF MarshalGroupConfig
  <2>2. AreBytes(p1) /\ AreBytes(p2) /\ AreBytes(p3) /\ AreBytes(r)
        BY <1>2, <1>6 DEF AreBytes
  <2>3. c0 = p1 \o (p2 \o (p3 \o r))
        OBVIOUS
  <2> HIDE DEF p1, p2, p3, r, c0
  <2>4. Cat(Three(p1, p2, p3), r) = Cat(p1, Cat(p2, Cat(p3, r)))
        BY <2>2, Before3
  <2>5. MarshalGroupConfig(m) = Cat(Three(p1, p2, p3), r)
        BY <2>1, Zenon DEF Cat, Three
  <2>6. c0 = Cat(p1, Cat(p2, Cat(p3, r)))
        BY <2>3, Zenon DEF Cat
  <2> QED
      BY <2>4, <2>5, <2>6
<1>9. Zero[T] = m0
      BY GroupConfigFacts
<1>10. c2 = p3 \o c3 /\ c1 = p2 \o c2 /\ c0 = p1 \o c1
      OBVIOUS
<1> HIDE DEF none, T, v1, v2, v3, p1, p2, p3, m0, m1, m2, m3, c0, c1, c2, c3
<1>11. UnmarshalNested(T, m2, c2) = Read(m, <<>>)
  <2>1. c2 = p3 \o c3 /\ c3 \in Seq(Nat)
        BY <1>6, <1>10
  <2> QED
      BY <1>5, <1>7, <2>1, NestedTold
<1>12. UnmarshalNested(T, m1, c1) = Read(m, <<>>)
  <2>1. c1 = p2 \o c2 /\ c2 \in Seq(Nat)
        BY <1>6, <1>10
  <2> QED
      BY <1>4, <1>11, <2>1, NestedTold
<1>13. UnmarshalNested(T, m0, c0) = Read(m, <<>>)
  <2>1. c0 = p1 \o c1 /\ c1 \in Seq(Nat)
        BY <1>6, <1>10
  <2> QED
      BY <1>3, <1>12, <2>1, NestedTold
<1>14. UnmarshalNested(T, Zero[T], MarshalGroupConfig(m)) = Read(m, <<>>)
      BY <1>13, <1>8, <1>9
<1> QED
    BY <1>14 DEF T

AGroupRequest == [Group : AGroupConfig]
MarshalGroupRequest(m) == Delimited(\ha, MarshalGroupConfig(m.Group))
SizeGroupRequest(m) == DelimitedSize(SizeGroupConfig(m.Group))

\* The bytes of a BootstrapRequest or JoinRequest are as many as its size.
LEMMA GroupRequestWritten ==
  ASSUME NEW m \in AGroupRequest
  PROVE MarshalGroupRequest(m) \in Seq(Nat) /\ Len(MarshalGroupRequest(m)) = SizeGroupRequest(m)
<1>1. m.Group \in AGroupConfig
      BY DEF AGroupRequest
<1> QED
    BY <1>1, GroupPart DEF MarshalGroupRequest, SizeGroupRequest

\* The bytes of a BootstrapRequest or JoinRequest are read into a new message, which is then the one written.
LEMMA GroupRequestRead ==
  ASSUME NEW type \in {"BootstrapRequest", "JoinRequest"},
         NEW m \in AGroupRequest, NEW rest, AreBytes(rest),
         UnmarshalInto(type, m, rest) = Read(m, <<>>)
  PROVE UnmarshalInto(type, Zero[type], MarshalGroupRequest(m) \o rest) = Read(m, <<>>)
<1> DEFINE none == <<>>
           v1 == m.Group
           p1 == Delimited(\ha, MarshalGroupConfig(v1))
           m0 == [Group |-> Zero["GroupConfig"]]
           m1 == [Group |-> v1]
           c1 == rest
           c0 == p1 \o c1
           b == MarshalGroupConfig(v1)
<1>1. m = m1 /\ v1 \in AGroupConfig
      BY DEF AGroupRequest
<1>2. p1 \in Seq(Nat)
  <2> HIDE DEF v1
  <2> QED
      BY <1>1, GroupPart
<1>3. Carries(FieldsOf[type], 1, p1, b) /\ p1 # <<>> /\ IntoPartIs(type, 1, m0, b, v1) /\ Puts(type, 1,
          v1, m0, m1)
  <2> DEFINE f == FieldsOf[type][1]
  <2>1. f = Part("Group", "GroupConfig") /\ 1 \in DOMAIN FieldsOf[type]
        BY GroupRequestFacts
  <2>2. f.name = "Group" /\ f.store = "part" /\ f.wire = 2 /\ f.type = "GroupConfig"
        BY <2>1 DEF Part
  <2>3. b \in Seq(Nat) /\ Len(b) < pow2[WideBits - 1]
        BY <1>1, GroupPart
  <2>4. Carries(FieldsOf[type], 1, p1, b) /\ p1 # <<>>
    <3>1. \ha \in Nat /\ \ha < 128 /\ \ha % 8 = 2 /\ \ha >= 8 /\ \ha \div 8 = 1
          OBVIOUS
    <3> HIDE DEF b, f
    <3> QED
        BY <2>1, <2>2, <2>3, <3>1, DelimitedCarries DEF b, f
  <2>5. UnmarshalNested("GroupConfig", Zero["GroupConfig"], b) = Read(v1, <<>>)
        BY <1>1, GroupConfigRead
  <2>6. m0["Group"] = Zero["GroupConfig"]
        OBVIOUS
  <2> HIDE DEF v1
  <2>7. m1 = [m0 EXCEPT !["Group"] = v1]
        OBVIOUS
  <2> HIDE DEF m0, m1, p1, b
  <2>8. IntoPartIs(type, 1, m0, b, v1)
        BY <2>1, <2>2, <2>5, <2>6 DEF IntoPartIs
  <2>9. Puts(type, 1, v1, m0, m1)
    <3>1. \A old : Stored(f, old, v1) = v1
          BY <2>2 DEF Stored
    <3> QED
        BY <2>2, <2>7, <3>1 DEF Puts
  <2> QED
      BY <2>4, <2>8, <2>9
<1>4. c1 \in Seq(Nat)
  <2> HIDE DEF p1
  <2> QED
      BY <1>2, Before1 DEF AreBytes
<1>5. UnmarshalInto(type, m1, c1) = Read(m, <<>>)
      BY <1>1
<1>6. MarshalGroupRequest(m) \o rest = c0
  <2>1. MarshalGroupRequest(m) = p1
        BY DEF MarshalGroupRequest
  <2> HIDE DEF p1
  <2> QED
      BY <1>2, <2>1, Before1
<1>7. Zero[type] = m0
      BY GroupRequestFacts
<1>8. c0 = p1 \o c1
      OBVIOUS
<1> HIDE DEF none, v1, p1, m0, m1, c0, c1, b
<1>9. UnmarshalInto(type, m0, c0) = Read(m, <<>>)
  <2>1. c0 = p1 \o c1 /\ c1 \in Seq(Nat)
        BY <1>4, <1>8
  <2> QED
      BY <1>3, <1>5, <2>1, IntoPart
<1> QED
    BY <1>9, <1>6, <1>7

-----------------------------------------------------------------------------
\* Events

\* The bytes b, so many of them, are v to the reader of this type.
PartOf(type, b, v, n) ==
  /\ b \in Seq(Nat) /\ n \in Nat /\ Len(b) = n /\ n < pow2[WideBits - 1]
  /\ UnmarshalNested(type, Zero[type], b) = Read(v, <<>>)

\* The bytes p, so many of them, are the case e of an event.
Says(e, p, n) ==
  /\ Sized(p, n) /\ p # <<>>
  /\ e = [case |-> e.case, v |-> e.v]
  /\ \E num, type, b :
       /\ num \in DOMAIN FieldsOf["Event"] /\ FieldsOf["Event"][num] = OneOf(e.case, type)
       /\ Carries(FieldsOf["Event"], num, p, b)
       /\ UnmarshalNested(type, Zero[type], b) = Read(e.v, <<>>)

\* A case of an event, by the number and the type of its field.
LEMMA Saying ==
  ASSUME NEW type, NEW case, NEW num, NEW tag, NEW b, NEW v, NEW n,
         Tagged("Event", tag, num, OneOf(case, type)), PartOf(type, b, v, n)
  PROVE Says([case |-> case, v |-> v], Delimited(tag, b), DelimitedSize(n))
<1> DEFINE fields == FieldsOf["Event"]
           e == [case |-> case, v |-> v]
           p == Delimited(tag, b)
<1>1. /\ b \in Seq(Nat) /\ n \in Nat /\ Len(b) = n /\ n < pow2[WideBits - 1]
      /\ UnmarshalNested(type, Zero[type], b) = Read(v, <<>>)
      BY DEF PartOf
<1>2. e.case = case /\ e.v = v
      OBVIOUS
<1>3. OneOf(case, type).wire = 2
      BY DEF OneOf
<1>4. /\ num \in DOMAIN fields /\ fields[num] = OneOf(case, type) /\ fields[num].wire = 2
      /\ tag \in Nat /\ tag < 128 /\ tag >= 8 /\ tag \div 8 = num /\ tag % 8 = 2
      BY <1>3 DEF Tagged
<1>5. Carries(fields, num, p, b) /\ p # <<>>
      BY <1>1, <1>4, DelimitedCarries
<1>6. Sized(p, DelimitedSize(n))
  <2>1. n < pow2[WideBits]
        BY <1>1, Widths
  <2>2. p \in Seq(Nat) /\ Len(p) = DelimitedSize(n) /\ DelimitedSize(n) \in n..(1 + n + MaxGroups)
        BY <1>1, <1>4, <2>1, DelimitedWritten
  <2> DEFINE s == DelimitedSize(n)
  <2>3. s \in n..(1 + n + MaxGroups)
        BY <2>2
  <2> HIDE DEF s
  <2>4. s \in Nat
        BY ONLY <1>1, <2>3
  <2> QED
      BY <2>2, <2>4 DEF Sized, s
<1> HIDE DEF e, p
<1>7. e = [case |-> e.case, v |-> e.v]
      BY <1>2 DEF e
<1>8. Says(e, p, DelimitedSize(n))
      BY <1>1, <1>2, <1>4, <1>5, <1>6, <1>7 DEF Says
<1> QED
    BY <1>8 DEF e, p

\* The bytes of the events of a member, as the part of an event.
LEMMA OfMemberPartOf ==
  ASSUME NEW type \in {"MemberReadyEvent", "MembershipChangedEvent"},
         NEW m \in AOfMember
  PROVE PartOf(type, MarshalMember(m), m, SizeMember(m))
<1> DEFINE n == SizeMember(m)
<1>1. MarshalMember(m) \in Seq(Nat) /\ Len(MarshalMember(m)) = n /\ n \in 0..(3 * (1 + MaxGroups))
      BY OfMemberWritten
<1>2. UnmarshalNested(type, Zero[type], MarshalMember(m)) = Read(m, <<>>)
      BY OfMemberRead
<1> HIDE DEF n
<1>3. n \in Nat /\ n < pow2[WideBits - 1]
      BY <1>1, GroupsBound, Widths
<1> QED
    BY <1>1, <1>2, <1>3 DEF PartOf, n

\* The bytes of a LeaderUpdatedEvent, as the part of an event.
LEMMA LeaderUpdatedPartOf ==
  ASSUME NEW m \in ALeaderUpdated
  PROVE PartOf("LeaderUpdatedEvent", MarshalLeaderUpdatedEvent(m), m, SizeLeaderUpdatedEvent(m))
<1> DEFINE n == SizeLeaderUpdatedEvent(m)
<1>1. MarshalLeaderUpdatedEvent(m) \in Seq(Nat) /\ Len(MarshalLeaderUpdatedEvent(m)) = n
          /\ n \in 0..(5 * (1 + MaxGroups))
      BY LeaderUpdatedWritten
<1>2. UnmarshalNested("LeaderUpdatedEvent", Zero["LeaderUpdatedEvent"],
          MarshalLeaderUpdatedEvent(m)) = Read(m, <<>>)
      BY LeaderUpdatedRead
<1> HIDE DEF n
<1>3. n \in Nat /\ n < pow2[WideBits - 1]
      BY <1>1, GroupsBound, Widths
<1> QED
    BY <1>1, <1>2, <1>3 DEF PartOf, n

\* The bytes of the three events of a snapshot being sent, as the part of an event.
LEMMA SendSnapshotPartOf ==
  ASSUME NEW type \in {"SendSnapshotStartedEvent", "SendSnapshotCompletedEvent", "SendSnapshotAbortedEvent"},
         NEW m \in ASendSnapshot
  PROVE PartOf(type, MarshalSendSnapshot(m), m, SizeSendSnapshot(m))
<1> DEFINE n == SizeSendSnapshot(m)
<1>1. MarshalSendSnapshot(m) \in Seq(Nat) /\ Len(MarshalSendSnapshot(m)) = n /\ n \in 0..(5 * (1 + MaxGroups))
      BY SendSnapshotWritten
<1>2. UnmarshalNested(type, Zero[type], MarshalSendSnapshot(m)) = Read(m, <<>>)
      BY SendSnapshotRead
<1> HIDE DEF n
<1>3. n \in Nat /\ n < pow2[WideBits - 1]
      BY <1>1, GroupsBound, Widths
<1> QED
    BY <1>1, <1>2, <1>3 DEF PartOf, n

\* The bytes of a SnapshotReceivedEvent, as the part of an event.
LEMMA SnapshotReceivedPartOf ==
  ASSUME NEW m \in ASnapshotReceived
  PROVE PartOf("SnapshotReceivedEvent", MarshalSnapshotReceivedEvent(m), m, SizeSnapshotReceivedEvent(m))
<1> DEFINE n == SizeSnapshotReceivedEvent(m)
<1>1. MarshalSnapshotReceivedEvent(m) \in Seq(Nat) /\ Len(MarshalSnapshotReceivedEvent(m)) = n
          /\ n \in 0..(5 * (1 + MaxGroups))
      BY SnapshotReceivedWritten
<1>2. UnmarshalNested("SnapshotReceivedEvent", Zero["SnapshotReceivedEvent"],
          MarshalSnapshotReceivedEvent(m)) = Read(m, <<>>)
      BY SnapshotReceivedRead
<1> HIDE DEF n
<1>3. n \in Nat /\ n < pow2[WideBits - 1]
      BY <1>1, GroupsBound, Widths
<1> QED
    BY <1>1, <1>2, <1>3 DEF PartOf, n

\* The bytes of the events of an index, as the part of an event.
LEMMA IndexedPartOf ==
  ASSUME NEW type \in {"SnapshotRecoveredEvent", "SnapshotCreatedEvent", "SnapshotCompactedEvent",
            "LogCompactedEvent", "LogDBCompactedEvent"},
         NEW m \in AIndexed
  PROVE PartOf(type, MarshalIndexed(m), m, SizeIndexed(m))
<1> DEFINE n == SizeIndexed(m)
<1>1. MarshalIndexed(m) \in Seq(Nat) /\ Len(MarshalIndexed(m)) = n /\ n \in 0..(4 * (1 + MaxGroups))
      BY IndexedWritten
<1>2. UnmarshalNested(type, Zero[type], MarshalIndexed(m)) = Read(m, <<>>)
      BY IndexedRead
<1> HIDE DEF n
<1>3. n \in Nat /\ n < pow2[WideBits - 1]
      BY <1>1, GroupsBound, Widths
<1> QED
    BY <1>1, <1>2, <1>3 DEF PartOf, n

\* The bytes of the events of a connection, as the part of an event.
LEMMA OfConnectionPartOf ==
  ASSUME NEW type \in {"ConnectionEstablishedEvent", "ConnectionFailedEvent"},
         NEW m \in AOfConnection
  PROVE PartOf(type, MarshalOfConnection(m), m, SizeOfConnection(m))
<1> DEFINE n == SizeOfConnection(m)
           h == Len(m.ConnectionInfo.Address)
<1>1. MarshalOfConnection(m) \in Seq(Nat) /\ Len(MarshalOfConnection(m)) = n
          /\ n \in 0..(2 * (1 + MaxGroups) + h + 2)
      BY OfConnectionWritten
<1>2. UnmarshalNested(type, Zero[type], MarshalOfConnection(m)) = Read(m, <<>>)
      BY OfConnectionRead
<1>3. h \in Nat /\ h + 2 * WideBits < pow2[WideBits - 1]
      BY ShortIs DEF AOfConnection, AConnectionInfo
<1> HIDE DEF n, h
<1>4. n \in Nat /\ n < pow2[WideBits - 1]
      BY <1>1, <1>3, GroupsBound, Widths
<1> QED
    BY <1>1, <1>2, <1>4 DEF PartOf, n

\* An event with a case is not the absence of one.
LEMMA NotNoEvent ==
  ASSUME NEW e, e.case # ""
  PROVE e # NoEvent
<1>1. NoEvent.case = ""
      BY DEF NoEvent
<1> QED
    BY <1>1

\* The cases there may be.
ACase ==
  [case : {"MemberReady", "MembershipChanged"}, v : AOfMember]
  \cup [case : {"LeaderUpdated"}, v : ALeaderUpdated]
  \cup [case : {"SendSnapshotStarted", "SendSnapshotCompleted", "SendSnapshotAborted"}, v : ASendSnapshot]
  \cup [case : {"SnapshotReceived"}, v : ASnapshotReceived]
  \cup [case : {"SnapshotRecovered", "SnapshotCreated", "SnapshotCompacted", "LogCompacted",
            "LogdbCompacted"}, v : AIndexed]
  \cup [case : {"ConnectionEstablished", "ConnectionFailed"}, v : AOfConnection]
AnEvent == [Timestamp : Short, Event : ACase]

\* The case MemberReady of an event, by its own tag.
LEMMA MemberReadySays ==
  ASSUME NEW v \in AOfMember
  PROVE Says([case |-> "MemberReady", v |-> v], MarshalCase([case |-> "MemberReady", v |-> v]),
            SizeCase([case |-> "MemberReady", v |-> v]))
<1>1. Tagged("Event", \h12, 2, OneOf("MemberReady", "MemberReadyEvent"))
      BY EventFacts DEF Tagged, OneOf
<1>2. PartOf("MemberReadyEvent", MarshalMemberReadyEvent(v), v, SizeMemberReadyEvent(v))
      BY OfMemberPartOf DEF MarshalMemberReadyEvent, SizeMemberReadyEvent
<1> DEFINE e == [case |-> "MemberReady", v |-> v]
<1>3. e.case = "MemberReady" /\ e.v = v
      OBVIOUS
<1> HIDE DEF e
<1>4. e # NoEvent
      BY <1>3, NotNoEvent
<1>5. MarshalCase(e) = Delimited(\h12, MarshalMemberReadyEvent(v))
      BY <1>3, <1>4 DEF MarshalCase
<1>6. SizeCase(e) = DelimitedSize(SizeMemberReadyEvent(v))
      BY <1>3, <1>4 DEF SizeCase
<1> QED
    BY <1>1, <1>2, <1>5, <1>6, Saying DEF e

\* The case LeaderUpdated of an event, by its own tag.
LEMMA LeaderUpdatedSays ==
  ASSUME NEW v \in ALeaderUpdated
  PROVE Says([case |-> "LeaderUpdated", v |-> v], MarshalCase([case |-> "LeaderUpdated", v |-> v]),
            SizeCase([case |-> "LeaderUpdated", v |-> v]))
<1>1. Tagged("Event", \h1a, 3, OneOf("LeaderUpdated", "LeaderUpdatedEvent"))
      BY EventFacts DEF Tagged, OneOf
<1>2. PartOf("LeaderUpdatedEvent", MarshalLeaderUpdatedEvent(v), v, SizeLeaderUpdatedEvent(v))
      BY LeaderUpdatedPartOf
<1> DEFINE e == [case |-> "LeaderUpdated", v |-> v]
<1>3. e.case = "LeaderUpdated" /\ e.v = v
      OBVIOUS
<1> HIDE DEF e
<1>4. e # NoEvent
      BY <1>3, NotNoEvent
<1>5. MarshalCase(e) = Delimited(\h1a, MarshalLeaderUpdatedEvent(v))
      BY <1>3, <1>4 DEF MarshalCase
<1>6. SizeCase(e) = DelimitedSize(SizeLeaderUpdatedEvent(v))
      BY <1>3, <1>4 DEF SizeCase
<1> QED
    BY <1>1, <1>2, <1>5, <1>6, Saying DEF e

\* The case MembershipChanged of an event, by its own tag.
LEMMA MembershipChangedSays ==
  ASSUME NEW v \in AOfMember
  PROVE Says([case |-> "MembershipChanged", v |-> v], MarshalCase([case |-> "MembershipChanged",
            v |-> v]), SizeCase([case |-> "MembershipChanged", v |-> v]))
<1>1. Tagged("Event", \h22, 4, OneOf("MembershipChanged", "MembershipChangedEvent"))
      BY EventFacts DEF Tagged, OneOf
<1>2. PartOf("MembershipChangedEvent", MarshalMembershipChangedEvent(v), v, SizeMembershipChangedEvent(v))
      BY OfMemberPartOf DEF MarshalMembershipChangedEvent, SizeMembershipChangedEvent
<1> DEFINE e == [case |-> "MembershipChanged", v |-> v]
<1>3. e.case = "MembershipChanged" /\ e.v = v
      OBVIOUS
<1> HIDE DEF e
<1>4. e # NoEvent
      BY <1>3, NotNoEvent
<1>5. MarshalCase(e) = Delimited(\h22, MarshalMembershipChangedEvent(v))
      BY <1>3, <1>4 DEF MarshalCase
<1>6. SizeCase(e) = DelimitedSize(SizeMembershipChangedEvent(v))
      BY <1>3, <1>4 DEF SizeCase
<1> QED
    BY <1>1, <1>2, <1>5, <1>6, Saying DEF e

\* The case SendSnapshotStarted of an event, by its own tag.
LEMMA SendSnapshotStartedSays ==
  ASSUME NEW v \in ASendSnapshot
  PROVE Says([case |-> "SendSnapshotStarted", v |-> v], MarshalCase([case |-> "SendSnapshotStarted",
            v |-> v]), SizeCase([case |-> "SendSnapshotStarted", v |-> v]))
<1>1. Tagged("Event", \h2a, 5, OneOf("SendSnapshotStarted", "SendSnapshotStartedEvent"))
      BY EventFacts DEF Tagged, OneOf
<1>2. PartOf("SendSnapshotStartedEvent", MarshalSendSnapshotStartedEvent(v), v, SizeSendSnapshotStartedEvent(v))
      BY SendSnapshotPartOf DEF MarshalSendSnapshotStartedEvent, SizeSendSnapshotStartedEvent,
                MarshalSendSnapshot, SizeSendSnapshot
<1> DEFINE e == [case |-> "SendSnapshotStarted", v |-> v]
<1>3. e.case = "SendSnapshotStarted" /\ e.v = v
      OBVIOUS
<1> HIDE DEF e
<1>4. e # NoEvent
      BY <1>3, NotNoEvent
<1>5. MarshalCase(e) = Delimited(\h2a, MarshalSendSnapshotStartedEvent(v))
      BY <1>3, <1>4 DEF MarshalCase
<1>6. SizeCase(e) = DelimitedSize(SizeSendSnapshotStartedEvent(v))
      BY <1>3, <1>4 DEF SizeCase
<1> QED
    BY <1>1, <1>2, <1>5, <1>6, Saying DEF e

\* The case SendSnapshotCompleted of an event, by its own tag.
LEMMA SendSnapshotCompletedSays ==
  ASSUME NEW v \in ASendSnapshot
  PROVE Says([case |-> "SendSnapshotCompleted", v |-> v],
            MarshalCase([case |-> "SendSnapshotCompleted", v |-> v]),
            SizeCase([case |-> "SendSnapshotCompleted", v |-> v]))
<1>1. Tagged("Event", \h32, 6, OneOf("SendSnapshotCompleted", "SendSnapshotCompletedEvent"))
      BY EventFacts DEF Tagged, OneOf
<1>2. PartOf("SendSnapshotCompletedEvent", MarshalSendSnapshotCompletedEvent(v), v,
          SizeSendSnapshotCompletedEvent(v))
      BY SendSnapshotPartOf DEF MarshalSendSnapshotCompletedEvent, SizeSendSnapshotCompletedEvent,
                MarshalSendSnapshot, SizeSendSnapshot
<1> DEFINE e == [case |-> "SendSnapshotCompleted", v |-> v]
<1>3. e.case = "SendSnapshotCompleted" /\ e.v = v
      OBVIOUS
<1> HIDE DEF e
<1>4. e # NoEvent
      BY <1>3, NotNoEvent
<1>5. MarshalCase(e) = Delimited(\h32, MarshalSendSnapshotCompletedEvent(v))
      BY <1>3, <1>4 DEF MarshalCase
<1>6. SizeCase(e) = DelimitedSize(SizeSendSnapshotCompletedEvent(v))
      BY <1>3, <1>4 DEF SizeCase
<1> QED
    BY <1>1, <1>2, <1>5, <1>6, Saying DEF e

\* The case SendSnapshotAborted of an event, by its own tag.
LEMMA SendSnapshotAbortedSays ==
  ASSUME NEW v \in ASendSnapshot
  PROVE Says([case |-> "SendSnapshotAborted", v |-> v], MarshalCase([case |-> "SendSnapshotAborted",
            v |-> v]), SizeCase([case |-> "SendSnapshotAborted", v |-> v]))
<1>1. Tagged("Event", \h3a, 7, OneOf("SendSnapshotAborted", "SendSnapshotAbortedEvent"))
      BY EventFacts DEF Tagged, OneOf
<1>2. PartOf("SendSnapshotAbortedEvent", MarshalSendSnapshotAbortedEvent(v), v, SizeSendSnapshotAbortedEvent(v))
      BY SendSnapshotPartOf DEF MarshalSendSnapshotAbortedEvent, SizeSendSnapshotAbortedEvent,
                MarshalSendSnapshot, SizeSendSnapshot
<1> DEFINE e == [case |-> "SendSnapshotAborted", v |-> v]
<1>3. e.case = "SendSnapshotAborted" /\ e.v = v
      OBVIOUS
<1> HIDE DEF e
<1>4. e # NoEvent
      BY <1>3, NotNoEvent
<1>5. MarshalCase(e) = Delimited(\h3a, MarshalSendSnapshotAbortedEvent(v))
      BY <1>3, <1>4 DEF MarshalCase
<1>6. SizeCase(e) = DelimitedSize(SizeSendSnapshotAbortedEvent(v))
      BY <1>3, <1>4 DEF SizeCase
<1> QED
    BY <1>1, <1>2, <1>5, <1>6, Saying DEF e

\* The case SnapshotReceived of an event, by its own tag.
LEMMA SnapshotReceivedSays ==
  ASSUME NEW v \in ASnapshotReceived
  PROVE Says([case |-> "SnapshotReceived", v |-> v], MarshalCase([case |-> "SnapshotReceived",
            v |-> v]), SizeCase([case |-> "SnapshotReceived", v |-> v]))
<1>1. Tagged("Event", \h42, 8, OneOf("SnapshotReceived", "SnapshotReceivedEvent"))
      BY EventFacts DEF Tagged, OneOf
<1>2. PartOf("SnapshotReceivedEvent", MarshalSnapshotReceivedEvent(v), v, SizeSnapshotReceivedEvent(v))
      BY SnapshotReceivedPartOf
<1> DEFINE e == [case |-> "SnapshotReceived", v |-> v]
<1>3. e.case = "SnapshotReceived" /\ e.v = v
      OBVIOUS
<1> HIDE DEF e
<1>4. e # NoEvent
      BY <1>3, NotNoEvent
<1>5. MarshalCase(e) = Delimited(\h42, MarshalSnapshotReceivedEvent(v))
      BY <1>3, <1>4 DEF MarshalCase
<1>6. SizeCase(e) = DelimitedSize(SizeSnapshotReceivedEvent(v))
      BY <1>3, <1>4 DEF SizeCase
<1> QED
    BY <1>1, <1>2, <1>5, <1>6, Saying DEF e

\* The case SnapshotRecovered of an event, by its own tag.
LEMMA SnapshotRecoveredSays ==
  ASSUME NEW v \in AIndexed
  PROVE Says([case |-> "SnapshotRecovered", v |-> v], MarshalCase([case |-> "SnapshotRecovered",
            v |-> v]), SizeCase([case |-> "SnapshotRecovered", v |-> v]))
<1>1. Tagged("Event", \h4a, 9, OneOf("SnapshotRecovered", "SnapshotRecoveredEvent"))
      BY EventFacts DEF Tagged, OneOf
<1>2. PartOf("SnapshotRecoveredEvent", MarshalSnapshotRecoveredEvent(v), v, SizeSnapshotRecoveredEvent(v))
      BY IndexedPartOf DEF MarshalSnapshotRecoveredEvent, SizeSnapshotRecoveredEvent, MarshalIndexed,
                SizeIndexed
<1> DEFINE e == [case |-> "SnapshotRecovered", v |-> v]
<1>3. e.case = "SnapshotRecovered" /\ e.v = v
      OBVIOUS
<1> HIDE DEF e
<1>4. e # NoEvent
      BY <1>3, NotNoEvent
<1>5. MarshalCase(e) = Delimited(\h4a, MarshalSnapshotRecoveredEvent(v))
      BY <1>3, <1>4 DEF MarshalCase
<1>6. SizeCase(e) = DelimitedSize(SizeSnapshotRecoveredEvent(v))
      BY <1>3, <1>4 DEF SizeCase
<1> QED
    BY <1>1, <1>2, <1>5, <1>6, Saying DEF e

\* The case SnapshotCreated of an event, by its own tag.
LEMMA SnapshotCreatedSays ==
  ASSUME NEW v \in AIndexed
  PROVE Says([case |-> "SnapshotCreated", v |-> v], MarshalCase([case |-> "SnapshotCreated", v |-> v]),
            SizeCase([case |-> "SnapshotCreated", v |-> v]))
<1>1. Tagged("Event", \h52, 10, OneOf("SnapshotCreated", "SnapshotCreatedEvent"))
      BY EventFacts DEF Tagged, OneOf
<1>2. PartOf("SnapshotCreatedEvent", MarshalSnapshotCreatedEvent(v), v, SizeSnapshotCreatedEvent(v))
      BY IndexedPartOf DEF MarshalSnapshotCreatedEvent, SizeSnapshotCreatedEvent, MarshalIndexed, SizeIndexed
<1> DEFINE e == [case |-> "SnapshotCreated", v |-> v]
<1>3. e.case = "SnapshotCreated" /\ e.v = v
      OBVIOUS
<1> HIDE DEF e
<1>4. e # NoEvent
      BY <1>3, NotNoEvent
<1>5. MarshalCase(e) = Delimited(\h52, MarshalSnapshotCreatedEvent(v))
      BY <1>3, <1>4 DEF MarshalCase
<1>6. SizeCase(e) = DelimitedSize(SizeSnapshotCreatedEvent(v))
      BY <1>3, <1>4 DEF SizeCase
<1> QED
    BY <1>1, <1>2, <1>5, <1>6, Saying DEF e

\* The case SnapshotCompacted of an event, by its own tag.
LEMMA SnapshotCompactedSays ==
  ASSUME NEW v \in AIndexed
  PROVE Says([case |-> "SnapshotCompacted", v |-> v], MarshalCase([case |-> "SnapshotCompacted",
            v |-> v]), SizeCase([case |-> "SnapshotCompacted", v |-> v]))
<1>1. Tagged("Event", \h5a, 11, OneOf("SnapshotCompacted", "SnapshotCompactedEvent"))
      BY EventFacts DEF Tagged, OneOf
<1>2. PartOf("SnapshotCompactedEvent", MarshalSnapshotCompactedEvent(v), v, SizeSnapshotCompactedEvent(v))
      BY IndexedPartOf DEF MarshalSnapshotCompactedEvent, SizeSnapshotCompactedEvent, MarshalIndexed,
                SizeIndexed
<1> DEFINE e == [case |-> "SnapshotCompacted", v |-> v]
<1>3. e.case = "SnapshotCompacted" /\ e.v = v
      OBVIOUS
<1> HIDE DEF e
<1>4. e # NoEvent
      BY <1>3, NotNoEvent
<1>5. MarshalCase(e) = Delimited(\h5a, MarshalSnapshotCompactedEvent(v))
      BY <1>3, <1>4 DEF MarshalCase
<1>6. SizeCase(e) = DelimitedSize(SizeSnapshotCompactedEvent(v))
      BY <1>3, <1>4 DEF SizeCase
<1> QED
    BY <1>1, <1>2, <1>5, <1>6, Saying DEF e

\* The case LogCompacted of an event, by its own tag.
LEMMA LogCompactedSays ==
  ASSUME NEW v \in AIndexed
  PROVE Says([case |-> "LogCompacted", v |-> v], MarshalCase([case |-> "LogCompacted", v |-> v]),
            SizeCase([case |-> "LogCompacted", v |-> v]))
<1>1. Tagged("Event", \h62, 12, OneOf("LogCompacted", "LogCompactedEvent"))
      BY EventFacts DEF Tagged, OneOf
<1>2. PartOf("LogCompactedEvent", MarshalLogCompactedEvent(v), v, SizeLogCompactedEvent(v))
      BY IndexedPartOf DEF MarshalLogCompactedEvent, SizeLogCompactedEvent, MarshalIndexed, SizeIndexed
<1> DEFINE e == [case |-> "LogCompacted", v |-> v]
<1>3. e.case = "LogCompacted" /\ e.v = v
      OBVIOUS
<1> HIDE DEF e
<1>4. e # NoEvent
      BY <1>3, NotNoEvent
<1>5. MarshalCase(e) = Delimited(\h62, MarshalLogCompactedEvent(v))
      BY <1>3, <1>4 DEF MarshalCase
<1>6. SizeCase(e) = DelimitedSize(SizeLogCompactedEvent(v))
      BY <1>3, <1>4 DEF SizeCase
<1> QED
    BY <1>1, <1>2, <1>5, <1>6, Saying DEF e

\* The case LogdbCompacted of an event, by its own tag.
LEMMA LogdbCompactedSays ==
  ASSUME NEW v \in AIndexed
  PROVE Says([case |-> "LogdbCompacted", v |-> v], MarshalCase([case |-> "LogdbCompacted", v |-> v]),
            SizeCase([case |-> "LogdbCompacted", v |-> v]))
<1>1. Tagged("Event", \h6a, 13, OneOf("LogdbCompacted", "LogDBCompactedEvent"))
      BY EventFacts DEF Tagged, OneOf
<1>2. PartOf("LogDBCompactedEvent", MarshalLogDBCompactedEvent(v), v, SizeLogDBCompactedEvent(v))
      BY IndexedPartOf DEF MarshalLogDBCompactedEvent, SizeLogDBCompactedEvent, MarshalIndexed, SizeIndexed
<1> DEFINE e == [case |-> "LogdbCompacted", v |-> v]
<1>3. e.case = "LogdbCompacted" /\ e.v = v
      OBVIOUS
<1> HIDE DEF e
<1>4. e # NoEvent
      BY <1>3, NotNoEvent
<1>5. MarshalCase(e) = Delimited(\h6a, MarshalLogDBCompactedEvent(v))
      BY <1>3, <1>4 DEF MarshalCase
<1>6. SizeCase(e) = DelimitedSize(SizeLogDBCompactedEvent(v))
      BY <1>3, <1>4 DEF SizeCase
<1> QED
    BY <1>1, <1>2, <1>5, <1>6, Saying DEF e

\* The case ConnectionEstablished of an event, by its own tag.
LEMMA ConnectionEstablishedSays ==
  ASSUME NEW v \in AOfConnection
  PROVE Says([case |-> "ConnectionEstablished", v |-> v],
            MarshalCase([case |-> "ConnectionEstablished", v |-> v]),
            SizeCase([case |-> "ConnectionEstablished", v |-> v]))
<1>1. Tagged("Event", \h72, 14, OneOf("ConnectionEstablished", "ConnectionEstablishedEvent"))
      BY EventFacts DEF Tagged, OneOf
<1>2. PartOf("ConnectionEstablishedEvent", MarshalConnectionEstablishedEvent(v), v,
          SizeConnectionEstablishedEvent(v))
      BY OfConnectionPartOf DEF MarshalConnectionEstablishedEvent, SizeConnectionEstablishedEvent,
                MarshalOfConnection, SizeOfConnection
<1> DEFINE e == [case |-> "ConnectionEstablished", v |-> v]
<1>3. e.case = "ConnectionEstablished" /\ e.v = v
      OBVIOUS
<1> HIDE DEF e
<1>4. e # NoEvent
      BY <1>3, NotNoEvent
<1>5. MarshalCase(e) = Delimited(\h72, MarshalConnectionEstablishedEvent(v))
      BY <1>3, <1>4 DEF MarshalCase
<1>6. SizeCase(e) = DelimitedSize(SizeConnectionEstablishedEvent(v))
      BY <1>3, <1>4 DEF SizeCase
<1> QED
    BY <1>1, <1>2, <1>5, <1>6, Saying DEF e

\* The case ConnectionFailed of an event, by its own tag.
LEMMA ConnectionFailedSays ==
  ASSUME NEW v \in AOfConnection
  PROVE Says([case |-> "ConnectionFailed", v |-> v], MarshalCase([case |-> "ConnectionFailed",
            v |-> v]), SizeCase([case |-> "ConnectionFailed", v |-> v]))
<1>1. Tagged("Event", \h7a, 15, OneOf("ConnectionFailed", "ConnectionFailedEvent"))
      BY EventFacts DEF Tagged, OneOf
<1>2. PartOf("ConnectionFailedEvent", MarshalConnectionFailedEvent(v), v, SizeConnectionFailedEvent(v))
      BY OfConnectionPartOf DEF MarshalConnectionFailedEvent, SizeConnectionFailedEvent,
                MarshalOfConnection, SizeOfConnection
<1> DEFINE e == [case |-> "ConnectionFailed", v |-> v]
<1>3. e.case = "ConnectionFailed" /\ e.v = v
      OBVIOUS
<1> HIDE DEF e
<1>4. e # NoEvent
      BY <1>3, NotNoEvent
<1>5. MarshalCase(e) = Delimited(\h7a, MarshalConnectionFailedEvent(v))
      BY <1>3, <1>4 DEF MarshalCase
<1>6. SizeCase(e) = DelimitedSize(SizeConnectionFailedEvent(v))
      BY <1>3, <1>4 DEF SizeCase
<1> QED
    BY <1>1, <1>2, <1>5, <1>6, Saying DEF e

\* Every case of an event, by its own tag.
LEMMA CaseSays ==
  ASSUME NEW e \in ACase
  PROVE Says(e, MarshalCase(e), SizeCase(e))
<1>1. e = [case |-> e.case, v |-> e.v]
      BY DEF ACase
<1>2. CASE e.case = "MemberReady" /\ e.v \in AOfMember
      BY <1>1, <1>2, MemberReadySays
<1>3. CASE e.case = "LeaderUpdated" /\ e.v \in ALeaderUpdated
      BY <1>1, <1>3, LeaderUpdatedSays
<1>4. CASE e.case = "MembershipChanged" /\ e.v \in AOfMember
      BY <1>1, <1>4, MembershipChangedSays
<1>5. CASE e.case = "SendSnapshotStarted" /\ e.v \in ASendSnapshot
      BY <1>1, <1>5, SendSnapshotStartedSays
<1>6. CASE e.case = "SendSnapshotCompleted" /\ e.v \in ASendSnapshot
      BY <1>1, <1>6, SendSnapshotCompletedSays
<1>7. CASE e.case = "SendSnapshotAborted" /\ e.v \in ASendSnapshot
      BY <1>1, <1>7, SendSnapshotAbortedSays
<1>8. CASE e.case = "SnapshotReceived" /\ e.v \in ASnapshotReceived
      BY <1>1, <1>8, SnapshotReceivedSays
<1>9. CASE e.case = "SnapshotRecovered" /\ e.v \in AIndexed
      BY <1>1, <1>9, SnapshotRecoveredSays
<1>10. CASE e.case = "SnapshotCreated" /\ e.v \in AIndexed
      BY <1>1, <1>10, SnapshotCreatedSays
<1>11. CASE e.case = "SnapshotCompacted" /\ e.v \in AIndexed
      BY <1>1, <1>11, SnapshotCompactedSays
<1>12. CASE e.case = "LogCompacted" /\ e.v \in AIndexed
      BY <1>1, <1>12, LogCompactedSays
<1>13. CASE e.case = "LogdbCompacted" /\ e.v \in AIndexed
      BY <1>1, <1>13, LogdbCompactedSays
<1>14. CASE e.case = "ConnectionEstablished" /\ e.v \in AOfConnection
      BY <1>1, <1>14, ConnectionEstablishedSays
<1>15. CASE e.case = "ConnectionFailed" /\ e.v \in AOfConnection
      BY <1>1, <1>15, ConnectionFailedSays
<1> QED
    BY <1>2, <1>3, <1>4, <1>5, <1>6, <1>7, <1>8, <1>9, <1>10, <1>11, <1>12, <1>13, <1>14, <1>15 DEF ACase

\* An event is read from its time and its case.
LEMMA EventCase ==
  ASSUME NEW ts, NEW e, NEW p, NEW n, Says(e, p, n),
         NEW rest \in Seq(Nat),
         UnmarshalInto("Event", [Timestamp |-> ts, Event |-> e], rest)
           = Read([Timestamp |-> ts, Event |-> e], <<>>)
  PROVE UnmarshalInto("Event", [Timestamp |-> ts, Event |-> NoEvent], p \o rest)
           = Read([Timestamp |-> ts, Event |-> e], <<>>)
<1> DEFINE m == [Timestamp |-> ts, Event |-> NoEvent]
           m2 == [Timestamp |-> ts, Event |-> e]
<1>1. p # <<>> /\ e = [case |-> e.case, v |-> e.v]
      BY DEF Says
<1>2. PICK num, type, b :
         /\ num \in DOMAIN FieldsOf["Event"] /\ FieldsOf["Event"][num] = OneOf(e.case, type)
         /\ Carries(FieldsOf["Event"], num, p, b)
         /\ UnmarshalNested(type, Zero[type], b) = Read(e.v, <<>>)
      BY DEF Says
<1> DEFINE f == FieldsOf["Event"][num]
<1>3. f.name = "Event" /\ f.store = "case" /\ f.case = e.case /\ f.type = type
      BY <1>2 DEF OneOf
<1>4. IntoPartIs("Event", num, m, b, e.v)
  <2> HIDE DEF m
  <2> QED
      BY <1>2, <1>3 DEF IntoPartIs
<1>5. Puts("Event", num, e.v, m, m2)
  <2>1. \A old : Stored(f, old, e.v) = e
        BY <1>1, <1>3 DEF Stored
  <2>2. m2 = [m EXCEPT !["Event"] = e]
        OBVIOUS
  <2> HIDE DEF m, m2
  <2> QED
      BY <1>3, <2>1, <2>2 DEF Puts
<1> HIDE DEF m, m2
<1>6. UnmarshalInto("Event", m2, rest) = Read(m2, <<>>)
      BY DEF m2
<1>7. UnmarshalInto("Event", m, p \o rest) = Read(m2, <<>>)
      BY <1>1, <1>2, <1>4, <1>5, <1>6, IntoPart
<1> QED
    BY <1>7 DEF m, m2

\* The bytes of an Event are as many as its size.
LEMMA EventWritten ==
  ASSUME NEW m \in AnEvent
  PROVE Sized(MarshalEvent(m), SizeEvent(m))
<1> DEFINE ts == m.Timestamp
           p1 == Delimited(\ha, ts)
           s1 == DelimitedSize(Len(ts))
           p2 == MarshalCase(m.Event)
           s2 == SizeCase(m.Event)
<1>1. ts \in Short /\ m.Event \in ACase
      BY DEF AnEvent
<1>2. Sized(p1, s1)
  <2> DEFINE n == Len(ts)
  <2>1. ts \in Seq(Nat) /\ n \in Nat /\ n < pow2[WideBits]
        BY <1>1, ShortIs
  <2>2. p1 \in Seq(Nat) /\ Len(p1) = s1 /\ s1 \in n..(1 + n + MaxGroups)
        BY <2>1, DelimitedWritten
  <2>3. n \in Nat /\ s1 \in n..(1 + n + MaxGroups)
        BY <2>1, <2>2
  <2> HIDE DEF n, s1
  <2>4. s1 \in Nat
        BY ONLY <2>3
  <2> QED
      BY <2>2, <2>4 DEF Sized
<1>3. Sized(p2, s2)
      BY <1>1, CaseSays DEF Says
<1>4. MarshalEvent(m) = Cat(p1, p2) /\ SizeEvent(m) = s1 + s2
      BY DEF MarshalEvent, SizeEvent, Cat
<1> HIDE DEF p1, p2, s1, s2
<1> QED
    BY <1>2, <1>3, <1>4, SizedCat

\* The bytes of an Event are read into a new message, which is then the one written.
LEMMA EventRead ==
  ASSUME NEW m \in AnEvent, NEW rest, AreBytes(rest),
         UnmarshalInto("Event", m, rest) = Read(m, <<>>)
  PROVE UnmarshalInto("Event", Zero["Event"], MarshalEvent(m) \o rest) = Read(m, <<>>)
<1> DEFINE T == "Event"
           none == <<>>
           ts == m.Timestamp
           e == m.Event
           p1 == Delimited(\ha, ts)
           p2 == MarshalCase(e)
           m0 == [Timestamp |-> none, Event |-> NoEvent]
           m1 == [Timestamp |-> ts, Event |-> NoEvent]
           m2 == [Timestamp |-> ts, Event |-> e]
           c1 == p2 \o rest
           c0 == p1 \o c1
<1>1. ts \in Short /\ e \in ACase /\ m = m2
      BY DEF AnEvent
<1>2. AreBytes(p1)
      BY <1>1, ShortIs, DelimitedWritten DEF AreBytes
<1>3. Says(e, p2, SizeCase(e)) /\ AreBytes(p2)
      BY <1>1, CaseSays DEF Says, Sized, AreBytes
<1>4. Tells(T, "Timestamp", none, p1, ts) /\ Becomes(m0, "Timestamp", none, ts, m1)
  <2>1. Tagged(T, \ha, 1, Bytes("Timestamp"))
        BY EventFacts DEF Tagged, Bytes
  <2> HIDE DEF ts, e
  <2>2. Tells(T, "Timestamp", none, p1, ts)
        BY <1>1, <2>1, TextTells
  <2> HIDE DEF none, p1, p2
  <2>3. Becomes(m0, "Timestamp", none, ts, m1)
        BY DEF Becomes
  <2> QED
      BY <2>2, <2>3
<1>5. c1 \in Seq(Nat)
  <2> HIDE DEF p1, p2
  <2> QED
      BY <1>3, Before1 DEF AreBytes
<1>6. MarshalEvent(m) \o rest = c0
  <2>1. MarshalEvent(m) = Cat(p1, p2)
        BY DEF MarshalEvent, Cat
  <2> HIDE DEF p1, p2
  <2>2. Cat(Cat(p1, p2), rest) = Cat(p1, Cat(p2, rest))
        BY <1>2, <1>3, CatCat
  <2> QED
      BY <2>1, <2>2, Zenon DEF Cat
<1>7. Zero[T] = m0
      BY EventFacts
<1>8. UnmarshalInto(T, m2, rest) = Read(m2, <<>>)
      BY <1>1
<1>9. UnmarshalInto(T, m1, c1) = Read(m2, <<>>)
  <2>1. rest \in Seq(Nat)
        BY DEF AreBytes
  <2> HIDE DEF p1, p2, ts, e
  <2> QED
      BY <1>3, <1>8, <2>1, EventCase
<1>10. c0 = p1 \o c1
      OBVIOUS
<1> HIDE DEF T, none, ts, e, p1, p2, m0, m1, m2, c0, c1
<1>11. UnmarshalInto(T, m0, c0) = Read(m2, <<>>)
      BY <1>4, <1>5, <1>9, <1>10, IntoTold
<1>12. UnmarshalInto(T, Zero[T], MarshalEvent(m) \o rest) = Read(m, <<>>)
      BY <1>1, <1>6, <1>7, <1>11
<1> QED
    BY <1>12 DEF T

-----------------------------------------------------------------------------
\* Fields of a newer writer

\* Where a turn of skipProtocol leads, by the wire type of the tag it reads.
LEMMA SkipReads ==
  ASSUME NEW depth, NEW d, NEW tag, NEW rest, readVarint(d) = Read(tag, rest)
  PROVE /\ \A v, r : tag % 8 = 0 /\ readVarint(rest) = Read(v, r) => SkipTurn(depth, d) = Read(depth, r)
        /\ \A v, r : tag % 8 = 1 /\ Advance(rest, 8) = Read(v, r) => SkipTurn(depth, d) = Read(depth, r)
        /\ \A v, r : tag % 8 = 2 /\ readDelimited(rest) = Read(v, r) => SkipTurn(depth, d) = Read(depth, r)
        /\ \A v, r : tag % 8 = 5 /\ Advance(rest, 4) = Read(v, r) => SkipTurn(depth, d) = Read(depth, r)
        /\ tag % 8 = 3 => SkipTurn(depth, d) = Read(depth + 1, rest)
        /\ tag % 8 = 4 /\ depth # 0 => SkipTurn(depth, d) = Read(depth - 1, rest)
<1> DEFINE first == readVarint(d)
           w == first.v % 8
           value == CASE w = 0 -> readVarint(first.rest)
                    [] w = 1 -> Advance(first.rest, 8)
                    [] w = 2 -> readDelimited(first.rest)
                    [] w = 3 -> first
                    [] w = 4 -> IF depth = 0 THEN Failed("unexpected end of group") ELSE first
                    [] w = 5 -> Advance(first.rest, 4)
                    [] OTHER -> Failed("illegal wireType")
           inside == CASE w = 3 -> depth + 1 [] w = 4 -> depth - 1 [] OTHER -> depth
<1>1. SkipTurn(depth, d) = IF first.err # "" THEN first
                           ELSE IF value.err # "" THEN value ELSE Read(inside, value.rest)
      BY DEF SkipTurn
<1>2. Read(tag, rest).err = "" /\ Read(tag, rest).v = tag /\ Read(tag, rest).rest = rest
      BY ReadFields
<1>3. first.err = "" /\ first.v = tag /\ first.rest = rest
      BY <1>2
<1>4. \A v, r : Read(v, r).err = "" /\ Read(v, r).rest = r
      BY ReadFields
<1> HIDE DEF w, first
<1>5. w = 0 => value = readVarint(first.rest) /\ inside = depth
      OBVIOUS
<1>6. w = 1 => value = Advance(first.rest, 8) /\ inside = depth
      OBVIOUS
<1>7. w = 2 => value = readDelimited(first.rest) /\ inside = depth
      OBVIOUS
<1>8. w = 5 => value = Advance(first.rest, 4) /\ inside = depth
      OBVIOUS
<1>9. w = 3 => value = first /\ inside = depth + 1
      OBVIOUS
<1>10. w = 4 /\ depth # 0 => value = first /\ inside = depth - 1
      OBVIOUS
<1> HIDE DEF value, inside
<1>11. ASSUME NEW v, NEW r, value = Read(v, r) PROVE SkipTurn(depth, d) = Read(inside, r)
  <2>1. value.err = "" /\ value.rest = r
        BY <1>4, <1>11
  <2> QED
      BY <1>1, <1>3, <2>1
<1>12. ASSUME value = first PROVE SkipTurn(depth, d) = Read(inside, rest)
      BY <1>1, <1>3, <1>12
<1>13. w = tag % 8
      BY <1>3 DEF w
<1> QED
    BY <1>3, <1>5, <1>6, <1>7, <1>8, <1>9, <1>10, <1>11, <1>12, <1>13

\* The turns of skipProtocol's loop.
SkipRun(d) ==
  LET past[n \in Nat] == IF n = 0 THEN SkipTurn(0, d) ELSE SkipFurther(past[n - 1])
  IN past
\* The turns of the loop of skipProtocol.
LEMMA SkipTurns ==
  ASSUME NEW d
  PROVE /\ skip(d) = SkipRun(d)[Len(d)]
        /\ SkipRun(d)[0] = SkipTurn(0, d)
        /\ \A n \in Nat : SkipRun(d)[n + 1] = SkipFurther(SkipRun(d)[n])
<1> DEFINE f[n \in Nat] == IF n = 0 THEN SkipTurn(0, d) ELSE SkipFurther(f[n - 1])
<1>1. skip(d) = f[Len(d)]
      BY DEF skip
<1>2. f = [n \in Nat |-> IF n = 0 THEN SkipTurn(0, d) ELSE SkipFurther(f[n - 1])]
      OBVIOUS
<1>3. f = SkipRun(d)
      BY DEF SkipRun
<1> HIDE DEF f
<1>4. f[0] = SkipTurn(0, d)
      BY <1>2
<1>5. ASSUME NEW n \in Nat PROVE f[n + 1] = SkipFurther(f[n])
  <2>1. n + 1 \in Nat /\ n + 1 # 0 /\ (n + 1) - 1 = n
        OBVIOUS
  <2> QED
      BY <1>2, <2>1
<1> QED
    BY <1>1, <1>3, <1>4, <1>5

\* Out of all groups, skipProtocol stays where it is.
LEMMA SkipEnds ==
  ASSUME NEW d \in Seq(Nat), NEW k \in Nat, k <= Len(d), NEW rest, SkipRun(d)[k] = Read(0, rest)
  PROVE skip(d) = Read(0, rest)
<1> DEFINE f == SkipRun(d)
           L == Len(d)
           end == Read(0, rest)
           S == {n \in Nat : f[k + n] = end}
<1>1. /\ skip(d) = f[L] /\ \A n \in Nat : f[n + 1] = SkipFurther(f[n])
      BY SkipTurns
<1>2. SkipFurther(end) = end
      BY DEF SkipFurther, Read
<1>3. f[k] = end /\ L \in Nat /\ k <= L
      OBVIOUS
<1> HIDE DEF f, end, L
<1>4. 0 \in S
      BY <1>3
<1>5. ASSUME NEW n \in Nat, n \in S PROVE n + 1 \in S
  <2>1. k + n \in Nat /\ k + (n + 1) = (k + n) + 1
        OBVIOUS
  <2>2. f[k + n] = end
        BY <1>5
  <2>3. f[k + (n + 1)] = SkipFurther(f[k + n])
        BY <1>1, <2>1
  <2> QED
      BY <1>2, <2>2, <2>3
<1>6. \A n \in Nat : n \in S
  <2> HIDE DEF S
  <2> QED
      BY <1>4, <1>5, Induction
<1>7. L - k \in Nat /\ k + (L - k) = L
      BY <1>3
<1>8. f[k + (L - k)] = end
      BY <1>6, <1>7
<1>9. skip(d) = end
      BY <1>1, <1>7, <1>8
<1> QED
    BY <1>9 DEF end

\* The tag of field 20.
LEMMA Tag20Read ==
  ASSUME NEW w \in 0..5, NEW v, v = 160 + w, NEW rest \in Seq(Nat)
  PROVE /\ Tag20(w) \in Seq(Nat) /\ Len(Tag20(w)) \in Nat /\ Len(Tag20(w)) > 1
        /\ readVarint(Tag20(w) \o rest) = Read(v, rest)
        /\ fieldNum(Tag20(w) \o rest) = 20 /\ v % 8 = w
<1>1. v \in Nat /\ v < 256 /\ v \div 8 = 20 /\ v % 8 = w
      OBVIOUS
<1>2. 256 <= pow2[WideBits]
      BY Widths
<1>3. Tag20(w) = encodeVarint[v]
      BY DEF Tag20
<1>4. v < pow2[WideBits]
      BY <1>2, <1>1, Widths
<1>5. Tag20(w) \in Seq(Nat)
      BY <1>1, <1>3, EncodeType
<1>6. readVarint(Tag20(w) \o rest) = Read(v, rest)
      BY <1>1, <1>3, <1>4, VarintRead
<1>7. Signed(20, NarrowBits) = 20
  <2>1. 20 \in Nat /\ 20 < pow2[NarrowBits - 1]
        BY Widths
  <2> QED
      BY <2>1, InWidth
<1>8. fieldNum(Tag20(w) \o rest) = 20
  <2>1. Read(v, rest).v = v
        BY ReadFields
  <2>2. readVarint(Tag20(w) \o rest).v = v
        BY <1>6, <2>1
  <2> QED
      BY <1>1, <1>7, <2>2 DEF fieldNum
<1>9. Len(Tag20(w)) > 1 /\ Len(Tag20(w)) \in Nat
  <2> DEFINE e == encodeVarint[v \div 128]
             b == (v % 128) + 128
  <2>1. v >= 128 /\ v \div 128 \in Nat /\ b \in Nat
        BY <1>1
  <2>2. e \in Seq(Nat) /\ Len(e) >= 1 /\ Len(e) \in Nat
        BY <2>1, EncodeType
  <2>3. encodeVarint[v] = <<b>> \o e
        BY <1>1, <2>1, EncodeEquation
  <2> HIDE DEF e, b
  <2>4. Len(<<b>> \o e) = 1 + Len(e)
        BY <2>1, <2>2, Bytes1
  <2> QED
      BY <1>3, <2>2, <2>3, <2>4
<1> QED
    BY <1>1, <1>5, <1>6, <1>8, <1>9

\* The tag of a field 20 is bytes.
LEMMA Tag20Type ==
  ASSUME NEW w \in 0..5
  PROVE Tag20(w) \in Seq(Nat) /\ Len(Tag20(w)) \in Nat /\ Len(Tag20(w)) > 1
<1>1. 160 + w = 160 + w /\ <<>> \in Seq(Nat)
      OBVIOUS
<1> QED
    BY <1>1, Tag20Read

\* The bytes d are a field that a reader which has no field 20 goes past.
Skipped(d) ==
  /\ d \in Seq(Nat) /\ Len(d) > 1 /\ fieldNum(d) = 20
  /\ \E tag, rest : readVarint(d) = Read(tag, rest) /\ tag % 8 # 4
  /\ skip(d) = Read(0, <<>>)

\* A field whose loop has ended after k turns is gone past.
LEMMA SkippedAtOnce ==
  ASSUME NEW w \in {0, 1, 2, 3, 5}, NEW t \in Seq(Nat), NEW k \in Nat, k <= Len(Tag20(w) \o t),
         SkipRun(Tag20(w) \o t)[k] = Read(0, <<>>)
  PROVE Skipped(Tag20(w) \o t)
<1> DEFINE d == Tag20(w) \o t
           tag == 160 + w
<1>1. w \in 0..5 /\ w # 4
      OBVIOUS
<1>2. /\ Tag20(w) \in Seq(Nat) /\ Len(Tag20(w)) > 1
      /\ readVarint(d) = Read(tag, t) /\ fieldNum(d) = 20 /\ tag % 8 = w
      BY <1>1, Tag20Read
<1>3. Len(d) = Len(Tag20(w)) + Len(t) /\ Len(t) \in Nat /\ Len(Tag20(w)) \in Nat
      BY <1>2
<1>4. d \in Seq(Nat) /\ Len(d) > 1
      BY <1>2, <1>3
<1> HIDE DEF tag
<1>5. skip(d) = Read(0, <<>>)
  <2> DEFINE none == <<>>
  <2>1. SkipRun(d)[k] = Read(0, none) /\ k <= Len(d)
        OBVIOUS
  <2> HIDE DEF d, none
  <2>2. skip(d) = Read(0, none)
        BY <1>4, <2>1, SkipEnds
  <2> QED
      BY <2>2 DEF none
<1>6. Skipped(d)
  <2> HIDE DEF d
  <2> QED
      BY <1>1, <1>2, <1>4, <1>5 DEF Skipped
<1> QED
    BY <1>6

\* A byte below 128 is an integer.
LEMMA SmallVarint ==
  ASSUME NEW v \in Nat, v < 128, NEW rest \in Seq(Nat)
  PROVE readVarint(<<v>> \o rest) = Read(v, rest)
BY TagRead

\* skipProtocol past an integer.
LEMMA UnknownVarint == Skipped(Tag20(0) \o <<200, 1>>)
<1> DEFINE t == <<200, 1>>
           d == Tag20(0) \o t
<1>1. t \in Seq(Nat) /\ t = <<200>> \o <<1>>
      OBVIOUS
<1>2. encodeVarint[200] = t
  <2>1. 200 \in Nat /\ 200 >= 128 /\ (200 % 128) + 128 = 200 /\ 200 \div 128 = 1
        OBVIOUS
  <2>2. encodeVarint[200] = <<200>> \o encodeVarint[1]
        BY <2>1, EncodeEquation
  <2>3. 1 \in Nat /\ 1 < 128
        OBVIOUS
  <2>4. encodeVarint[1] = <<1>>
        BY <2>3, EncodeEquation
  <2> QED
      BY <1>1, <2>2, <2>4
<1>3. readVarint(t) = Read(200, <<>>)
  <2>1. 200 \in Nat /\ 200 < pow2[WideBits]
        BY Widths
  <2>2. <<>> \in Seq(Nat) /\ t \o <<>> = t
        BY <1>1, Bytes2
  <2>3. readVarint(encodeVarint[200] \o <<>>) = Read(200, <<>>)
        BY <2>1, <2>2, VarintRead
  <2> QED
      BY <1>2, <2>2, <2>3
<1>4. 0 \in 0..5 /\ 160 + 0 = 160
      OBVIOUS
<1>5. readVarint(d) = Read(160, t)
  <2>1. t \in Seq(Nat)
        OBVIOUS
  <2> HIDE DEF t
  <2> QED
      BY <2>1, <1>4, Tag20Read
<1> HIDE DEF t, d
<1>6. SkipTurn(0, d) = Read(0, <<>>)
  <2>1. 160 % 8 = 0
        OBVIOUS
  <2> QED
      BY <1>3, <1>5, <2>1, SkipReads
<1>7. SkipRun(d)[0] = Read(0, <<>>)
      BY <1>6, SkipTurns
<1>8. 0 <= Len(d) /\ 0 \in Nat /\ 0 \in {0, 1, 2, 3, 5}
  <2>1. Tag20(0) \in Seq(Nat)
        BY <1>4, Tag20Type
  <2>2. d \in Seq(Nat)
        BY <1>1, <2>1 DEF d
  <2> QED
      BY <2>2
<1>9. Skipped(d)
      BY <1>1, <1>7, <1>8, SkippedAtOnce DEF d
<1> QED
    BY <1>9 DEF d, t

\* skipProtocol past delimited bytes.
LEMMA UnknownBytes == Skipped(Tag20(2) \o <<2, 8, 1>>)
<1> DEFINE t == <<2, 8, 1>>
           b == <<8, 1>>
           d == Tag20(2) \o t
<1>1. t \in Seq(Nat) /\ t = <<2>> \o b /\ b \in Seq(Nat) /\ Len(b) = 2
      OBVIOUS
<1>2. readDelimited(t) = Read(b, <<>>)
  <2>1. 2 \in Nat /\ 2 < 128 /\ 2 < pow2[WideBits - 1]
        BY Widths
  <2>2. encodeVarint[Len(b)] = <<2>>
        BY <1>1, <2>1, EncodeEquation
  <2>3. <<>> \in Seq(Nat) /\ b \o <<>> = b
        BY <1>1, Bytes2
  <2> HIDE DEF b, t
  <2>4. readDelimited(encodeVarint[Len(b)] \o (b \o <<>>)) = Read(b, <<>>)
        BY <1>1, <2>1, <2>3, DelimitedRead
  <2> QED
      BY <1>1, <2>2, <2>3, <2>4
<1>3. 2 \in 0..5 /\ 160 + 2 = 162
      OBVIOUS
<1>4. readVarint(d) = Read(162, t)
  <2>1. t \in Seq(Nat)
        OBVIOUS
  <2> HIDE DEF t
  <2> QED
      BY <2>1, <1>3, Tag20Read
<1> HIDE DEF t, d
<1>5. SkipTurn(0, d) = Read(0, <<>>)
  <2>1. 162 % 8 = 2
        OBVIOUS
  <2> QED
      BY <1>2, <1>4, <2>1, SkipReads
<1>6. SkipRun(d)[0] = Read(0, <<>>)
      BY <1>5, SkipTurns
<1>7. 0 <= Len(d) /\ 0 \in Nat /\ 2 \in {0, 1, 2, 3, 5}
  <2>1. Tag20(2) \in Seq(Nat)
        BY <1>3, Tag20Type
  <2>2. d \in Seq(Nat)
        BY <1>1, <2>1 DEF d
  <2> QED
      BY <2>2
<1>8. Skipped(d)
      BY <1>1, <1>6, <1>7, SkippedAtOnce DEF d
<1> QED
    BY <1>8 DEF d, t

\* skipProtocol past eight bytes.
LEMMA UnknownFixed64 == Skipped(Tag20(1) \o <<1, 2, 3, 4, 5, 6, 7, 8>>)
<1> DEFINE t == <<1, 2, 3, 4, 5, 6, 7, 8>>
           d == Tag20(1) \o t
<1>1. t \in Seq(Nat) /\ Len(t) = 8
      OBVIOUS
<1>2. Advance(t, 8) = Read(8, <<>>)
  <2>1. SubSeq(t, 8 + 1, 8) = <<>>
        OBVIOUS
  <2> HIDE DEF t
  <2>2. ~(8 > Len(t))
        BY <1>1
  <2> QED
      BY <1>1, <2>1, <2>2 DEF Advance, DropFirst
<1>3. 1 \in 0..5 /\ 160 + 1 = 161
      OBVIOUS
<1>4. readVarint(d) = Read(161, t)
  <2> HIDE DEF t
  <2> QED
      BY <1>1, <1>3, Tag20Read
<1> HIDE DEF t, d
<1>5. SkipTurn(0, d) = Read(0, <<>>)
  <2>1. 161 % 8 = 1
        OBVIOUS
  <2> QED
      BY <1>2, <1>4, <2>1, SkipReads
<1>6. SkipRun(d)[0] = Read(0, <<>>)
      BY <1>5, SkipTurns
<1>7. 0 <= Len(d) /\ 0 \in Nat /\ 1 \in {0, 1, 2, 3, 5}
  <2>1. Tag20(1) \in Seq(Nat)
        BY <1>3, Tag20Type
  <2>2. d \in Seq(Nat)
        BY <1>1, <2>1 DEF d
  <2> QED
      BY <2>2
<1>8. Skipped(d)
      BY <1>1, <1>6, <1>7, SkippedAtOnce DEF d
<1> QED
    BY <1>8 DEF d, t

\* skipProtocol past four bytes.
LEMMA UnknownFixed32 == Skipped(Tag20(5) \o <<1, 2, 3, 4>>)
<1> DEFINE t == <<1, 2, 3, 4>>
           d == Tag20(5) \o t
<1>1. t \in Seq(Nat) /\ Len(t) = 4
      OBVIOUS
<1>2. Advance(t, 4) = Read(4, <<>>)
  <2>1. SubSeq(t, 4 + 1, 4) = <<>>
        OBVIOUS
  <2> HIDE DEF t
  <2>2. ~(4 > Len(t))
        BY <1>1
  <2> QED
      BY <1>1, <2>1, <2>2 DEF Advance, DropFirst
<1>3. 5 \in 0..5 /\ 160 + 5 = 165
      OBVIOUS
<1>4. readVarint(d) = Read(165, t)
  <2> HIDE DEF t
  <2> QED
      BY <1>1, <1>3, Tag20Read
<1> HIDE DEF t, d
<1>5. SkipTurn(0, d) = Read(0, <<>>)
  <2>1. 165 % 8 = 5
        OBVIOUS
  <2> QED
      BY <1>2, <1>4, <2>1, SkipReads
<1>6. SkipRun(d)[0] = Read(0, <<>>)
      BY <1>5, SkipTurns
<1>7. 0 <= Len(d) /\ 0 \in Nat /\ 5 \in {0, 1, 2, 3, 5}
  <2>1. Tag20(5) \in Seq(Nat)
        BY <1>3, Tag20Type
  <2>2. d \in Seq(Nat)
        BY <1>1, <2>1 DEF d
  <2> QED
      BY <2>2
<1>8. Skipped(d)
      BY <1>1, <1>6, <1>7, SkippedAtOnce DEF d
<1> QED
    BY <1>8 DEF d, t

\* What is in the group, byte by byte.
LEMMA SevenBytes ==
  ASSUME NEW r \in Seq(Nat)
  PROVE <<\h8, 1, \hb, \h12, 1, 12, \hc>> \o r
          = <<8>> \o (<<1>> \o (<<11>> \o (<<18>> \o (<<1>> \o (<<12>> \o (<<12>> \o r))))))
<1> DEFINE s6 == <<1, 11, 18, 1, 12, 12>>
           s5 == <<11, 18, 1, 12, 12>>
           s4 == <<18, 1, 12, 12>>
           s3 == <<1, 12, 12>>
           s2 == <<12, 12>>
           s1 == <<12>>
           s7 == <<\h8, 1, \hb, \h12, 1, 12, \hc>>
<1>1. s7 = <<8>> \o s6
      OBVIOUS
<1>2. s6 = <<1>> \o s5
      OBVIOUS
<1>3. s5 = <<11>> \o s4
      OBVIOUS
<1>4. s4 = <<18>> \o s3
      OBVIOUS
<1>5. s3 = <<1>> \o s2
      OBVIOUS
<1>6. s2 = <<12>> \o s1
      OBVIOUS
<1>7. s1 \in Seq(Nat) /\ s2 \in Seq(Nat) /\ s3 \in Seq(Nat) /\ s4 \in Seq(Nat) /\ s5 \in Seq(Nat)
          /\ s6 \in Seq(Nat)
      OBVIOUS
<1>8. 1 \in Nat /\ 8 \in Nat /\ 11 \in Nat /\ 12 \in Nat /\ 18 \in Nat
      OBVIOUS
<1> HIDE DEF s1, s2, s3, s4, s5, s6, s7
<1>9. AreBytes(r) /\ AreBytes(s1) /\ AreBytes(s2) /\ AreBytes(s3) /\ AreBytes(s4) /\ AreBytes(s5)
          /\ AreBytes(s6)
      BY <1>7 DEF AreBytes
<1>10. Cat(s2, r) = Byte(12, Cat(s1, r))
  <2>1. s2 = Byte(12, s1)
        BY <1>6 DEF Byte
  <2> QED
      BY <1>8, <1>9, <2>1, ByteCat
<1>11. Cat(s3, r) = Byte(1, Cat(s2, r))
  <2>1. s3 = Byte(1, s2)
        BY <1>5 DEF Byte
  <2> QED
      BY <1>8, <1>9, <2>1, ByteCat
<1>12. Cat(s4, r) = Byte(18, Cat(s3, r))
  <2>1. s4 = Byte(18, s3)
        BY <1>4 DEF Byte
  <2> QED
      BY <1>8, <1>9, <2>1, ByteCat
<1>13. Cat(s5, r) = Byte(11, Cat(s4, r))
  <2>1. s5 = Byte(11, s4)
        BY <1>3 DEF Byte
  <2> QED
      BY <1>8, <1>9, <2>1, ByteCat
<1>14. Cat(s6, r) = Byte(1, Cat(s5, r))
  <2>1. s6 = Byte(1, s5)
        BY <1>2 DEF Byte
  <2> QED
      BY <1>8, <1>9, <2>1, ByteCat
<1>15. Cat(s7, r) = Byte(8, Cat(s6, r))
  <2>1. s7 = Byte(8, s6)
        BY <1>1 DEF Byte
  <2> QED
      BY <1>8, <1>9, <2>1, ByteCat
<1>16. Cat(s7, r) = Byte(8, Byte(1, Byte(11, Byte(18, Byte(1, Byte(12, Cat(s1, r)))))))
      BY <1>10, <1>11, <1>12, <1>13, <1>14, <1>15
<1> QED
    BY <1>16, Zenon DEF Byte, Cat, s1, s7

\* A turn inside a group.
LEMMA FurtherIs ==
  ASSUME NEW n, n # 0, NEW r
  PROVE SkipFurther(Read(n, r)) = SkipTurn(n, r)
BY DEF SkipFurther, Read

\* skipProtocol past a group, in six turns: its start, an integer, the start and
\* the content and the end of a group in it, and its end.
LEMMA UnknownGroup == Skipped(Tag20(3) \o (<<\h8, 1, \hb, \h12, 1, 12, \hc>> \o Tag20(4)))
<1> DEFINE none == <<>>
           r6 == Tag20(4)
           r5 == <<12>> \o r6
           a == <<12>>
           r4a == a \o r5
           r4 == <<1>> \o r4a
           r3 == <<18>> \o r4
           r2 == <<11>> \o r3
           r1 == <<1>> \o r2
           r0 == <<8>> \o r1
           t == <<\h8, 1, \hb, \h12, 1, 12, \hc>> \o r6
           d == Tag20(3) \o t
           f == SkipRun(d)
<1>1. 4 \in 0..5 /\ 3 \in 0..5 /\ 160 + 3 = 163 /\ 160 + 4 = 164 /\ none \in Seq(Nat) /\ a \in Seq(Nat)
      OBVIOUS
<1>2. r6 \in Seq(Nat) /\ Tag20(3) \in Seq(Nat)
      BY <1>1, Tag20Type
<1>3. readVarint(r6) = Read(164, none)
  <2>1. readVarint(Tag20(4) \o none) = Read(164, none)
    <3>1. none \in Seq(Nat)
          OBVIOUS
    <3> HIDE DEF none, t, d
    <3> QED
        BY <1>1, <3>1, Tag20Read
  <2>2. r6 \o none = r6
        BY <1>2, Bytes2
  <2> QED
      BY <2>1, <2>2
<1>4. t = r0
      BY <1>2, SevenBytes
<1>5. 12 \in Nat /\ 1 \in Nat /\ 18 \in Nat /\ 11 \in Nat /\ 8 \in Nat
      OBVIOUS
<1> HIDE DEF none, r6
<1>6. r5 \in Seq(Nat)
      BY <1>2, <1>5, Bytes1
<1>7. r4a \in Seq(Nat)
      BY <1>5, <1>6, Bytes1
<1> HIDE DEF r5
<1>8. r4 \in Seq(Nat)
  <2> HIDE DEF r4a
  <2> QED
      BY <1>5, <1>7, Bytes1
<1>9. r3 \in Seq(Nat)
  <2> HIDE DEF r4
  <2> QED
      BY <1>5, <1>8, Bytes1
<1>10. r2 \in Seq(Nat)
  <2> HIDE DEF r3
  <2> QED
      BY <1>5, <1>9, Bytes1
<1>11. r1 \in Seq(Nat)
  <2> HIDE DEF r2
  <2> QED
      BY <1>5, <1>10, Bytes1
<1>12. r0 \in Seq(Nat)
  <2> HIDE DEF r1
  <2> QED
      BY <1>5, <1>11, Bytes1
<1>13. r0 = <<8>> \o r1
      OBVIOUS
<1>14. r1 = <<1>> \o r2
      OBVIOUS
<1>15. r2 = <<11>> \o r3
      OBVIOUS
<1>16. r3 = <<18>> \o r4
      OBVIOUS
<1>17. readDelimited(r4) = Read(a, r5)
  <2>1. Len(a) = 1 /\ encodeVarint[1] = <<1>>
    <3>1. 1 \in Nat /\ 1 < 128
          OBVIOUS
    <3> QED
        BY <3>1, EncodeEquation
  <2>2. 1 < pow2[WideBits - 1]
        BY Widths
  <2>3. r4 = <<1>> \o (a \o r5)
        OBVIOUS
  <2> HIDE DEF a, r4
  <2>4. readDelimited(encodeVarint[Len(a)] \o (a \o r5)) = Read(a, r5)
        BY <1>1, <1>6, <2>1, <2>2, DelimitedRead
  <2> QED
      BY <2>1, <2>3, <2>4
<1>18. readVarint(r5) = Read(12, r6)
      BY <1>2, SmallVarint DEF r5
<1> HIDE DEF r0, r1, r2, r3, r4, r4a, a
<1>19. readVarint(r0) = Read(8, r1)
      BY <1>11, <1>13, SmallVarint
<1>20. readVarint(r1) = Read(1, r2)
      BY <1>10, <1>14, SmallVarint
<1>21. readVarint(r2) = Read(11, r3)
      BY <1>9, <1>15, SmallVarint
<1>22. readVarint(r3) = Read(18, r4)
      BY <1>8, <1>16, SmallVarint
<1>23. readVarint(d) = Read(163, r0)
  <2> HIDE DEF t
  <2>1. t \in Seq(Nat)
        BY <1>4, <1>12
  <2> QED
      BY <1>1, <1>4, <2>1, Tag20Read
<1>24. f[0] = SkipTurn(0, d) /\ \A n \in Nat : f[n + 1] = SkipFurther(f[n])
  <2> HIDE DEF d
  <2> QED
      BY SkipTurns
<1>25. Len(d) >= 5
  <2>1. Len(Tag20(3)) \in Nat /\ Len(Tag20(3)) > 0
        BY <1>1, Tag20Type
  <2> DEFINE s == <<\h8, 1, \hb, \h12, 1, 12, \hc>>
  <2>2. s \in Seq(Nat) /\ Len(s) = 7
        OBVIOUS
  <2> HIDE DEF s
  <2>3. t \in Seq(Nat) /\ Len(t) = 7 + Len(r6) /\ Len(r6) \in Nat
        BY <1>2, <2>2, Bytes2 DEF s
  <2> HIDE DEF t
  <2>4. Len(d) = Len(Tag20(3)) + Len(t)
        BY <1>2, <2>3, Bytes2
  <2> HIDE DEF d
  <2> QED
      BY <2>1, <2>3, <2>4
<1>26. t \in Seq(Nat)
      BY <1>4, <1>12
<1> HIDE DEF d, f, t
<1>27. f[0] = Read(1, r0)
  <2>1. 163 % 8 = 3 /\ 0 + 1 = 1
        OBVIOUS
  <2>2. SkipTurn(0, d) = Read(0 + 1, r0)
        BY <1>23, <2>1, SkipReads
  <2> QED
      BY <1>24, <2>1, <2>2
<1>28. f[1] = Read(1, r2)
  <2>1. 8 % 8 = 0 /\ 1 # 0 /\ 0 + 1 = 1 /\ 0 \in Nat
        OBVIOUS
  <2>2. SkipTurn(1, r0) = Read(1, r2)
        BY <1>19, <1>20, <2>1, SkipReads
  <2>3. SkipFurther(Read(1, r0)) = SkipTurn(1, r0)
        BY <2>1, FurtherIs
  <2>4. f[0 + 1] = SkipFurther(f[0])
        BY <1>24, <2>1
  <2> QED
      BY <1>27, <2>1, <2>2, <2>3, <2>4
<1>29. f[2] = Read(2, r3)
  <2>1. 11 % 8 = 3 /\ 1 # 0 /\ 1 + 1 = 2 /\ 1 \in Nat
        OBVIOUS
  <2>2. SkipTurn(1, r2) = Read(1 + 1, r3)
        BY <1>21, <2>1, SkipReads
  <2>3. SkipFurther(Read(1, r2)) = SkipTurn(1, r2)
        BY <2>1, FurtherIs
  <2>4. f[1 + 1] = SkipFurther(f[1])
        BY <1>24, <2>1
  <2> QED
      BY <1>28, <2>1, <2>2, <2>3, <2>4
<1>30. f[3] = Read(2, r5)
  <2>1. 18 % 8 = 2 /\ 2 # 0 /\ 2 + 1 = 3 /\ 2 \in Nat
        OBVIOUS
  <2>2. SkipTurn(2, r3) = Read(2, r5)
        BY <1>17, <1>22, <2>1, SkipReads
  <2>3. SkipFurther(Read(2, r3)) = SkipTurn(2, r3)
        BY <2>1, FurtherIs
  <2>4. f[2 + 1] = SkipFurther(f[2])
        BY <1>24, <2>1
  <2> QED
      BY <1>29, <2>1, <2>2, <2>3, <2>4
<1>31. f[4] = Read(1, r6)
  <2>1. 12 % 8 = 4 /\ 2 # 0 /\ 3 + 1 = 4 /\ 3 \in Nat /\ 2 - 1 = 1
        OBVIOUS
  <2>2. SkipTurn(2, r5) = Read(2 - 1, r6)
        BY <1>18, <2>1, SkipReads
  <2>3. SkipFurther(Read(2, r5)) = SkipTurn(2, r5)
        BY <2>1, FurtherIs
  <2>4. f[3 + 1] = SkipFurther(f[3])
        BY <1>24, <2>1
  <2> QED
      BY <1>30, <2>1, <2>2, <2>3, <2>4
<1>32. f[5] = Read(0, none)
  <2>1. 164 % 8 = 4 /\ 1 # 0 /\ 4 + 1 = 5 /\ 4 \in Nat /\ 1 - 1 = 0
        OBVIOUS
  <2>2. SkipTurn(1, r6) = Read(1 - 1, none)
        BY <1>3, <2>1, SkipReads
  <2>3. SkipFurther(Read(1, r6)) = SkipTurn(1, r6)
        BY <2>1, FurtherIs
  <2>4. f[4 + 1] = SkipFurther(f[4])
        BY <1>24, <2>1
  <2> QED
      BY <1>31, <2>1, <2>2, <2>3, <2>4
<1>33. Skipped(d)
  <2>1. 5 \in Nat /\ 3 \in {0, 1, 2, 3, 5}
        OBVIOUS
  <2>2. SkipRun(d)[5] = Read(0, <<>>) /\ 5 <= Len(d) /\ d = Tag20(3) \o t
    <3>1. SkipRun(d)[5] = Read(0, <<>>)
          BY <1>32 DEF f, none
    <3>2. d = Tag20(3) \o t
          BY DEF d
    <3> QED
        BY <1>25, <3>1, <3>2
  <2> QED
      BY <1>26, <2>1, <2>2, SkippedAtOnce
<1> QED
    BY <1>33 DEF d, t, r6

\* A reader without a field 20 skips one.
LEMMA SkippedField ==
  ASSUME NEW fields, 20 \notin DOMAIN fields, NEW d, Skipped(d)
  PROVE readField(fields, d) = Read(0, <<>>) /\ fieldNum(d) = 20
<1>1. PICK tag, rest : readVarint(d) = Read(tag, rest) /\ tag % 8 # 4
      BY DEF Skipped
<1>2. Read(tag, rest).err = "" /\ Read(tag, rest).v = tag
      BY DEF Read
<1>3. readVarint(d).err = "" /\ readVarint(d).v % 8 # 4
      BY <1>1, <1>2
<1>4. fieldNum(d) = 20 /\ skip(d) = Read(0, <<>>)
      BY DEF Skipped
<1>5. ~(fieldNum(d) <= 0) /\ fieldNum(d) \notin DOMAIN fields
      BY <1>4
<1> QED
    BY <1>3, <1>4, <1>5, Zenon DEF readField

\* A message that is read on over a field to be skipped stays as it is.
LEMMA SkippedInto ==
  ASSUME NEW type, 20 \notin DOMAIN FieldsOf[type], NEW m, NEW d, Skipped(d)
  PROVE UnmarshalInto(type, m, d) = Read(m, <<>>) /\ AreBytes(d)
<1> DEFINE none == <<>>
<1>1. none \in Seq(Nat) /\ d \in Seq(Nat) /\ Len(d) > 1 /\ d # <<>>
      BY DEF Skipped
<1>2. d \o none = d
      BY <1>1, Bytes2
<1>3. IntoTurn(type, Read(m, d)) = Read(m, none)
  <2>1. readField(FieldsOf[type], d) = Read(0, none) /\ fieldNum(d) = 20
        BY SkippedField
  <2> HIDE DEF none
  <2>2. Read(0, none).err = "" /\ Read(0, none).rest = none
        BY DEF Read
  <2>3. Read(m, d).err = "" /\ Read(m, d).v = m /\ Read(m, d).rest = d
        BY DEF Read
  <2> QED
      BY <1>1, <2>1, <2>2, <2>3 DEF IntoTurn, Turn, TakeField, switchField, readValue, storeValue
<1>4. UnmarshalInto(type, m, none) = Read(m, <<>>)
      BY IntoEnd
<1> HIDE DEF none
<1>5. UnmarshalInto(type, m, d \o none) = Read(m, <<>>)
  <2>1. d \in Seq(Nat) /\ none \in Seq(Nat) /\ Len(d) > 1
        BY <1>1
  <2>2. IntoTurn(type, Read(m, d \o none)) = Read(m, none)
        BY <1>2, <1>3
  <2> QED
      BY <2>1, <2>2, <1>4, IntoStep
<1> QED
    BY <1>1, <1>2, <1>5 DEF AreBytes

\* Every field that a newer writer appends is gone past.
LEMMA UnknownSkipped ==
  ASSUME NEW w \in {0, 1, 2, 3, 5}
  PROVE Skipped(UnknownField(w))
<1>1. CASE w = 0
  <2>1. UnknownValue(0) = <<200, 1>>
        BY DEF UnknownValue
  <2> QED
      BY <1>1, <2>1, UnknownVarint DEF UnknownField
<1>2. CASE w = 1
  <2>1. UnknownValue(1) = <<1, 2, 3, 4, 5, 6, 7, 8>>
        BY DEF UnknownValue
  <2> QED
      BY <1>2, <2>1, UnknownFixed64 DEF UnknownField
<1>3. CASE w = 2
  <2>1. UnknownValue(2) = <<2, 8, 1>>
        BY DEF UnknownValue
  <2> QED
      BY <1>3, <2>1, UnknownBytes DEF UnknownField
<1>4. CASE w = 3
  <2>1. UnknownValue(3) = <<\h8, 1, \hb, \h12, 1, 12, \hc>> \o Tag20(4)
        BY DEF UnknownValue
  <2> QED
      BY <1>4, <2>1, UnknownGroup DEF UnknownField
<1>5. CASE w = 5
  <2>1. UnknownValue(5) = <<1, 2, 3, 4>>
        BY DEF UnknownValue
  <2> QED
      BY <1>5, <2>1, UnknownFixed32 DEF UnknownField
<1> QED
    BY <1>1, <1>2, <1>3, <1>4, <1>5

\* A message that is read on over what a newer writer appends stays as it is.
LEMMA NewerSkipped ==
  ASSUME NEW type, 20 \notin DOMAIN FieldsOf[type], NEW m, NEW more \in FromNewer
  PROVE UnmarshalInto(type, m, more) = Read(m, <<>>) /\ AreBytes(more)
<1>1. CASE more = <<>>
  <2>1. UnmarshalInto(type, m, <<>>) = Read(m, <<>>) /\ AreBytes(<<>>)
        BY IntoEnd DEF AreBytes
  <2> QED
      BY <1>1, <2>1
<1>2. CASE \E w \in {0, 1, 2, 3, 5} : more = UnknownField(w)
  <2>1. Skipped(more)
        BY <1>2, UnknownSkipped
  <2> QED
      BY <2>1, SkippedInto
<1> QED
    BY <1>1, <1>2 DEF FromNewer

-----------------------------------------------------------------------------
\* Whole messages

\* A message of a type, whichever its values are.
IsMessage(type, m) ==
  \/ type = "RaftProposal" /\ m \in ARaftProposal
  \/ type \in {"BootstrapRequest", "JoinRequest"} /\ m \in AGroupRequest
  \/ type = "LeaveRequest" /\ m \in ALeaveRequest
  \/ type = "Event" /\ m \in AnEvent
  \/ type \in {"BootstrapResponse", "JoinResponse", "LeaveResponse", "WatchRequest"} /\ m = <<>>

\* A buffer of the right size is filled by what is written.
LEMMA Filled ==
  ASSUME NEW w, NEW n, Sized(w, n)
  PROVE SubSeq([i \in 1..(n - Len(w)) |-> 0] \o w, 1, Len(w)) = w
<1> DEFINE z == [i \in 1..(n - Len(w)) |-> 0]
<1>1. w \in Seq(Nat) /\ n \in Nat /\ Len(w) = n
      BY DEF Sized
<1>2. 1..(n - Len(w)) = {}
      BY <1>1
<1>3. z = <<>>
      BY <1>2
<1> HIDE DEF z
<1>4. z \o w = w
      BY <1>1, <1>3, Bytes2
<1>5. SubSeq(w, 1, Len(w)) = w
      BY <1>1
<1> QED
    BY <1>4, <1>5 DEF z

\* Marshal returns what was written, with no panic.
LEMMA Marshalled ==
  ASSUME NEW type, NEW m, Sized(Written(type, m), Size(type, m))
  PROVE Marshal(type, m) = Read(Written(type, m), <<>>)
<1> DEFINE w == Written(type, m)
           n == Size(type, m)
<1>1. ~(n < Len(w))
      BY DEF Sized
<1>2. SubSeq([i \in 1..(n - Len(w)) |-> 0] \o w, 1, Len(w)) = w
  <2> HIDE DEF w, n
  <2> QED
      BY Filled DEF w, n
<1>3. Marshal(type, m)
        = IF n < Len(w) THEN Failed("index out of range")
          ELSE Read(SubSeq([i \in 1..(n - Len(w)) |-> 0] \o w, 1, Len(w)), <<>>)
      BY DEF Marshal
<1> HIDE DEF w, n
<1> QED
    BY <1>1, <1>2, <1>3 DEF w

\* No message has a field 20.
LEMMA No20 ==
  ASSUME NEW type, NEW m, IsMessage(type, m)
  PROVE 20 \notin DOMAIN FieldsOf[type]
<1>1. CASE type = "RaftProposal"
      BY <1>1, RaftProposalFacts
<1>2. CASE type \in {"BootstrapRequest", "JoinRequest"}
      BY <1>2, GroupRequestFacts
<1>3. CASE type = "LeaveRequest"
      BY <1>3, LeaveRequestFacts
<1>4. CASE type = "Event"
      BY <1>4, EventFacts
<1>5. CASE type \in {"BootstrapResponse", "JoinResponse", "LeaveResponse", "WatchRequest"}
  <2>1. DOMAIN <<>> = {}
        OBVIOUS
  <2> QED
      BY <1>5, <2>1, EmptyFacts
<1> QED
    BY <1>1, <1>2, <1>3, <1>4, <1>5 DEF IsMessage

\* A message is written in as many bytes as its size says, and is read from
\* these and whatever the reader goes past.
Travels(type, m) ==
  /\ Sized(Written(type, m), Size(type, m))
  /\ \A rest : AreBytes(rest) /\ UnmarshalInto(type, m, rest) = Read(m, <<>>)
       => UnmarshalInto(type, Zero[type], Written(type, m) \o rest) = Read(m, <<>>)

\* What is written of a RaftProposal is read again.
LEMMA RaftProposalTravels ==
  ASSUME NEW m \in ARaftProposal
  PROVE Travels("RaftProposal", m)
<1>1. FieldsOf["RaftProposal"] # <<>>
  <2>1. DOMAIN <<>> = {}
        OBVIOUS
  <2>2. 1 \in DOMAIN FieldsOf["RaftProposal"]
        BY RaftProposalFacts
  <2> QED
      BY <2>1, <2>2
<1>2. Written("RaftProposal", m) = MarshalRaftProposal(m) /\ Size("RaftProposal", m) = SizeRaftProposal(m)
      BY <1>1 DEF Written, Size
<1>3. Sized(MarshalRaftProposal(m), SizeRaftProposal(m))
  <2>1. /\ MarshalRaftProposal(m) \in Seq(Nat) /\ Len(MarshalRaftProposal(m)) = SizeRaftProposal(m)
        BY RaftProposalWritten
  <2> QED
      BY <2>1 DEF Sized
<1>4. ASSUME NEW rest, AreBytes(rest), UnmarshalInto("RaftProposal", m, rest) = Read(m, <<>>)
      PROVE UnmarshalInto("RaftProposal", Zero["RaftProposal"], MarshalRaftProposal(m) \o rest) = Read(m, <<>>)
      BY <1>4, RaftProposalRead
<1> QED
    BY <1>2, <1>3, <1>4, Zenon DEF Travels

\* What is written of a BootstrapRequest or JoinRequest is read again.
LEMMA GroupRequestTravels ==
  ASSUME NEW type \in {"BootstrapRequest", "JoinRequest"}, NEW m \in AGroupRequest
  PROVE Travels(type, m)
<1>1. FieldsOf[type] # <<>>
  <2>1. DOMAIN <<>> = {}
        OBVIOUS
  <2>2. 1 \in DOMAIN FieldsOf[type]
        BY GroupRequestFacts
  <2> QED
      BY <2>1, <2>2
<1>2. Written(type, m) = MarshalGroupRequest(m) /\ Size(type, m) = SizeGroupRequest(m)
      BY <1>1 DEF Written, Size, MarshalBootstrapRequest, SizeBootstrapRequest, MarshalJoinRequest,
                SizeJoinRequest,
             MarshalGroupRequest, SizeGroupRequest
<1>3. Sized(MarshalGroupRequest(m), SizeGroupRequest(m))
  <2>1. /\ MarshalGroupRequest(m) \in Seq(Nat) /\ Len(MarshalGroupRequest(m)) = SizeGroupRequest(m)
        BY GroupRequestWritten
  <2> QED
      BY <2>1 DEF Sized
<1>4. ASSUME NEW rest, AreBytes(rest), UnmarshalInto(type, m, rest) = Read(m, <<>>)
      PROVE UnmarshalInto(type, Zero[type], MarshalGroupRequest(m) \o rest) = Read(m, <<>>)
      BY <1>4, GroupRequestRead
<1> QED
    BY <1>2, <1>3, <1>4, Zenon DEF Travels

\* What is written of a LeaveRequest is read again.
LEMMA LeaveRequestTravels ==
  ASSUME NEW m \in ALeaveRequest
  PROVE Travels("LeaveRequest", m)
<1>1. FieldsOf["LeaveRequest"] # <<>>
  <2>1. DOMAIN <<>> = {}
        OBVIOUS
  <2>2. 1 \in DOMAIN FieldsOf["LeaveRequest"]
        BY LeaveRequestFacts
  <2> QED
      BY <2>1, <2>2
<1>2. Written("LeaveRequest", m) = MarshalLeaveRequest(m) /\ Size("LeaveRequest", m) = SizeLeaveRequest(m)
      BY <1>1 DEF Written, Size
<1>3. Sized(MarshalLeaveRequest(m), SizeLeaveRequest(m))
  <2>1. /\ MarshalLeaveRequest(m) \in Seq(Nat) /\ Len(MarshalLeaveRequest(m)) = SizeLeaveRequest(m)
        BY LeaveRequestWritten
  <2> QED
      BY <2>1 DEF Sized
<1>4. ASSUME NEW rest, AreBytes(rest), UnmarshalInto("LeaveRequest", m, rest) = Read(m, <<>>)
      PROVE UnmarshalInto("LeaveRequest", Zero["LeaveRequest"], MarshalLeaveRequest(m) \o rest) = Read(m, <<>>)
      BY <1>4, LeaveRequestRead
<1> QED
    BY <1>2, <1>3, <1>4, Zenon DEF Travels

\* What is written of an Event is read again.
LEMMA EventTravels ==
  ASSUME NEW m \in AnEvent
  PROVE Travels("Event", m)
<1>1. FieldsOf["Event"] # <<>>
  <2>1. DOMAIN <<>> = {}
        OBVIOUS
  <2>2. 1 \in DOMAIN FieldsOf["Event"]
        BY EventFacts
  <2> QED
      BY <2>1, <2>2
<1>2. Written("Event", m) = MarshalEvent(m) /\ Size("Event", m) = SizeEvent(m)
      BY <1>1 DEF Written, Size
<1>3. Sized(MarshalEvent(m), SizeEvent(m))
      BY EventWritten
<1>4. ASSUME NEW rest, AreBytes(rest), UnmarshalInto("Event", m, rest) = Read(m, <<>>)
      PROVE UnmarshalInto("Event", Zero["Event"], MarshalEvent(m) \o rest) = Read(m, <<>>)
      BY <1>4, EventRead
<1> QED
    BY <1>2, <1>3, <1>4, Zenon DEF Travels

\* What is written of the messages without fields is read again.
LEMMA EmptyTravels ==
  ASSUME NEW type \in {"BootstrapResponse", "JoinResponse", "LeaveResponse", "WatchRequest"}
  PROVE Travels(type, <<>>)
<1> DEFINE none == <<>>
<1>1. FieldsOf[type] = <<>> /\ Zero[type] = <<>>
      BY EmptyFacts
<1>2. Written(type, none) = <<>> /\ Size(type, none) = 0
      BY <1>1 DEF Written, Size
<1>3. Sized(none, 0)
      BY DEF Sized
<1>4. ASSUME NEW rest, AreBytes(rest), UnmarshalInto(type, none, rest) = Read(none, <<>>)
      PROVE UnmarshalInto(type, Zero[type], none \o rest) = Read(none, <<>>)
  <2>1. rest \in Seq(Nat)
        BY <1>4 DEF AreBytes
  <2>2. none \o rest = rest
        BY <2>1, Bytes2
  <2> QED
      BY <1>1, <1>4, <2>2
<1> HIDE DEF none
<1>5. Travels(type, none)
  <2>1. Written(type, none) = none /\ Size(type, none) = 0
        BY <1>2 DEF none
  <2> QED
      BY <2>1, <1>3, <1>4, Zenon DEF Travels
<1> QED
    BY <1>5 DEF none

\* What is written of any message is read again.
LEMMA MessageTravels ==
  ASSUME NEW type, NEW m, IsMessage(type, m)
  PROVE Travels(type, m)
<1>1. CASE type = "RaftProposal" /\ m \in ARaftProposal
      BY <1>1, RaftProposalTravels
<1>2. CASE type \in {"BootstrapRequest", "JoinRequest"} /\ m \in AGroupRequest
      BY <1>2, GroupRequestTravels
<1>3. CASE type = "LeaveRequest" /\ m \in ALeaveRequest
      BY <1>3, LeaveRequestTravels
<1>4. CASE type = "Event" /\ m \in AnEvent
      BY <1>4, EventTravels
<1>5. CASE type \in {"BootstrapResponse", "JoinResponse", "LeaveResponse", "WatchRequest"} /\ m = <<>>
      BY <1>5, EmptyTravels
<1> QED
    BY <1>1, <1>2, <1>3, <1>4, <1>5 DEF IsMessage

\* A message's Marshal fills a buffer of exactly its Size, with no panic, and
\* its Unmarshal makes the message of the bytes again, with or without the
\* fields of a newer writer behind them.
THEOREM RoundTrip ==
  ASSUME NEW type, NEW m, IsMessage(type, m), NEW more \in FromNewer
  PROVE /\ Marshal(type, m).err = ""
        /\ Unmarshal(type, Marshal(type, m).v \o more) = Read(m, <<>>)
<1> DEFINE w == Written(type, m)
           none == <<>>
<1>1. Travels(type, m)
      BY MessageTravels
<1>2. Sized(w, Size(type, m))
      BY <1>1 DEF Travels
<1>3. Marshal(type, m) = Read(w, none)
      BY <1>2, Marshalled
<1>4. UnmarshalInto(type, m, more) = Read(m, none) /\ AreBytes(more)
      BY No20, NewerSkipped
<1>5. UnmarshalInto(type, Zero[type], w \o more) = Read(m, none)
      BY <1>1, <1>4, Zenon DEF Travels
<1> HIDE DEF w, none
<1>6. Read(w, none).err = "" /\ Read(w, none).v = w
      BY DEF Read
<1>7. Marshal(type, m).err = "" /\ Marshal(type, m).v = w
      BY <1>3, <1>6
<1>8. Unmarshal(type, w \o more) = Read(m, none)
      BY <1>5 DEF Unmarshal
<1> QED
    BY <1>7, <1>8 DEF none

-----------------------------------------------------------------------------
\* What is sent

\* The power outgrows twice its exponent.
LEMMA PowersTwice == \A n \in Nat : n >= 8 => pow2[n] >= 2 * n + 240
<1> DEFINE S == {j \in Nat : pow2[8 + j] >= 2 * (8 + j) + 240}
<1>1. 0 \in S
  <2>1. 8 \in Nat /\ 8 >= 8
        OBVIOUS
  <2>2. pow2[8] >= 256
        BY <2>1, PowersHere
  <2> QED
      BY <2>2
<1>2. ASSUME NEW j \in Nat, j \in S PROVE j + 1 \in S
  <2>1. 8 + j \in Nat /\ 8 + (j + 1) = (8 + j) + 1
        OBVIOUS
  <2>2. pow2[(8 + j) + 1] = 2 * pow2[8 + j] /\ pow2[8 + j] \in Nat
        BY <2>1, PowerEquation, PowerType
  <2> DEFINE p == pow2[8 + j]
             q == pow2[8 + (j + 1)]
  <2>3. p >= 2 * (8 + j) + 240 /\ q = 2 * p /\ p \in Nat
        BY <1>2, <2>1, <2>2
  <2> HIDE DEF p, q
  <2>4. q >= 2 * (8 + (j + 1)) + 240
        BY <2>3
  <2> QED
      BY <2>4 DEF q
<1>3. \A j \in Nat : j \in S
  <2> HIDE DEF S
  <2> QED
      BY <1>1, <1>2, Induction
<1> SUFFICES ASSUME NEW n \in Nat, n >= 8 PROVE pow2[n] >= 2 * n + 240
    OBVIOUS
<1>4. n - 8 \in Nat /\ 8 + (n - 8) = n
      OBVIOUS
<1> QED
    BY <1>3, <1>4

\* The identifiers are of 32 bits, the terms and indices of 64.
LEMMA InType ==
  /\ Group \subseteq Narrow /\ MemberId \subseteq Narrow /\ Numbers \subseteq Wide
  /\ protocolPort \in Narrow1 /\ Addresses \subseteq Short /\ Commands \subseteq Short
            /\ Timestamps \subseteq Short
  /\ \A v \in Int : Unsigned(v, NarrowBits) \in Narrow
<1>1. pow2[NarrowBits] \in Nat /\ pow2[NarrowBits - 1] \in Nat
      BY Widths
<1>2. Group \subseteq Narrow /\ MemberId \subseteq Narrow
  <2>1. ASSUME NEW n \in Group \cup MemberId PROVE n \in Nat /\ n < pow2[NarrowBits]
        BY ProtocolAssumption, BootstrapAssumption
  <2> QED
      BY <1>1, <2>1 DEF Narrow
<1>3. Numbers \subseteq Wide
      BY ProtocolAssumption DEF Wide
<1>4. protocolPort \in Narrow1
      BY <1>1, ProtocolAssumption DEF Narrow1, protocolPort
<1>5. Addresses \subseteq Short /\ Commands \subseteq Short /\ Timestamps \subseteq Short
      BY ProtocolAssumption, LengthAssumption DEF Short
<1>6. ASSUME NEW v \in Int PROVE Unsigned(v, NarrowBits) \in Narrow
  <2>1. Unsigned(v, NarrowBits) \in Nat /\ Unsigned(v, NarrowBits) < pow2[NarrowBits]
        BY UnsignedType
  <2> QED
      BY <1>1, <2>1 DEF Narrow
<1> QED
    BY <1>2, <1>3, <1>4, <1>5, <1>6

\* A name of one byte is short.
LEMMA HostShort ==
  ASSUME NEW p \in Nat
  PROVE getPodDNSName(p) \in Short
<1> DEFINE n == WideBits - 1
<1>1. n \in Nat /\ n >= 8 /\ WideBits \in Nat
      BY Widths
<1>2. pow2[n] >= 2 * n + 240
      BY <1>1, PowersTwice
<1>3. pow2[n] \in Nat
      BY <1>1, PowerType
<1>4. 1 + 2 * WideBits < pow2[WideBits - 1]
  <2> DEFINE q == pow2[WideBits - 1]
  <2>1. q >= 2 * (WideBits - 1) + 240 /\ q \in Nat
        BY <1>2, <1>3
  <2> HIDE DEF q
  <2>2. 1 + 2 * WideBits < q
        BY <1>1, <2>1
  <2> QED
      BY <2>2 DEF q
<1>5. <<p>> \in Seq(Nat) /\ Len(<<p>>) = 1
      OBVIOUS
<1> QED
    BY <1>4, <1>5 DEF getPodDNSName, Short

\* The configuration of a group that the reconciler sends.
LEMMA ConfigIs ==
  ASSUME NEW s \in Specs, NEW g \in Group, NEW m \in MemberId, NEW type \in MemberType
  PROVE groupConfig(s, g, m, type) \in AGroupConfig
<1> DEFINE list == memberConfigs(s, g)
           n == getNumMembers(s)
<1>1. n \in Nat /\ 1..n \subseteq MemberId
      BY SpecFacts
<1>2. ASSUME NEW i \in 1..n
      PROVE [MemberID |-> i, Host |-> getPodDNSName(getPodName(s, g, i)),
                Port |-> protocolPort] \in AMemberConfig
  <2>1. getPodName(s, g, i) \in Nat
        BY PodOfMember, BootstrapAssumption
  <2>2. getPodDNSName(getPodName(s, g, i)) \in Short
        BY <2>1, HostShort
  <2>3. i \in Narrow /\ protocolPort \in Narrow1
        BY <1>1, InType
  <2> QED
      BY <2>2, <2>3 DEF AMemberConfig
<1>3. list \in Seq(AMemberConfig)
  <2>1. list \in [1..n -> AMemberConfig]
        BY <1>2 DEF memberConfigs
  <2> HIDE DEF list, n
  <2> QED
      BY <1>1, <2>1
<1>4. role(type) \in Narrow1
  <2>1. role(type) \in {1, 2, 3}
        BY DEF role, MemberType, MemberRole_MEMBER, MemberRole_OBSERVER, MemberRole_WITNESS
  <2>2. pow2[NarrowBits - 1] \in Nat /\ pow2[NarrowBits - 1] >= 256
        BY Widths
  <2> QED
      BY <2>1, <2>2 DEF Narrow1
<1>5. g \in Narrow /\ m \in Narrow
      BY InType
<1> DEFINE config0 == groupConfig(s, g, m, type)
<1>6. config0 = [GroupID |-> g, MemberID |-> m, Role |-> role(type), Members |-> list]
      BY DEF groupConfig
<1> HIDE DEF list
<1>7. config0 \in [GroupID : Narrow, MemberID : Narrow, Role : Narrow1, Members : Seq(AMemberConfig)]
      BY <1>3, <1>4, <1>5, <1>6
<1>8. SizeGroupConfig(config0) < pow2[WideBits - 1]
      BY LengthAssumption
<1> HIDE DEF config0
<1>9. config0 \in AGroupConfig
      BY <1>7, <1>8 DEF AGroupConfig
<1> QED
    BY <1>9 DEF config0

\* The bootstrap request that a node reads is the one that the reconciler sent.
THEOREM CodecCorrect ==
  \A s \in Specs, g \in Group, m \in MemberId, type \in MemberType :
    CarriedRequest(bootstrapRequest(s, g, m, type)) = bootstrapRequest(s, g, m, type)
<1> SUFFICES ASSUME NEW s \in Specs, NEW g \in Group, NEW m \in MemberId, NEW type \in MemberType
             PROVE CarriedRequest(bootstrapRequest(s, g, m, type)) = bootstrapRequest(s, g, m, type)
    OBVIOUS
<1> DEFINE r == bootstrapRequest(s, g, m, type)
           T == "BootstrapRequest"
           none == <<>>
           b == Marshal(T, r).v
<1>1. r \in AGroupRequest
      BY ConfigIs DEF bootstrapRequest, AGroupRequest
<1> HIDE DEF r
<1>2. IsMessage(T, r)
      BY <1>1 DEF IsMessage
<1>3. Travels(T, r)
      BY <1>2, MessageTravels
<1>4. Marshal(T, r) = Read(Written(T, r), none) /\ AreBytes(Written(T, r))
  <2>1. Sized(Written(T, r), Size(T, r))
        BY <1>3 DEF Travels
  <2> QED
      BY <2>1, Marshalled DEF Sized, AreBytes
<1>5. none \in FromNewer
      BY DEF FromNewer
<1>6. Unmarshal(T, b \o none) = Read(r, none)
      BY <1>2, <1>5, RoundTrip
<1>7. b \o none = b
  <2> HIDE DEF none, T
  <2>1. Read(Written(T, r), none).v = Written(T, r)
        BY DEF Read
  <2>2. b = Written(T, r)
        BY <1>4, <2>1
  <2>3. b \in Seq(Nat)
        BY <1>4, <2>2 DEF AreBytes
  <2> QED
      BY <2>3, Bytes2 DEF none
<1>8. Unmarshal(T, b) = Read(r, none)
      BY <1>6, <1>7
<1>9. CarriedRequest(r) = Unmarshal(T, b).v
      BY DEF CarriedRequest
<1> HIDE DEF b, none
<1>10. Read(r, none).v = r
      BY DEF Read
<1> QED
    BY <1>8, <1>9, <1>10 DEF r

-----------------------------------------------------------------------------
\* What is on its way

\* The inductive invariant of the wire: what was sent is a message of its type,
\* as its writer wrote it, and what was received is what was sent.
WireOK ==
  \/ wire.state = "silent"
  \/ wire.state = "sent" /\ IsMessage(wire.type, wire.m) /\ wire.bytes = Marshal(wire.type, wire.m)
  \/ wire.state = "received" /\ wire.got = Read(wire.m, <<>>)

\* A message that is sent is on its way as it was marshalled.
LEMMA SendStep ==
  ASSUME NEW type, NEW m, IsMessage(type, m), Send(type, m)
  PROVE WireOK'
<1> DEFINE w == [state |-> "sent", type |-> type, m |-> m, bytes |-> Marshal(type, m)]
<1>1. wire' = w
      BY DEF Send
<1>2. w.state = "sent" /\ w.type = type /\ w.m = m /\ w.bytes = Marshal(type, m)
      OBVIOUS
<1> HIDE DEF w
<1>3. wire'.state = "sent" /\ wire'.type = type /\ wire'.m = m /\ wire'.bytes = Marshal(type, m)
      BY <1>1, <1>2
<1> QED
    BY <1>3 DEF WireOK

\* The events of a member, of a connection, of a snapshot and of the log are of
\* their types.
LEMMA MemberIs ==
  ASSUME NEW info, info.ClusterID \in Int, info.NodeID \in Int
  PROVE Member(info) \in AMemberEvent /\ Unsigned(info.NodeID, NarrowBits) \in Narrow
BY InType DEF Member, AMemberEvent

\* An event that is published is a message.
LEMMA publishStep ==
  ASSUME NEW event \in ACase, publish(event)
  PROVE WireOK'
<1>1. PICK t \in Timestamps : Send("Event", [Timestamp |-> t, Event |-> event])
      BY DEF publish
<1>2. [Timestamp |-> t, Event |-> event] \in AnEvent
      BY InType DEF AnEvent
<1>3. IsMessage("Event", [Timestamp |-> t, Event |-> event])
      BY <1>2 DEF IsMessage
<1> QED
    BY <1>1, <1>3, SendStep

\* What the listener makes of the library's calls are events.
LEMMA AnnounceStep ==
  ASSUME IInv, NEW p \in Pod, NEW g \in Group, Announce(p, g)
  PROVE WireOK'
<1> DEFINE id == nodes[p][g].raft.NodeID
<1>1. g \in Int /\ id \in Int /\ \A m \in MemberId \cup {0} : m \in Int
  <2>1. Group \subseteq Nat /\ MemberId \subseteq Nat
        BY BootstrapAssumption
  <2>2. id \in MemberId
        BY DEF Announce, IInv, NodesFollow
  <2> HIDE DEF id
  <2> QED
      BY <2>1, <2>2
<1>2. ASSUME publish(NodeReady(NodeInfo(p, g))) \/ publish(MembershipChanged(NodeInfo(p, g)))
      PROVE WireOK'
  <2> DEFINE info == NodeInfo(p, g)
             v == [MemberEvent |-> Member(info)]
  <2>1. info.ClusterID \in Int /\ info.NodeID \in Int
        BY <1>1 DEF NodeInfo, id
  <2> HIDE DEF info
  <2>2. v \in AOfMember
        BY <2>1, MemberIs DEF AOfMember
  <2>3. NodeReady(info) = [case |-> "MemberReady", v |-> v]
            /\ MembershipChanged(info) = [case |-> "MembershipChanged", v |-> v]
        BY DEF NodeReady, MembershipChanged
  <2> HIDE DEF v
  <2>4. NodeReady(info) \in ACase /\ MembershipChanged(info) \in ACase
        BY <2>2, <2>3 DEF ACase
  <2> QED
      BY <1>2, <2>4, publishStep DEF info
<1>3. ASSUME NEW info \in LeaderInfo(p, g), publish(LeaderUpdated(info))
      PROVE WireOK'
  <2> DEFINE v == [MemberEvent |-> Member(info), Term |-> info.Term, Leader |-> Unsigned(info.LeaderID,
            NarrowBits)]
  <2>1. info.ClusterID \in Int /\ info.NodeID \in Int /\ info.Term \in Numbers /\ info.LeaderID \in Int
        BY <1>1 DEF LeaderInfo, id
  <2>2. v \in ALeaderUpdated
        BY <2>1, MemberIs, InType DEF ALeaderUpdated
  <2>3. LeaderUpdated(info) = [case |-> "LeaderUpdated", v |-> v]
        BY DEF LeaderUpdated
  <2> HIDE DEF v
  <2>4. LeaderUpdated(info) \in ACase
        BY <2>2, <2>3 DEF ACase
  <2> QED
      BY <1>3, <2>4, publishStep
<1>4. ASSUME NEW info \in SnapshotInfo(p, g),
             \/ publish(SendSnapshotStarted(info)) \/ publish(SendSnapshotCompleted(info))
             \/ publish(SendSnapshotAborted(info)) \/ publish(SnapshotReceived(info))
             \/ publish(SnapshotRecovered(info)) \/ publish(SnapshotCreated(info))
             \/ publish(SnapshotCompacted(info))
      PROVE WireOK'
  <2> DEFINE v == SendSnapshot(info)
             w == [MemberEvent |-> Member(info), Index |-> info.Index, From |-> Unsigned(info.From, NarrowBits)]
             x == Indexed(info)
  <2>1. info.ClusterID \in Int /\ info.NodeID \in Int /\ info.Index \in Numbers /\ info.From \in Int
        BY <1>1 DEF SnapshotInfo, id
  <2>2. v \in ASendSnapshot
        BY <2>1, MemberIs, InType DEF SendSnapshot, ASendSnapshot
  <2>3. w \in ASnapshotReceived
        BY <2>1, MemberIs, InType DEF ASnapshotReceived
  <2>4. x \in AIndexed
        BY <2>1, MemberIs, InType DEF Indexed, AIndexed
  <2>5. /\ SendSnapshotStarted(info) = [case |-> "SendSnapshotStarted", v |-> v]
        /\ SendSnapshotCompleted(info) = [case |-> "SendSnapshotCompleted", v |-> v]
        /\ SendSnapshotAborted(info) = [case |-> "SendSnapshotAborted", v |-> v]
        /\ SnapshotReceived(info) = [case |-> "SnapshotReceived", v |-> w]
        /\ SnapshotRecovered(info) = [case |-> "SnapshotRecovered", v |-> x]
        /\ SnapshotCreated(info) = [case |-> "SnapshotCreated", v |-> x]
        /\ SnapshotCompacted(info) = [case |-> "SnapshotCompacted", v |-> x]
        BY DEF SendSnapshotStarted, SendSnapshotCompleted, SendSnapshotAborted, SnapshotReceived,
               SnapshotRecovered, SnapshotCreated, SnapshotCompacted
  <2> HIDE DEF v, w, x
  <2>6. /\ SendSnapshotStarted(info) \in ACase /\ SendSnapshotCompleted(info) \in ACase
        /\ SendSnapshotAborted(info) \in ACase
        BY <2>2, <2>5 DEF ACase
  <2>7. SnapshotReceived(info) \in ACase
        BY <2>3, <2>5 DEF ACase
  <2>8. /\ SnapshotRecovered(info) \in ACase /\ SnapshotCreated(info) \in ACase
        /\ SnapshotCompacted(info) \in ACase
        BY <2>4, <2>5 DEF ACase
  <2> QED
      BY <1>4, <2>6, <2>7, <2>8, publishStep
<1>5. ASSUME NEW info \in EntryInfo(p, g), publish(LogCompacted(info)) \/ publish(LogDBCompacted(info))
      PROVE WireOK'
  <2> DEFINE x == Indexed(info)
  <2>1. info.ClusterID \in Int /\ info.NodeID \in Int /\ info.Index \in Numbers
        BY <1>1 DEF EntryInfo, id
  <2>2. x \in AIndexed
        BY <2>1, MemberIs, InType DEF Indexed, AIndexed
  <2>3. /\ LogCompacted(info) = [case |-> "LogCompacted", v |-> x]
        /\ LogDBCompacted(info) = [case |-> "LogdbCompacted", v |-> x]
        BY DEF LogCompacted, LogDBCompacted
  <2> HIDE DEF x
  <2>4. LogCompacted(info) \in ACase /\ LogDBCompacted(info) \in ACase
        BY <2>2, <2>3 DEF ACase
  <2> QED
      BY <1>5, <2>4, publishStep
<1>6. ASSUME NEW info \in ConnectionInfo,
             publish(ConnectionEstablished(info)) \/ publish(ConnectionFailed(info))
      PROVE WireOK'
  <2> DEFINE v == [ConnectionInfo |-> Connection(info)]
  <2>1. info.Address \in Short /\ info.SnapshotConnection \in BOOLEAN
        BY InType DEF ConnectionInfo
  <2>2. v \in AOfConnection
        BY <2>1 DEF Connection, AConnectionInfo, AOfConnection
  <2>3. /\ ConnectionEstablished(info) = [case |-> "ConnectionEstablished", v |-> v]
        /\ ConnectionFailed(info) = [case |-> "ConnectionFailed", v |-> v]
        BY DEF ConnectionEstablished, ConnectionFailed
  <2> HIDE DEF v
  <2>4. ConnectionEstablished(info) \in ACase /\ ConnectionFailed(info) \in ACase
        BY <2>2, <2>3 DEF ACase
  <2> QED
      BY <1>6, <2>4, publishStep
<1> QED
    BY <1>2, <1>3, <1>4, <1>5, <1>6 DEF Announce

\* What Propose appends to the log is a RaftProposal.
LEMMA ProposeStep == Propose => WireOK'
<1> SUFFICES ASSUME Propose PROVE WireOK'
    OBVIOUS
<1>1. PICK t \in Numbers, n \in Numbers, data \in Commands :
        Send("RaftProposal", [Term |-> t, SequenceNum |-> n, Data |-> data])
      BY DEF Propose
<1> DEFINE m == [Term |-> t, SequenceNum |-> n, Data |-> data]
<1>2. m \in ARaftProposal
      BY InType DEF ARaftProposal
<1> HIDE DEF m
<1>3. IsMessage("RaftProposal", m)
      BY <1>2 DEF IsMessage
<1> QED
    BY <1>1, <1>3, SendStep DEF m

\* The other requests and the answers are messages.
LEMMA RequestStep ==
  ASSUME IInv, Request
  PROVE WireOK'
<1>1. ASSUME NEW g \in Group, NEW m \in MemberId, NEW type \in MemberType,
             Send("JoinRequest", [Group |-> groupConfig(cluster, g, m, type)])
      PROVE WireOK'
  <2> DEFINE r == [Group |-> groupConfig(cluster, g, m, type)]
  <2>1. cluster \in Specs
        BY DEF IInv, TypeOK
  <2>2. r \in AGroupRequest
        BY <2>1, ConfigIs DEF AGroupRequest
  <2> HIDE DEF r
  <2>3. IsMessage("JoinRequest", r)
        BY <2>2 DEF IsMessage
  <2> QED
      BY <1>1, <2>3, SendStep DEF r
<1>2. ASSUME NEW g \in Group, Send("LeaveRequest", [GroupID |-> g])
      PROVE WireOK'
  <2>1. [GroupID |-> g] \in ALeaveRequest
        BY InType DEF ALeaveRequest
  <2>2. IsMessage("LeaveRequest", [GroupID |-> g])
        BY <2>1 DEF IsMessage
  <2> QED
      BY <1>2, <2>2, SendStep
<1>3. ASSUME NEW type \in {"WatchRequest", "BootstrapResponse", "JoinResponse", "LeaveResponse"},
             Send(type, <<>>)
      PROVE WireOK'
  <2>1. IsMessage(type, <<>>)
        BY DEF IsMessage
  <2> QED
      BY <1>3, <2>1, SendStep
<1> QED
    BY <1>1, <1>2, <1>3 DEF Request

\* What is received is what was sent.
LEMMA ReceiveStep ==
  ASSUME WireOK, Receive
  PROVE WireOK'
<1> DEFINE T == wire.type
           x == wire.m
           b == wire.bytes
           Got(more) == IF b.err # "" THEN b ELSE Unmarshal(T, b.v \o more)
           Received(more) == [state |-> "received", m |-> x, got |-> Got(more)]
<1>1. IsMessage(T, x) /\ b = Marshal(T, x)
      BY DEF WireOK, Receive
<1>2. PICK more \in FromNewer : wire' = Received(more)
      BY DEF Receive
<1> HIDE DEF T, x, b
<1>3. b.err = "" /\ Unmarshal(T, b.v \o more) = Read(x, <<>>)
      BY <1>1, RoundTrip
<1>4. Got(more) = Read(x, <<>>)
      BY <1>3
<1> HIDE DEF Got
<1>5. Received(more).state = "received" /\ Received(more).m = x /\ Received(more).got = Got(more)
      OBVIOUS
<1> HIDE DEF Received
<1>6. wire'.state = "received" /\ wire'.got = Read(wire'.m, <<>>)
      BY <1>2, <1>4, <1>5
<1> QED
    BY <1>6 DEF WireOK

\* Every message that is received is the one that was sent.
THEOREM ProtocolCorrect == ProtocolSpec => []UnderstoodAsSent
<1>1. ProtocolInit => WireOK /\ Init
      BY DEF ProtocolInit, WireOK, Silent
<1>2. [ProtocolNext]_<<vars, wire>> => [Next]_vars
  <2>1. ASSUME NEW p \in Pod, NEW g \in Group, Announce(p, g) PROVE UNCHANGED vars
        BY <2>1 DEF Announce, publish, Send
  <2>2. ASSUME Propose \/ Request \/ Receive \/ Done PROVE UNCHANGED vars
        BY <2>2 DEF Propose, Request, Receive, Done, Send
  <2> QED
      BY <2>1, <2>2 DEF ProtocolNext
<1>3. IInv /\ WireOK /\ [ProtocolNext]_<<vars, wire>> => WireOK'
  <2> SUFFICES ASSUME IInv, WireOK, [ProtocolNext]_<<vars, wire>> PROVE WireOK'
      OBVIOUS
  <2>1. CASE UNCHANGED wire
        BY <2>1 DEF WireOK
  <2>2. CASE \E p \in Pod, g \in Group : Announce(p, g)
        BY <2>2, AnnounceStep
  <2>3. CASE Propose
        BY <2>3, ProposeStep
  <2>4. CASE Request
        BY <2>4, RequestStep
  <2>5. CASE Receive
        BY <2>5, ReceiveStep
  <2>6. CASE Done
        BY <2>6 DEF Done, Silent, WireOK
  <2> QED
      BY <2>1, <2>2, <2>3, <2>4, <2>5, <2>6 DEF ProtocolNext
<1>4. WireOK => UnderstoodAsSent
      BY DEF WireOK, UnderstoodAsSent
<1>5. ProtocolSpec => Spec
      BY <1>1, <1>2, PTL DEF ProtocolSpec, Spec
<1> QED
    BY <1>1, <1>3, <1>4, <1>5, InvariantCorrect, PTL DEF ProtocolSpec
=============================================================================
