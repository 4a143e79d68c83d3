-------------------------- MODULE Forwarding_proofs --------------------------
(***************************************************************************)
(* Proofs about the two programs that forward what others send them.       *)
(*                                                                         *)
(* The relay of the kernel sensors: what the kernel writes is reported     *)
(* under its own name, in order and at most once, nothing is lost while    *)
(* every answer is read to its end, and the relay raises only when a fetch *)
(* was cut off or the socket is closed.                                    *)
(*                                                                         *)
(* The desktop bridge: what it forwards for each of its clients.           *)
(***************************************************************************)
EXTENDS KernelRelay, DesktopBridge, SequenceTheorems, WellFoundedInduction, TLAPS

-----------------------------------------------------------------------------
(* The relay of the kernel sensors.                                        *)

Names == {KernelSensors[i] : i \in 1..Len(KernelSensors)}
Piece == [name : Names, n : Nat, half : {1, 2}]
Message == [sensor : Names, n : Nat]

RelayTypes ==
    /\ asks \in Seq(Names) /\ sock \in Seq(Piece) /\ buf \in Seq(Piece)
    /\ written \in Seq(Names) /\ sensors \in Seq(Names)
    /\ msgs \in Seq(Message) /\ out \in Seq(Message)
    /\ kernelUp \in BOOLEAN /\ interrupted \in BOOLEAN
    /\ relay \in {"new", "send", "reading", "asleep", "off", "ended"}
    /\ turn \in Nat
    /\ relay # "new" => sensors = KernelSensors /\ turn \in 1..Len(sensors)

Relayed == out \o msgs
Coming == buf \o sock

\* What was read and what is on its way are records the kernel has written,
\* under the names of their sensors.
Genuine(told, coming, wrote) ==
    /\ \A i \in 1..Len(told) : told[i].n \in 1..Len(wrote) /\ told[i].sensor = wrote[told[i].n]
    /\ \A i \in 1..Len(coming) :
           coming[i].n # 0 => coming[i].n \in 1..Len(wrote) /\ coming[i].name = wrote[coming[i].n]

\* They come in the order of their numbers, the two pieces of a line together.
Ordered(told, coming) ==
    /\ \A i, j \in 1..Len(told) : i < j => told[i].n < told[j].n
    /\ \A i \in 1..Len(told), j \in 1..Len(coming) : coming[j].n # 0 => told[i].n < coming[j].n
    /\ \A i, j \in 1..Len(coming) : i < j /\ coming[i].n # 0 /\ coming[j].n # 0 =>
           \/ coming[i].n < coming[j].n
           \/ coming[i].n = coming[j].n /\ coming[i].half = 1 /\ coming[j].half = 2

\* Whole lines, of which only the last one can say that there are no more.
Lines(coming) ==
    /\ Len(coming) > 0 => coming[1].half = 1
    /\ \A i \in 1..Len(coming) :
           /\ coming[i].half = 1 => i < Len(coming) /\ coming[i + 1].half = 2 /\ coming[i + 1].n = coming[i].n
           /\ coming[i].half = 2 /\ i < Len(coming) => coming[i + 1].half = 1
           /\ coming[i].n = 0 => i + 1 >= Len(coming)

\* Every record was read or is on its way.
Accounted(told, coming, wrote) ==
    \A n \in 1..Len(wrote) :
        \/ \E i \in 1..Len(told) : told[i].n = n
        \/ \E i \in 1..Len(coming) : coming[i].n = n /\ coming[i].half = 2

\* As long as every answer was read to its end, the relay does not ask before it
\* has read all of the previous answer.
InStep ==
    /\ relay = "reading" =>
           /\ Lines(Coming) /\ Len(asks) <= 1
           /\ asks # <<>> => \A i \in 1..Len(Coming) : Coming[i].n # 0
    /\ relay # "reading" =>
           /\ sock = <<>> /\ buf = <<>> /\ msgs = <<>>
           /\ kernelUp => asks = <<>>
    /\ relay = "ended" => ~kernelUp
    /\ Accounted(Relayed, Coming, written)

RelayInv ==
    /\ Genuine(Relayed, Coming, written)
    /\ Ordered(Relayed, Coming)
    /\ ~interrupted => InStep

-----------------------------------------------------------------------------
(* Sequences.                                                              *)

Below == {pair \in Nat \X Nat : pair[1] < pair[2]}

\* A set of natural numbers has a least one.
LEMMA Least ==
    ASSUME NEW S, S \subseteq Nat, S # {}
    PROVE  \E x \in S : \A y \in S : x <= y
<1>1. IsWellFoundedOn(Below, Nat)  BY NatLessThanWellFounded DEF OpToRel, Below
<1>2. PICK x \in S : \A y \in S : <<y, x>> \notin Below  BY <1>1, WFMin
<1>3. ASSUME NEW y \in S PROVE x <= y
  <2>1. x \in Nat /\ y \in Nat  OBVIOUS
  <2>2. y < x => <<y, x>> \in Below  BY <2>1 DEF Below
  <2> QED  BY <1>2, <2>1, <2>2
<1> QED  BY <1>3

LEMMA PiecesHaveTypes ==
    ASSUME NEW s \in Seq(Piece)
    PROVE  /\ Len(s) \in Nat /\ DOMAIN s = 1..Len(s)
           /\ \A i \in 1..Len(s) : s[i] \in Piece /\ s[i].n \in Nat /\ s[i].half \in {1, 2} /\ s[i].name \in Names
<1>1. \A i \in 1..Len(s) : s[i] \in Piece  BY ElementOfSeq
<1> QED  BY <1>1, LenProperties DEF Piece

LEMMA MessagesHaveTypes ==
    ASSUME NEW s \in Seq(Message)
    PROVE  /\ Len(s) \in Nat /\ DOMAIN s = 1..Len(s)
           /\ \A i \in 1..Len(s) : s[i] \in Message /\ s[i].n \in Nat
<1>1. \A i \in 1..Len(s) : s[i] \in Message  BY ElementOfSeq
<1> QED  BY <1>1, LenProperties DEF Message

LEMMA PiecesAssociate ==
    ASSUME NEW a \in Seq(Piece), NEW b \in Seq(Piece), NEW c \in Seq(Piece)
    PROVE  (a \o b) \o c = a \o (b \o c)
BY ConcatAssociative, SMT

\* Reading from the socket moves pieces from its front to the end of the buffer.
LEMMA PiecesMoved ==
    ASSUME NEW b \in Seq(Piece), NEW s \in Seq(Piece), NEW k \in 1..Len(s)
    PROVE  (b \o SubSeq(s, 1, k)) \o SubSeq(s, k + 1, Len(s)) = b \o s
<1>1. Len(s) \in Nat /\ \A i \in 1..Len(s) : s[i] \in Piece  BY PiecesHaveTypes
<1>2. 1 \in 1..(Len(s) + 1) /\ k \in (1 - 1)..Len(s) /\ Len(s) \in k..Len(s) /\ k \in Int /\ k + 1 \in Int  BY <1>1
<1>3. SubSeq(s, 1, k) \o SubSeq(s, k + 1, Len(s)) = SubSeq(s, 1, Len(s))
  BY <1>2, ConcatAdjacentSubSeq, Zenon
<1>4. SubSeq(s, 1, Len(s)) = s  BY SubSeqFull
<1>5. SubSeq(s, 1, k) \in Seq(Piece) /\ SubSeq(s, k + 1, Len(s)) \in Seq(Piece)
  <2>1. \A i \in 1..k : s[i] \in Piece  BY <1>1
  <2>2. \A i \in (k + 1)..Len(s) : s[i] \in Piece  BY <1>1, SMTT(30)
  <2> QED  BY <1>1, <1>2, <2>1, <2>2, SubSeqProperties
<1> DEFINE x == SubSeq(s, 1, k)
           y == SubSeq(s, k + 1, Len(s))
<1>6. x \in Seq(Piece) /\ y \in Seq(Piece) /\ x \o y = s  BY <1>3, <1>4, <1>5
<1>7. (b \o x) \o y = b \o s
  <2> HIDE DEF x, y
  <2>1. (b \o x) \o y = b \o (x \o y)  BY <1>6, PiecesAssociate, ZenonT(60)
  <2> QED  BY <1>6, <2>1
<1> QED  BY <1>7

\* The buffer's line ends at its first second piece.
LEMMA LineEndIsFirst ==
    ASSUME NEW b \in Seq(Piece), HasLine(b)
    PROVE  /\ LineEnd(b) \in 1..Len(b) /\ b[LineEnd(b)].half = 2
           /\ \A j \in 1..(LineEnd(b) - 1) : b[j].half = 1
<1>1. DOMAIN b = 1..Len(b) /\ Len(b) \in Nat /\ \A i \in 1..Len(b) : b[i].half \in {1, 2}
  BY PiecesHaveTypes
<1> DEFINE S == {i \in 1..Len(b) : b[i].half = 2}
<1>2. S \subseteq Nat /\ S # {}  BY <1>1 DEF HasLine
<1> HIDE DEF S
<1>3. PICK x \in S : \A y \in S : x <= y  BY <1>2, Least
<1>4. x \in 1..Len(b) /\ b[x].half = 2  BY <1>3 DEF S
<1>5. ASSUME NEW j \in 1..(x - 1) PROVE b[j].half = 1
  <2>1. j \in 1..Len(b) /\ ~(x <= j)  BY <1>1, <1>4
  <2>2. j \notin S  BY <2>1, <1>3
  <2> QED  BY <1>1, <2>1, <2>2 DEF S
<1>6. \E i \in DOMAIN b : b[i].half = 2 /\ \A j \in 1..(i - 1) : b[j].half = 1
  BY <1>1, <1>4, <1>5
<1>7. LineEnd(b) \in DOMAIN b /\ b[LineEnd(b)].half = 2 /\ \A j \in 1..(LineEnd(b) - 1) : b[j].half = 1
  BY <1>6, Zenon DEF LineEnd
<1> QED  BY <1>1, <1>7

\* Messages or pieces that are dropped.
LEMMA FlowDrop ==
    ASSUME NEW told \in Seq(Message), NEW coming \in Seq(Piece), NEW wrote \in Seq(Names),
           Genuine(told, coming, wrote), Ordered(told, coming),
           NEW told2 \in Seq(Message), Len(told2) <= Len(told), \A i \in 1..Len(told2) : told2[i] = told[i],
           NEW coming2 \in Seq(Piece), NEW d \in Nat, Len(coming2) + d = Len(coming),
           \A i \in 1..Len(coming2) : coming2[i] = coming[i + d]
    PROVE  Genuine(told2, coming2, wrote) /\ Ordered(told2, coming2)
<1>1. /\ Len(told) \in Nat /\ Len(told2) \in Nat /\ Len(coming) \in Nat /\ Len(coming2) \in Nat
      /\ \A i \in 1..Len(told2) : i \in 1..Len(told)
      /\ \A i \in 1..Len(coming2) : i + d \in 1..Len(coming)
  BY LenProperties
<1>2. Genuine(told2, coming2, wrote)
  <2>1. ASSUME NEW i \in 1..Len(told2)
        PROVE  told2[i].n \in 1..Len(wrote) /\ told2[i].sensor = wrote[told2[i].n]
    BY <1>1 DEF Genuine
  <2>2. ASSUME NEW i \in 1..Len(coming2), coming2[i].n # 0
        PROVE  coming2[i].n \in 1..Len(wrote) /\ coming2[i].name = wrote[coming2[i].n]
    <3>1. PICK k \in 1..Len(coming) : coming2[i] = coming[k]  BY <1>1
    <3> QED  BY <2>2, <3>1 DEF Genuine
  <2> QED  BY <2>1, <2>2 DEF Genuine
<1>3. \A i, j \in 1..Len(told2) : i < j => told2[i].n < told2[j].n  BY <1>1 DEF Ordered
<1>4. \A i \in 1..Len(told2), j \in 1..Len(coming2) : coming2[j].n # 0 => told2[i].n < coming2[j].n
  BY <1>1 DEF Ordered
<1>5. ASSUME NEW i \in 1..Len(coming2), NEW j \in 1..Len(coming2), i < j, coming2[i].n # 0, coming2[j].n # 0
      PROVE  \/ coming2[i].n < coming2[j].n
             \/ coming2[i].n = coming2[j].n /\ coming2[i].half = 1 /\ coming2[j].half = 2
  <2>1. PICK k \in 1..Len(coming) : k = i + d /\ coming2[i] = coming[k]  BY <1>1
  <2>2. PICK m \in 1..Len(coming) : m = j + d /\ coming2[j] = coming[m]  BY <1>1
  <2>3. k < m  BY <1>5, <2>1, <2>2
  <2>4. coming[k].n # 0 /\ coming[m].n # 0  BY <1>5, <2>1, <2>2
  <2>5. \/ coming[k].n < coming[m].n
        \/ coming[k].n = coming[m].n /\ coming[k].half = 1 /\ coming[m].half = 2
    BY <2>3, <2>4 DEF Ordered
  <2> QED  BY <2>1, <2>2, <2>5
<1> QED  BY <1>2, <1>3, <1>4, <1>5 DEF Ordered

\* A line that the kernel adds.
LEMMA LineAdded ==
    ASSUME NEW coming \in Seq(Piece), NEW name \in Names, NEW n \in Nat
    PROVE  /\ Pieces(name, n) \in Seq(Piece)
           /\ coming \o Pieces(name, n) \in Seq(Piece)
           /\ Len(coming \o Pieces(name, n)) = Len(coming) + 2 /\ Len(coming) \in Nat
           /\ \A i \in 1..Len(coming) : (coming \o Pieces(name, n))[i] = coming[i]
           /\ (coming \o Pieces(name, n))[Len(coming) + 1] = [name |-> name, n |-> n, half |-> 1]
           /\ (coming \o Pieces(name, n))[Len(coming) + 2] = [name |-> name, n |-> n, half |-> 2]
<1> DEFINE P == Pieces(name, n)
<1>1. P \in Seq(Piece) /\ Len(P) = 2 /\ P[1] = [name |-> name, n |-> n, half |-> 1]
                       /\ P[2] = [name |-> name, n |-> n, half |-> 2]
  BY DEF Pieces, Piece
<1> HIDE DEF P
<1>2. /\ coming \o P \in Seq(Piece) /\ Len(coming \o P) = Len(coming) + 2
      /\ \A i \in 1..(Len(coming) + 2) : (coming \o P)[i] = IF i <= Len(coming) THEN coming[i] ELSE P[i - Len(coming)]
  <2>1. /\ coming \o P \in Seq(Piece) /\ Len(coming \o P) = Len(coming) + Len(P)
        /\ \A i \in 1..(Len(coming) + Len(P)) :
               (coming \o P)[i] = IF i <= Len(coming) THEN coming[i] ELSE P[i - Len(coming)]
    BY <1>1, ConcatProperties
  <2> QED  BY <1>1, <2>1
<1>3. Len(coming) \in Nat  BY LenProperties
<1>4. (Len(coming) + 1) - Len(coming) = 1 /\ (Len(coming) + 2) - Len(coming) = 2  BY <1>3
<1>5. \A i \in 1..Len(coming) : (coming \o P)[i] = coming[i]  BY <1>2, <1>3
<1>6. (coming \o P)[Len(coming) + 1] = P[1] /\ (coming \o P)[Len(coming) + 2] = P[2]
  BY <1>2, <1>3, <1>4
<1> QED  BY <1>1, <1>2, <1>3, <1>5, <1>6 DEF P

\* The kernel writes a record, or the line that says there are no more.
Writes(wrote, wrote2, name, n) ==
    \/ n = 0 /\ wrote2 = wrote
    \/ n = Len(wrote) + 1 /\ wrote2 = Append(wrote, name)

LEMMA FlowAdd ==
    ASSUME NEW told \in Seq(Message), NEW coming \in Seq(Piece), NEW wrote \in Seq(Names),
           Genuine(told, coming, wrote), Ordered(told, coming),
           NEW name \in Names, NEW n \in Nat, NEW wrote2, Writes(wrote, wrote2, name, n)
    PROVE  /\ Genuine(told, coming \o Pieces(name, n), wrote2)
           /\ Ordered(told, coming \o Pieces(name, n))
<1> DEFINE C2 == coming \o Pieces(name, n)
<1>1. /\ C2 \in Seq(Piece) /\ Len(C2) = Len(coming) + 2 /\ Len(coming) \in Nat
      /\ \A i \in 1..Len(coming) : C2[i] = coming[i]
      /\ C2[Len(coming) + 1] = [name |-> name, n |-> n, half |-> 1]
      /\ C2[Len(coming) + 2] = [name |-> name, n |-> n, half |-> 2]
  BY LineAdded
<1> HIDE DEF C2
<1>2. /\ Len(wrote) \in Nat /\ Len(wrote2) \in Nat /\ Len(wrote) <= Len(wrote2)
      /\ \A i \in 1..Len(wrote) : wrote2[i] = wrote[i]
      /\ n # 0 => n = Len(wrote) + 1 /\ Len(wrote2) = n /\ wrote2[n] = name
  <2>1. CASE n = 0 /\ wrote2 = wrote  BY <2>1, LenProperties
  <2>2. CASE n = Len(wrote) + 1 /\ wrote2 = Append(wrote, name)
    <3>1. Len(wrote) \in Nat  BY LenProperties
    <3>2. /\ Len(Append(wrote, name)) = Len(wrote) + 1
          /\ \A i \in 1..Len(wrote) : Append(wrote, name)[i] = wrote[i]
          /\ Append(wrote, name)[Len(wrote) + 1] = name
      BY AppendProperties
    <3> QED  BY <2>2, <3>1, <3>2
  <2> QED  BY <2>1, <2>2 DEF Writes
<1>3. \A i \in 1..Len(C2) :
          i \in 1..Len(coming) \/ (i > Len(coming) /\ C2[i].n = n /\ C2[i].name = name)
  BY <1>1
<1>4. \A i \in 1..Len(told) : told[i].n \in 1..Len(wrote)  BY DEF Genuine
<1>5. \A i \in 1..Len(coming) : coming[i].n # 0 => coming[i].n \in 1..Len(wrote)  BY DEF Genuine
<1>6. Genuine(told, C2, wrote2)
  <2>1. ASSUME NEW i \in 1..Len(told)
        PROVE  told[i].n \in 1..Len(wrote2) /\ told[i].sensor = wrote2[told[i].n]
    BY <1>2, <1>4 DEF Genuine
  <2>2. ASSUME NEW i \in 1..Len(C2), C2[i].n # 0
        PROVE  C2[i].n \in 1..Len(wrote2) /\ C2[i].name = wrote2[C2[i].n]
    <3>1. CASE i \in 1..Len(coming)
      <4>1. C2[i] = coming[i]  BY <1>1, <3>1
      <4>2. coming[i].n \in 1..Len(wrote) /\ coming[i].name = wrote[coming[i].n]
        BY <2>2, <3>1, <4>1 DEF Genuine
      <4> QED  BY <1>2, <4>1, <4>2
    <3>2. CASE i \notin 1..Len(coming)  BY <1>2, <1>3, <2>2, <3>2
    <3> QED  BY <3>1, <3>2
  <2> QED  BY <2>1, <2>2 DEF Genuine
<1>7. Ordered(told, C2)
  <2>1. \A i, j \in 1..Len(told) : i < j => told[i].n < told[j].n  BY DEF Ordered
  <2>2. ASSUME NEW i \in 1..Len(told), NEW j \in 1..Len(C2), C2[j].n # 0 PROVE told[i].n < C2[j].n
    <3>1. CASE j \in 1..Len(coming)  BY <1>1, <2>2, <3>1 DEF Ordered
    <3>2. CASE j \notin 1..Len(coming)
      <4>1. C2[j].n = n  BY <1>3, <3>2
      <4>2. n = Len(wrote) + 1 /\ told[i].n \in 1..Len(wrote)  BY <1>2, <1>4, <2>2, <4>1
      <4> QED  BY <1>2, <4>1, <4>2
    <3> QED  BY <3>1, <3>2
  <2>3. ASSUME NEW i \in 1..Len(C2), NEW j \in 1..Len(C2), i < j, C2[i].n # 0, C2[j].n # 0
        PROVE  \/ C2[i].n < C2[j].n
               \/ C2[i].n = C2[j].n /\ C2[i].half = 1 /\ C2[j].half = 2
    <3>1. CASE j \in 1..Len(coming)
      <4>1. i \in 1..Len(coming)  BY <1>1, <2>3, <3>1
      <4>2. C2[i] = coming[i] /\ C2[j] = coming[j]  BY <1>1, <3>1, <4>1
      <4> QED  BY <2>3, <3>1, <4>1, <4>2 DEF Ordered
    <3>2. CASE j \notin 1..Len(coming) /\ i \in 1..Len(coming)
      <4>1. C2[j].n = n /\ C2[i] = coming[i]  BY <1>1, <1>3, <3>2
      <4> QED  BY <1>2, <1>5, <2>3, <3>2, <4>1
    <3>3. CASE j \notin 1..Len(coming) /\ i \notin 1..Len(coming)
      <4>1. i = Len(coming) + 1 /\ j = Len(coming) + 2  BY <1>1, <2>3, <3>3
      <4> QED  BY <1>1, <4>1
    <3> QED  BY <3>1, <3>2, <3>3
  <2> QED  BY <2>1, <2>2, <2>3 DEF Ordered
<1> QED  BY <1>6, <1>7 DEF C2

\* A record is read: its line is taken, and becomes a message.
LEMMA FlowRead ==
    ASSUME NEW told \in Seq(Message), NEW coming \in Seq(Piece), NEW wrote \in Seq(Names),
           Genuine(told, coming, wrote), Ordered(told, coming),
           Len(coming) >= 2, coming[2].half = 2, coming[2].n # 0,
           NEW coming2 \in Seq(Piece), Len(coming2) + 2 = Len(coming),
           \A i \in 1..Len(coming2) : coming2[i] = coming[i + 2],
           NEW m \in Message, m.sensor = coming[2].name, m.n = coming[2].n
    PROVE  /\ Append(told, m) \in Seq(Message)
           /\ Genuine(Append(told, m), coming2, wrote) /\ Ordered(Append(told, m), coming2)
<1> DEFINE T2 == Append(told, m)
<1>1. /\ T2 \in Seq(Message) /\ Len(T2) = Len(told) + 1 /\ Len(told) \in Nat
      /\ \A i \in 1..Len(told) : T2[i] = told[i]
      /\ T2[Len(told) + 1] = m
  BY AppendProperties, LenProperties
<1> HIDE DEF T2
<1>2. Len(coming) \in Nat /\ Len(coming2) \in Nat /\ 2 \in 1..Len(coming)  BY LenProperties
<1>3. Genuine(told, coming2, wrote) /\ Ordered(told, coming2)
  <2>1. Len(told) <= Len(told) /\ 2 \in Nat /\ \A i \in 1..Len(told) : told[i] = told[i]  BY <1>1
  <2> QED  BY FlowDrop, <2>1, Zenon
<1>4. m.n \in 1..Len(wrote) /\ m.sensor = wrote[m.n]  BY <1>2 DEF Genuine
<1>5. \A i \in 1..Len(T2) : i \in 1..Len(told) \/ (i = Len(told) + 1 /\ T2[i] = m)  BY <1>1
<1>6. \A i \in 1..Len(told) : told[i].n < m.n  BY <1>2 DEF Ordered
<1>7. ASSUME NEW j \in 1..Len(coming2), coming2[j].n # 0 PROVE m.n < coming2[j].n
  <2>1. PICK k \in 1..Len(coming) : k = j + 2 /\ coming2[j] = coming[k]  BY <1>2
  <2>2. 2 < k  BY <2>1
  <2>3. \/ coming[2].n < coming[k].n
        \/ coming[2].n = coming[k].n /\ coming[2].half = 1 /\ coming[k].half = 2
    BY <1>2, <1>7, <2>1, <2>2 DEF Ordered
  <2> QED  BY <2>1, <2>3
<1>8. Genuine(T2, coming2, wrote)
  <2>1. ASSUME NEW i \in 1..Len(T2) PROVE T2[i].n \in 1..Len(wrote) /\ T2[i].sensor = wrote[T2[i].n]
    BY <1>1, <1>3, <1>4, <1>5 DEF Genuine
  <2> QED  BY <1>3, <2>1 DEF Genuine
<1>9. Ordered(T2, coming2)
  <2>1. ASSUME NEW i \in 1..Len(T2), NEW j \in 1..Len(T2), i < j PROVE T2[i].n < T2[j].n
    <3>1. i \in 1..Len(told) /\ T2[i] = told[i]  BY <1>1, <2>1
    <3>2. CASE j \in 1..Len(told)  BY <1>1, <1>3, <2>1, <3>1, <3>2 DEF Ordered
    <3>3. CASE j \notin 1..Len(told)  BY <1>5, <1>6, <3>1, <3>3
    <3> QED  BY <3>2, <3>3
  <2>2. ASSUME NEW i \in 1..Len(T2), NEW j \in 1..Len(coming2), coming2[j].n # 0 PROVE T2[i].n < coming2[j].n
    BY <1>1, <1>3, <1>5, <1>7, <2>2 DEF Ordered
  <2> QED  BY <1>3, <2>1, <2>2 DEF Ordered
<1> QED  BY <1>1, <1>8, <1>9 DEF T2

-----------------------------------------------------------------------------
(* Types.                                                                  *)

LEMMA NamesInSeq == KernelSensors \in Seq(Names) /\ Len(KernelSensors) \in Nat \ {0}
<1>1. KernelSensors \in Seq(STRING) /\ KernelSensors # <<>>  BY KernelRelayAssumption
<1>2. Len(KernelSensors) \in Nat \ {0} /\ DOMAIN KernelSensors = 1..Len(KernelSensors)
      /\ KernelSensors \in [1..Len(KernelSensors) -> STRING]
  BY <1>1, LenProperties, EmptySeq
<1>3. KernelSensors \in [1..Len(KernelSensors) -> Names]  BY <1>2 DEF Names
<1> QED  BY <1>2, <1>3, SeqDef

LEMMA TypesStep == RelayTypes /\ [RelayNext]_relayVars => RelayTypes'
<1> SUFFICES ASSUME RelayTypes, [RelayNext]_relayVars PROVE RelayTypes'  OBVIOUS
<1> USE DEF RelayTypes
<1>1. CASE KernelWrites
  <2>1. Head(asks) \in Names  BY <1>1, HeadTailProperties DEF KernelWrites
  <2>2. written' \in Seq(Names)  BY <1>1, <2>1, AppendProperties DEF KernelWrites
  <2>3. Len(written) + 1 \in Nat  BY LenProperties
  <2>4. sock' \in Seq(Piece)  BY <1>1, <2>1, <2>3, LineAdded DEF KernelWrites
  <2> QED  BY <1>1, <2>2, <2>4 DEF KernelWrites
<1>2. CASE KernelEnds
  <2>1. Head(asks) \in Names /\ Tail(asks) \in Seq(Names)  BY <1>2, HeadTailProperties DEF KernelEnds
  <2>2. sock' \in Seq(Piece)  BY <1>2, <2>1, LineAdded DEF KernelEnds
  <2> QED  BY <1>2, <2>1, <2>2 DEF KernelEnds
<1>3. CASE KernelRefuses
  <2>1. Tail(asks) \in Seq(Names)  BY <1>3, HeadTailProperties DEF KernelRefuses
  <2> QED  BY <1>3, <2>1 DEF KernelRefuses
<1>4. CASE KernelCloses  BY <1>4 DEF KernelCloses
<1>5. CASE common_init
  BY <1>5, NamesInSeq DEF common_init, discover_sensors, kernelSide
<1>6. CASE Send
  <2>1. sensors[turn] \in Names  BY <1>6, ElementOfSeq DEF Send
  <2>2. Append(asks, sensors[turn]) \in Seq(Names)  BY <2>1, AppendProperties
  <2>3. CASE kernelUp  BY <1>6, <2>2, <2>3, EmptySeq DEF Send, send_json_obj
  <2>4. CASE ~kernelUp  BY <1>6, <2>4, EmptySeq DEF Send, send_json_obj
  <2> QED  BY <2>3, <2>4
<1>7. CASE Recv
  <2>1. PICK k \in 1..Len(sock) : buf' = buf \o SubSeq(sock, 1, k) /\ sock' = SubSeq(sock, k + 1, Len(sock))
    BY <1>7 DEF Recv
  <2>2. SubSeq(sock, 1, k) \in Seq(Piece) /\ SubSeq(sock, k + 1, Len(sock)) \in Seq(Piece)
    <3>1. Len(sock) \in Nat /\ \A i \in 1..Len(sock) : sock[i] \in Piece  BY PiecesHaveTypes
    <3>2. \A i \in 1..k : sock[i] \in Piece  BY <3>1
    <3>3. \A i \in (k + 1)..Len(sock) : sock[i] \in Piece  BY <3>1
    <3> QED  BY <3>1, <3>2, <3>3, SubSeqProperties
  <2>3. buf' \in Seq(Piece)  BY <2>1, <2>2, ConcatProperties
  <2> QED  BY <1>7, <2>1, <2>2, <2>3 DEF Recv, kernelSide
<1>8. ASSUME Fetched, UNCHANGED <<asks, kernelUp, written, sock, sensors>>, interrupted' \in BOOLEAN, relay = "reading"
      PROVE  RelayTypes'
  <2>1. out' \in Seq(Message) /\ msgs' \in Seq(Message) /\ buf' \in Seq(Piece)
    BY <1>8, ConcatProperties, EmptySeq DEF Fetched
  <2>2. turn' \in 1..Len(sensors) /\ relay' \in {"send", "asleep"}
    BY <1>8, LenProperties, NamesInSeq DEF Fetched
  <2> QED  BY <1>8, <2>1, <2>2 DEF Fetched
<1>9. CASE ReadReply
  <2>1. CASE parse_json(buf) = {}
    BY <1>9, <2>1, EmptySeq DEF ReadReply, kernelSide
  <2>2. ASSUME NEW reply \in parse_json(buf), reply.n = 0, Fetched PROVE RelayTypes'
    BY <1>8, <1>9, <2>2 DEF ReadReply, kernelSide
  <2>3. ASSUME NEW reply \in parse_json(buf), msgs' = Append(msgs, convert_sensor_reply(reply)),
               buf' = SubSeq(buf, LineEnd(buf) + 1, Len(buf)), UNCHANGED <<relay, turn, out>>
        PROVE  RelayTypes'
    <3>1. /\ LineEnd(buf) \in 1..Len(buf) /\ Len(buf) \in Nat /\ reply = buf[2] /\ LineEnd(buf) = 2
          /\ \A i \in 1..Len(buf) : buf[i] \in Piece
      BY <1>9, <2>3, LineEndIsFirst, PiecesHaveTypes DEF ReadReply, parse_json
    <3>2. buf' \in Seq(Piece)
      <4>1. \A i \in (LineEnd(buf) + 1)..Len(buf) : buf[i] \in Piece  BY <3>1
      <4> QED  BY <2>3, <3>1, <4>1, SubSeqProperties
    <3>3. convert_sensor_reply(reply) \in Message  BY <3>1 DEF convert_sensor_reply, Piece, Message
    <3>4. msgs' \in Seq(Message)  BY <2>3, <3>3, AppendProperties
    <3> QED  BY <1>9, <2>3, <3>2, <3>4 DEF ReadReply, kernelSide
  <2> QED  BY <1>9, <2>1, <2>2, <2>3 DEF ReadReply
<1>10. CASE EndOfStream  BY <1>8, <1>10 DEF EndOfStream, kernelSide
<1>11. CASE SocketTimeout  BY <1>8, <1>11 DEF SocketTimeout, kernelSide
<1>12. CASE RepeatDelay  BY <1>12 DEF RepeatDelay, kernelSide
<1>13. CASE StartPoll  BY <1>13 DEF StartPoll, kernelSide
<1>14. CASE CancelPoll
  BY <1>14, EmptySeq, NamesInSeq DEF CancelPoll, kernelSide
<1>15. CASE UNCHANGED relayVars  BY <1>15 DEF relayVars
<1> QED
  BY <1>1, <1>2, <1>3, <1>4, <1>5, <1>6, <1>7, <1>9, <1>10, <1>11, <1>12, <1>13, <1>14, <1>15
  DEF RelayNext, RelayStep

-----------------------------------------------------------------------------
(* The invariant.                                                          *)

LEMMA FlowTypes ==
    ASSUME RelayTypes
    PROVE  /\ Relayed \in Seq(Message) /\ Len(Relayed) = Len(out) + Len(msgs)
           /\ \A i \in 1..(Len(out) + Len(msgs)) :
                  Relayed[i] = IF i <= Len(out) THEN out[i] ELSE msgs[i - Len(out)]
           /\ Coming \in Seq(Piece) /\ Len(Coming) = Len(buf) + Len(sock)
           /\ \A i \in 1..(Len(buf) + Len(sock)) :
                  Coming[i] = IF i <= Len(buf) THEN buf[i] ELSE sock[i - Len(buf)]
           /\ Len(out) \in Nat /\ Len(msgs) \in Nat /\ Len(buf) \in Nat /\ Len(sock) \in Nat
<1>1. out \in Seq(Message) /\ msgs \in Seq(Message) /\ buf \in Seq(Piece) /\ sock \in Seq(Piece)
  BY DEF RelayTypes
<1>2. /\ Relayed \in Seq(Message) /\ Len(Relayed) = Len(out) + Len(msgs)
      /\ \A i \in 1..(Len(out) + Len(msgs)) :
             Relayed[i] = IF i <= Len(out) THEN out[i] ELSE msgs[i - Len(out)]
  BY <1>1, ConcatProperties, Zenon DEF Relayed
<1>3. /\ Coming \in Seq(Piece) /\ Len(Coming) = Len(buf) + Len(sock)
      /\ \A i \in 1..(Len(buf) + Len(sock)) :
             Coming[i] = IF i <= Len(buf) THEN buf[i] ELSE sock[i - Len(buf)]
  BY <1>1, ConcatProperties, Zenon DEF Coming
<1> QED  BY <1>1, <1>2, <1>3, LenProperties

\* A fetch is left: its buffer goes, and its messages go out or are lost.
LEMMA BufferDropped ==
    ASSUME RelayTypes, Genuine(Relayed, Coming, written), Ordered(Relayed, Coming),
           buf' = <<>>, msgs' = <<>>, UNCHANGED <<sock, written>>, out' = out \/ out' = Relayed
    PROVE  (Genuine(Relayed, Coming, written) /\ Ordered(Relayed, Coming))'
<1>1. out \in Seq(Message) /\ sock \in Seq(Piece) /\ Relayed \in Seq(Message) /\ Coming \in Seq(Piece)
      /\ written \in Seq(Names)
  BY FlowTypes DEF RelayTypes
<1>2. out' \in Seq(Message)  BY <1>1
<1>3. Relayed' = out' /\ Coming' = sock
  <2>1. out' \o <<>> = out' /\ <<>> \o sock = sock  BY <1>1, <1>2, ConcatEmptySeq
  <2> QED  BY <2>1 DEF Relayed, Coming
<1>4. Len(out') <= Len(Relayed) /\ \A i \in 1..Len(out') : out'[i] = Relayed[i]
  <2>1. CASE out' = out
    <3>1. Len(Relayed) = Len(out) + Len(msgs) /\ Len(out) \in Nat /\ Len(msgs) \in Nat  BY FlowTypes
    <3>2. \A i \in 1..(Len(out) + Len(msgs)) :
              Relayed[i] = IF i <= Len(out) THEN out[i] ELSE msgs[i - Len(out)]
      BY FlowTypes
    <3>3. ASSUME NEW i \in 1..Len(out) PROVE out[i] = Relayed[i]  BY <3>1, <3>2
    <3> QED  BY <2>1, <3>1, <3>3
  <2>2. CASE out' = Relayed  BY <1>1, <2>2, LenProperties
  <2> QED  BY <2>1, <2>2
<1>5. /\ Len(buf) \in Nat /\ Len(sock) + Len(buf) = Len(Coming)
      /\ \A i \in 1..Len(sock) : sock[i] = Coming[i + Len(buf)]
  <2>1. Len(Coming) = Len(buf) + Len(sock) /\ Len(buf) \in Nat /\ Len(sock) \in Nat  BY FlowTypes
  <2>2. \A i \in 1..(Len(buf) + Len(sock)) :
            Coming[i] = IF i <= Len(buf) THEN buf[i] ELSE sock[i - Len(buf)]
    BY FlowTypes
  <2>3. ASSUME NEW i \in 1..Len(sock) PROVE sock[i] = Coming[i + Len(buf)]
    <3>1. i + Len(buf) \in 1..(Len(buf) + Len(sock)) /\ ~(i + Len(buf) <= Len(buf))  BY <2>1
    <3>2. (i + Len(buf)) - Len(buf) = i  BY <2>1
    <3> QED  BY <2>2, <3>1, <3>2
  <2> QED  BY <2>1, <2>3
<1>6. Genuine(out', sock, written) /\ Ordered(out', sock)
  BY <1>1, <1>2, <1>4, <1>5, FlowDrop, Zenon
<1> QED  BY <1>3, <1>6

LEMMA LinesAdd ==
    ASSUME NEW coming \in Seq(Piece), Lines(coming), \A i \in 1..Len(coming) : coming[i].n # 0,
           NEW name \in Names, NEW n \in Nat
    PROVE  /\ Lines(coming \o Pieces(name, n))
           /\ n # 0 => \A i \in 1..Len(coming \o Pieces(name, n)) : (coming \o Pieces(name, n))[i].n # 0
<1> DEFINE C2 == coming \o Pieces(name, n)
<1>1. /\ C2 \in Seq(Piece) /\ Len(C2) = Len(coming) + 2 /\ Len(coming) \in Nat
      /\ \A i \in 1..Len(coming) : C2[i] = coming[i]
      /\ C2[Len(coming) + 1] = [name |-> name, n |-> n, half |-> 1]
      /\ C2[Len(coming) + 2] = [name |-> name, n |-> n, half |-> 2]
  BY LineAdded
<1> HIDE DEF C2
<1>2. C2[Len(coming) + 1].half = 1 /\ C2[Len(coming) + 1].n = n
      /\ C2[Len(coming) + 2].half = 2 /\ C2[Len(coming) + 2].n = n  BY <1>1
<1>3. C2[1].half = 1
  <2>1. CASE Len(coming) = 0  BY <1>2, <2>1
  <2>2. CASE Len(coming) > 0  BY <1>1, <2>2 DEF Lines
  <2> QED  BY <1>1, <2>1, <2>2
<1>4. ASSUME NEW i \in 1..Len(C2)
      PROVE  /\ C2[i].half = 1 => i < Len(C2) /\ C2[i + 1].half = 2 /\ C2[i + 1].n = C2[i].n
             /\ C2[i].half = 2 /\ i < Len(C2) => C2[i + 1].half = 1
             /\ C2[i].n = 0 => i + 1 >= Len(C2)
             /\ n # 0 => C2[i].n # 0
  <2>1. CASE i < Len(coming)
    <3>1. i \in 1..Len(coming) /\ i + 1 \in 1..Len(coming)  BY <1>1, <2>1
    <3>2. C2[i] = coming[i] /\ C2[i + 1] = coming[i + 1]  BY <1>1, <3>1
    <3> QED  BY <1>1, <2>1, <3>1, <3>2 DEF Lines
  <2>2. CASE i = Len(coming)
    <3>1. i \in 1..Len(coming) /\ C2[i] = coming[i]  BY <1>1, <2>2
    <3>2. coming[i].half # 1 /\ coming[i].n # 0  BY <1>1, <2>2, <3>1 DEF Lines
    <3> QED  BY <1>1, <1>2, <2>2, <3>1, <3>2
  <2>3. CASE i = Len(coming) + 1
    <3>1. i + 1 = Len(coming) + 2 /\ i < Len(C2) /\ i + 1 >= Len(C2)  BY <1>1, <2>3
    <3> QED  BY <1>2, <2>3, <3>1
  <2>4. CASE i = Len(coming) + 2
    <3>1. ~(i < Len(C2)) /\ i + 1 >= Len(C2)  BY <1>1, <2>4
    <3> QED  BY <1>2, <2>4, <3>1
  <2> QED  BY <1>1, <2>1, <2>2, <2>3, <2>4
<1> QED  BY <1>3, <1>4 DEF Lines, C2

LEMMA LinesDrop ==
    ASSUME NEW coming \in Seq(Piece), Lines(coming), Len(coming) >= 2,
           NEW coming2 \in Seq(Piece), Len(coming2) + 2 = Len(coming),
           \A i \in 1..Len(coming2) : coming2[i] = coming[i + 2]
    PROVE  Lines(coming2)
<1>1. Len(coming) \in Nat /\ Len(coming2) \in Nat  BY LenProperties
<1>2. Len(coming2) > 0 => coming2[1].half = 1
  <2> SUFFICES ASSUME Len(coming2) > 0 PROVE coming2[1].half = 1  OBVIOUS
  <2>1. coming2[1] = coming[3] /\ 2 < Len(coming) /\ 1 \in 1..Len(coming) /\ 2 \in 1..Len(coming)  BY <1>1
  <2>2. coming[1].half = 1  BY <1>1, <2>1 DEF Lines
  <2>3. coming[1 + 1].half = 2  BY <2>1, <2>2 DEF Lines
  <2>4. coming[2 + 1].half = 1  BY <2>1, <2>3 DEF Lines
  <2> QED  BY <2>1, <2>4
<1>3. ASSUME NEW i \in 1..Len(coming2)
      PROVE  /\ coming2[i].half = 1 => i < Len(coming2) /\ coming2[i + 1].half = 2 /\ coming2[i + 1].n = coming2[i].n
             /\ coming2[i].half = 2 /\ i < Len(coming2) => coming2[i + 1].half = 1
             /\ coming2[i].n = 0 => i + 1 >= Len(coming2)
  <2>1. PICK k \in 1..Len(coming) : k = i + 2 /\ coming2[i] = coming[k]  BY <1>1
  <2>2. i < Len(coming2) => coming2[i + 1] = coming[k + 1]
    <3> SUFFICES ASSUME i < Len(coming2) PROVE coming2[i + 1] = coming[k + 1]  OBVIOUS
    <3>1. i + 1 \in 1..Len(coming2) /\ (i + 1) + 2 = k + 1  BY <1>1, <2>1
    <3> QED  BY <3>1
  <2>3. /\ coming[k].half = 1 => k < Len(coming) /\ coming[k + 1].half = 2 /\ coming[k + 1].n = coming[k].n
        /\ coming[k].half = 2 /\ k < Len(coming) => coming[k + 1].half = 1
        /\ coming[k].n = 0 => k + 1 >= Len(coming)
    BY DEF Lines
  <2>4. (k < Len(coming) <=> i < Len(coming2)) /\ (k + 1 >= Len(coming) <=> i + 1 >= Len(coming2))
    BY <1>1, <2>1
  <2> QED  BY <2>1, <2>2, <2>3, <2>4
<1> QED  BY <1>2, <1>3 DEF Lines

LEMMA AccountedAdd ==
    ASSUME NEW told, NEW coming \in Seq(Piece), NEW wrote \in Seq(Names), Accounted(told, coming, wrote),
           NEW name \in Names, NEW n \in Nat, NEW wrote2, Writes(wrote, wrote2, name, n)
    PROVE  Accounted(told, coming \o Pieces(name, n), wrote2)
<1> DEFINE C2 == coming \o Pieces(name, n)
<1>1. /\ Len(C2) = Len(coming) + 2 /\ Len(coming) \in Nat
      /\ \A i \in 1..Len(coming) : C2[i] = coming[i]
      /\ C2[Len(coming) + 2] = [name |-> name, n |-> n, half |-> 2]
  BY LineAdded
<1> HIDE DEF C2
<1>2. Len(wrote) \in Nat /\ (Len(wrote2) = Len(wrote) \/ (Len(wrote2) = Len(wrote) + 1 /\ n = Len(wrote) + 1))
  <2>1. Len(wrote) \in Nat /\ Len(Append(wrote, name)) = Len(wrote) + 1  BY AppendProperties, LenProperties
  <2> QED  BY <2>1 DEF Writes
<1>3. ASSUME NEW k \in 1..Len(wrote2)
      PROVE  \/ \E i \in 1..Len(told) : told[i].n = k
             \/ \E i \in 1..Len(C2) : C2[i].n = k /\ C2[i].half = 2
  <2>1. CASE k \in 1..Len(wrote)
    <3>1. CASE \E i \in 1..Len(told) : told[i].n = k  BY <3>1
    <3>2. CASE \E i \in 1..Len(coming) : coming[i].n = k /\ coming[i].half = 2
      <4>1. PICK i \in 1..Len(coming) : coming[i].n = k /\ coming[i].half = 2  BY <3>2
      <4>2. i \in 1..Len(C2) /\ C2[i] = coming[i]  BY <1>1
      <4> QED  BY <4>1, <4>2
    <3> QED  BY <2>1, <3>1, <3>2 DEF Accounted
  <2>2. CASE k \notin 1..Len(wrote)
    <3>1. k = n  BY <1>2, <2>2
    <3>2. Len(coming) + 2 \in 1..Len(C2) /\ C2[Len(coming) + 2].n = n /\ C2[Len(coming) + 2].half = 2  BY <1>1
    <3> QED  BY <3>1, <3>2
  <2> QED  BY <2>1, <2>2
<1> QED  BY <1>3 DEF Accounted, C2

LEMMA AccountedRead ==
    ASSUME NEW told \in Seq(Message), NEW coming \in Seq(Piece), NEW wrote, Accounted(told, coming, wrote),
           Len(coming) >= 2, coming[1].half = 1,
           NEW coming2 \in Seq(Piece), Len(coming2) + 2 = Len(coming),
           \A i \in 1..Len(coming2) : coming2[i] = coming[i + 2],
           NEW m \in Message, m.n = coming[2].n
    PROVE  Accounted(Append(told, m), coming2, wrote)
<1> DEFINE T2 == Append(told, m)
<1>1. /\ Len(T2) = Len(told) + 1 /\ Len(told) \in Nat
      /\ \A i \in 1..Len(told) : T2[i] = told[i]
      /\ T2[Len(told) + 1] = m
  BY AppendProperties, LenProperties
<1> HIDE DEF T2
<1>2. Len(coming) \in Nat /\ Len(coming2) \in Nat  BY LenProperties
<1>3. ASSUME NEW k \in 1..Len(wrote)
      PROVE  \/ \E i \in 1..Len(T2) : T2[i].n = k
             \/ \E i \in 1..Len(coming2) : coming2[i].n = k /\ coming2[i].half = 2
  <2>1. CASE \E i \in 1..Len(told) : told[i].n = k
    <3>1. PICK i \in 1..Len(told) : told[i].n = k  BY <2>1
    <3> QED  BY <1>1, <3>1
  <2>2. CASE \E i \in 1..Len(coming) : coming[i].n = k /\ coming[i].half = 2
    <3>1. PICK i \in 1..Len(coming) : coming[i].n = k /\ coming[i].half = 2  BY <2>2
    <3>2. CASE i = 1  BY <3>1, <3>2
    <3>3. CASE i = 2
      <4>1. Len(told) + 1 \in 1..Len(T2) /\ T2[Len(told) + 1].n = k  BY <1>1, <3>1, <3>3
      <4> QED  BY <4>1
    <3>4. CASE i > 2
      <4>1. i - 2 \in 1..Len(coming2) /\ (i - 2) + 2 = i  BY <1>2, <3>4
      <4>2. coming2[i - 2] = coming[i]  BY <4>1
      <4> QED  BY <3>1, <4>1, <4>2
    <3> QED  BY <3>2, <3>3, <3>4
  <2> QED  BY <2>1, <2>2 DEF Accounted
<1> QED  BY <1>3 DEF Accounted, T2

\* What the kernel adds to the socket is added to what is on its way.
LEMMA KernelAdds ==
    ASSUME RelayTypes, RelayInv, NEW n \in Nat, kernelUp, asks # <<>>,
           sock' = sock \o Pieces(Head(asks), n), Writes(written, written', Head(asks), n),
           asks' = IF n = 0 THEN Tail(asks) ELSE asks,
           UNCHANGED <<buf, msgs, out, relay, kernelUp, interrupted>>
    PROVE  RelayInv'
<1> DEFINE h == Head(asks)
<1>1. /\ h \in Names /\ Relayed \in Seq(Message) /\ Coming \in Seq(Piece) /\ written \in Seq(Names)
      /\ buf \in Seq(Piece) /\ sock \in Seq(Piece) /\ Pieces(h, n) \in Seq(Piece) /\ asks \in Seq(Names)
  BY HeadTailProperties, FlowTypes, LineAdded DEF RelayTypes
<1> HIDE DEF h
<1>2. Coming' = Coming \o Pieces(h, n)
  <2>1. Coming' = buf \o (sock \o Pieces(h, n))  BY DEF Coming, h
  <2>2. (buf \o sock) \o Pieces(h, n) = buf \o (sock \o Pieces(h, n))  BY <1>1, PiecesAssociate, ZenonT(60)
  <2> QED  BY <2>1, <2>2 DEF Coming
<1>3. Relayed' = Relayed  BY DEF Relayed
<1>4. Genuine(Relayed, Coming, written)' /\ Ordered(Relayed, Coming)'
  <2>1. Genuine(Relayed, Coming, written) /\ Ordered(Relayed, Coming) /\ Writes(written, written', h, n)  BY DEF RelayInv, h
  <2>2. Genuine(Relayed, Coming \o Pieces(h, n), written') /\ Ordered(Relayed, Coming \o Pieces(h, n))
    BY <1>1, <2>1, FlowAdd, Zenon
  <2> QED  BY <1>2, <1>3, <2>2
<1>5. ASSUME ~interrupted PROVE InStep'
  <2>1. relay = "reading" /\ Lines(Coming) /\ Len(asks) <= 1 /\ \A i \in 1..Len(Coming) : Coming[i].n # 0
    BY <1>5 DEF RelayInv, InStep
  <2>2. Lines(Coming)' /\ (n # 0 => \A i \in 1..Len(Coming') : Coming'[i].n # 0)
    BY <1>1, <1>2, <2>1, LinesAdd
  <2>3. Accounted(Relayed, Coming, written)'
    <3>1. Accounted(Relayed, Coming, written) /\ Writes(written, written', h, n)  BY <1>5 DEF RelayInv, InStep, h
    <3>2. Accounted(Relayed, Coming \o Pieces(h, n), written')  BY <1>1, <3>1, AccountedAdd, Zenon
    <3> QED  BY <1>2, <1>3, <3>2
  <2>4. Len(asks') <= 1 /\ (n = 0 => asks' = <<>>)
    <3>1. Len(asks) \in Nat /\ asks # <<>> /\ Tail(asks) \in Seq(Names) /\ Len(Tail(asks)) = Len(asks) - 1
      BY <1>1, HeadTailProperties, LenProperties
    <3>2. Len(Tail(asks)) = 0  BY <1>1, <2>1, <3>1, EmptySeq
    <3>3. Tail(asks) = <<>>  BY <3>1, <3>2, EmptySeq
    <3> QED  BY <2>1, <3>2, <3>3
  <2> QED  BY <2>1, <2>2, <2>3, <2>4 DEF InStep
<1> QED  BY <1>4, <1>5 DEF RelayInv

\* The first two pieces on their way are in the buffer when it has a line.
LEMMA BufferedLine ==
    ASSUME RelayTypes, HasLine(buf), LineEnd(buf) = 2
    PROVE  /\ Len(buf) \in Nat /\ Len(buf) >= 2 /\ Len(Coming) >= 2 /\ Coming[1] = buf[1] /\ Coming[2] = buf[2]
           /\ buf[1] \in Piece /\ buf[2] \in Piece /\ buf[1].half = 1 /\ buf[2].half = 2
<1>1. buf \in Seq(Piece)  BY DEF RelayTypes
<1>2. 2 \in 1..Len(buf) /\ buf[2].half = 2 /\ \A j \in 1..(2 - 1) : buf[j].half = 1
  BY <1>1, LineEndIsFirst
<1>3. Len(buf) \in Nat /\ Len(sock) \in Nat /\ Len(Coming) = Len(buf) + Len(sock)  BY FlowTypes
<1>4. \A i \in 1..(Len(buf) + Len(sock)) : Coming[i] = IF i <= Len(buf) THEN buf[i] ELSE sock[i - Len(buf)]
  BY FlowTypes
<1>5. Coming[1] = buf[1] /\ Coming[2] = buf[2]  BY <1>2, <1>3, <1>4
<1>6. buf[1] \in Piece /\ buf[2] \in Piece  BY <1>1, <1>2, <1>3, PiecesHaveTypes
<1> QED  BY <1>2, <1>3, <1>5, <1>6

\* While every answer was read to its end, a line that is read parses.
LEMMA WholeLineParses ==
    ASSUME RelayTypes, Lines(Coming), HasLine(buf)
    PROVE  LineEnd(buf) = 2 /\ buf[1].n = buf[2].n
<1>1. buf \in Seq(Piece)  BY DEF RelayTypes
<1> DEFINE e == LineEnd(buf)
<1>2. e \in 1..Len(buf) /\ buf[e].half = 2 /\ \A j \in 1..(e - 1) : buf[j].half = 1
  BY <1>1, LineEndIsFirst
<1> HIDE DEF e
<1>3. Len(buf) \in Nat /\ Len(sock) \in Nat /\ Len(Coming) = Len(buf) + Len(sock)  BY FlowTypes
<1>4. \A i \in 1..(Len(buf) + Len(sock)) : Coming[i] = IF i <= Len(buf) THEN buf[i] ELSE sock[i - Len(buf)]
  BY FlowTypes
<1>5. \A i \in 1..Len(buf) : Coming[i] = buf[i]  BY <1>3, <1>4
<1>6. 1 \in 1..Len(buf) /\ Coming[1].half = 1  BY <1>2, <1>3 DEF Lines
<1>7. 1 \in 1..Len(Coming)  BY <1>3, <1>6
<1>8. Coming[1 + 1].half = 2 /\ Coming[1 + 1].n = Coming[1].n  BY <1>6, <1>7 DEF Lines
<1>9. e # 1  BY <1>2, <1>5, <1>6
<1>10. 2 \in 1..Len(buf)  BY <1>2, <1>3, <1>9
<1>11. buf[2].half = 2 /\ buf[2].n = buf[1].n  BY <1>5, <1>6, <1>8, <1>10
<1>12. ~(2 < e)
  <2> SUFFICES ASSUME 2 < e PROVE FALSE  OBVIOUS
  <2>1. 2 \in 1..(e - 1)  BY <1>2, <1>3
  <2> QED  BY <1>2, <1>11, <2>1
<1>13. e = 2  BY <1>2, <1>3, <1>9, <1>12
<1> QED  BY <1>11, <1>13 DEF e

LEMMA LineDropped ==
    ASSUME NEW b \in Seq(Piece), Len(b) >= 2, NEW s \in Seq(Piece)
    PROVE  /\ Len(SubSeq(b, 3, Len(b)) \o s) + 2 = Len(b \o s)
           /\ \A i \in 1..Len(SubSeq(b, 3, Len(b)) \o s) : (SubSeq(b, 3, Len(b)) \o s)[i] = (b \o s)[i + 2]
<1> DEFINE b2 == SubSeq(b, 3, Len(b))
<1>1. Len(b) \in Nat /\ Len(s) \in Nat  BY LenProperties
<1>2. /\ b2 \in Seq(Piece)
      /\ Len(b2) = IF 3 <= Len(b) THEN Len(b) - 3 + 1 ELSE 0
      /\ \A i \in 1..(Len(b) - 3 + 1) : b2[i] = b[3 + i - 1]
  <2>1. \A i \in 3..Len(b) : b[i] \in Piece  BY <1>1, PiecesHaveTypes
  <2> QED  BY <1>1, <2>1, SubSeqProperties
<1> HIDE DEF b2
<1>3. Len(b2) = Len(b) - 2
  <2>1. Len(b2) = IF 3 <= Len(b) THEN Len(b) - 3 + 1 ELSE 0  BY <1>2
  <2>2. CASE 3 <= Len(b)  BY <1>1, <2>1, <2>2
  <2>3. CASE ~(3 <= Len(b))
    <3>1. Len(b2) = 0  BY <2>1, <2>3
    <3>2. \A l \in Nat : l >= 2 /\ ~(3 <= l) => l = 2  OBVIOUS
    <3>3. Len(b) = 2  BY <1>1, <2>3, <3>2, Zenon
    <3> QED  BY <3>1, <3>3
  <2> QED  BY <2>2, <2>3
<1>4. ASSUME NEW i \in 1..Len(b2) PROVE b2[i] = b[i + 2]
  <2>1. i \in 1..(Len(b) - 3 + 1) /\ 3 + i - 1 = i + 2  BY <1>1, <1>3
  <2> QED  BY <1>2, <2>1
<1>5. /\ Len(b \o s) = Len(b) + Len(s)
      /\ \A i \in 1..(Len(b) + Len(s)) : (b \o s)[i] = IF i <= Len(b) THEN b[i] ELSE s[i - Len(b)]
  BY ConcatProperties
<1>6. /\ Len(b2 \o s) = Len(b2) + Len(s)
      /\ \A i \in 1..(Len(b2) + Len(s)) : (b2 \o s)[i] = IF i <= Len(b2) THEN b2[i] ELSE s[i - Len(b2)]
  BY <1>2, ConcatProperties, Zenon
<1>7. ASSUME NEW i \in 1..Len(b2 \o s) PROVE (b2 \o s)[i] = (b \o s)[i + 2]
  <2>1. i \in 1..(Len(b2) + Len(s)) /\ i + 2 \in 1..(Len(b) + Len(s)) /\ i \in Int  BY <1>1, <1>3, <1>6
  <2>2. CASE i <= Len(b2)
    <3>1. i + 2 <= Len(b) /\ i \in 1..Len(b2)  BY <1>1, <1>3, <2>1, <2>2
    <3>2. (b2 \o s)[i] = b2[i] /\ (b \o s)[i + 2] = b[i + 2]  BY <1>5, <1>6, <2>1, <2>2, <3>1
    <3> QED  BY <1>4, <3>1, <3>2
  <2>3. CASE ~(i <= Len(b2))
    <3>1. ~(i + 2 <= Len(b)) /\ i - Len(b2) = (i + 2) - Len(b)  BY <1>1, <1>3, <2>1, <2>3
    <3>2. (b2 \o s)[i] = s[i - Len(b2)] /\ (b \o s)[i + 2] = s[(i + 2) - Len(b)]  BY <1>5, <1>6, <2>1, <2>3, <3>1
    <3> QED  BY <3>1, <3>2
  <2> QED  BY <2>2, <2>3
<1> QED  BY <1>1, <1>3, <1>5, <1>6, <1>7 DEF b2

\* The line at the front of the buffer is a record: it becomes a message.
LEMMA ReadsRecord ==
    ASSUME RelayTypes, RelayTypes', RelayInv, relay = "reading", HasLine(buf), LineEnd(buf) = 2,
           buf[1].n = buf[2].n, buf[2].n # 0,
           msgs' = Append(msgs, convert_sensor_reply(buf[2])),
           buf' = SubSeq(buf, LineEnd(buf) + 1, Len(buf)),
           UNCHANGED <<asks, kernelUp, written, sock, relay, out, interrupted>>
    PROVE  RelayInv'
<1> DEFINE m == convert_sensor_reply(buf[2])
<1>1. /\ Relayed \in Seq(Message) /\ Coming \in Seq(Piece) /\ written \in Seq(Names) /\ Coming' \in Seq(Piece)
      /\ buf \in Seq(Piece) /\ sock \in Seq(Piece) /\ out \in Seq(Message) /\ msgs \in Seq(Message)
  <2>1. Relayed \in Seq(Message) /\ Coming \in Seq(Piece)  BY FlowTypes
  <2>2. Coming' \in Seq(Piece)  BY ConcatProperties DEF RelayTypes, Coming
  <2> QED  BY <2>1, <2>2 DEF RelayTypes
<1>2. /\ Len(buf) \in Nat /\ Len(buf) >= 2 /\ Len(Coming) >= 2 /\ Coming[1] = buf[1] /\ Coming[2] = buf[2]
      /\ buf[2] \in Piece /\ buf[1].half = 1 /\ buf[2].half = 2
  BY BufferedLine
<1>3. m \in Message /\ m.sensor = Coming[2].name /\ m.n = Coming[2].n
  BY <1>2 DEF convert_sensor_reply, Piece, Message
<1> HIDE DEF m
<1>4. Relayed' = Append(Relayed, m)
  <2>1. msgs' = msgs \o <<m>> /\ <<m>> \in Seq(Message)  BY <1>1, <1>3, AppendIsConcat DEF m
  <2>2. out \o (msgs \o <<m>>) = (out \o msgs) \o <<m>>  BY <1>1, <2>1, ConcatAssociative, SMTT(30)
  <2>3. Append(Relayed, m) = Relayed \o <<m>>  BY <1>1, <1>3, AppendIsConcat
  <2> QED  BY <2>1, <2>2, <2>3 DEF Relayed
<1>5. Len(Coming') + 2 = Len(Coming) /\ \A i \in 1..Len(Coming') : Coming'[i] = Coming[i + 2]
  <2>1. Coming' = SubSeq(buf, 3, Len(buf)) \o sock /\ Coming = buf \o sock  BY DEF Coming
  <2> QED  BY <1>1, <1>2, <2>1, LineDropped, Zenon
<1>6. Genuine(Relayed, Coming, written)' /\ Ordered(Relayed, Coming)'
  <2>1. Genuine(Relayed, Coming, written) /\ Ordered(Relayed, Coming)  BY DEF RelayInv
  <2>2. Coming[2].half = 2 /\ Coming[2].n # 0  BY <1>2
  <2>3. Genuine(Append(Relayed, m), Coming', written) /\ Ordered(Append(Relayed, m), Coming')
    BY <1>1, <1>2, <1>3, <1>5, <2>1, <2>2, FlowRead, Zenon
  <2> QED  BY <1>4, <2>3
<1>7. ASSUME ~interrupted PROVE InStep'
  <2>1. /\ Lines(Coming) /\ Len(asks) <= 1 /\ Accounted(Relayed, Coming, written)
        /\ asks # <<>> => \A i \in 1..Len(Coming) : Coming[i].n # 0
    BY <1>7 DEF RelayInv, InStep
  <2>2. Lines(Coming')  BY <1>1, <1>2, <1>5, <2>1, LinesDrop, Zenon
  <2>3. Coming[1].half = 1  BY <1>2
  <2>4. Accounted(Append(Relayed, m), Coming', written)
    BY <1>1, <1>2, <1>3, <1>5, <2>1, <2>3, AccountedRead, Zenon
  <2>5. asks # <<>> => \A i \in 1..Len(Coming') : Coming'[i].n # 0
    <3>1. Len(Coming) \in Nat /\ Len(Coming') \in Nat  BY <1>1, LenProperties
    <3>2. ASSUME NEW i \in 1..Len(Coming') PROVE i + 2 \in 1..Len(Coming)  BY <1>5, <3>1
    <3> QED  BY <1>5, <2>1, <3>2
  <2> QED  BY <1>4, <2>1, <2>2, <2>4, <2>5 DEF InStep
<1> QED  BY <1>6, <1>7 DEF RelayInv

\* Every fetch is left with what was read put on the queue, when its answer has
\* come to its end.
LEMMA FetchEnds ==
    ASSUME RelayTypes, RelayInv, relay = "reading", Fetched, UNCHANGED <<sock, written, asks, kernelUp, interrupted>>,
           ~interrupted => /\ sock = <<>> /\ (kernelUp => asks = <<>>)
                           /\ \A i \in 1..Len(Coming) : Coming[i].n = 0
    PROVE  RelayInv'
<1>1. Genuine(Relayed, Coming, written) /\ Ordered(Relayed, Coming)  BY DEF RelayInv
<1>2. buf' = <<>> /\ msgs' = <<>> /\ out' = Relayed /\ relay' \in {"send", "asleep"}  BY DEF Fetched, Relayed
<1>3. (Genuine(Relayed, Coming, written) /\ Ordered(Relayed, Coming))'  BY <1>1, <1>2, BufferDropped
<1>4. ASSUME ~interrupted PROVE InStep'
  <2>1. Relayed' = Relayed
    <3>1. Relayed \in Seq(Message)  BY FlowTypes
    <3>2. Relayed \o <<>> = Relayed  BY <3>1, ConcatEmptySeq
    <3> QED  BY <1>2, <3>2 DEF Relayed
  <2>2. Accounted(Relayed, Coming, written)  BY <1>4 DEF RelayInv, InStep
  <2>3. Accounted(Relayed, Coming', written)
    <3>1. ASSUME NEW k \in 1..Len(written) PROVE \E i \in 1..Len(Relayed) : Relayed[i].n = k
      <4>1. ~\E i \in 1..Len(Coming) : Coming[i].n = k /\ Coming[i].half = 2  BY <1>4
      <4> QED  BY <2>2, <4>1 DEF Accounted
    <3> QED  BY <3>1 DEF Accounted
  <2> QED  BY <1>2, <1>4, <2>1, <2>3 DEF InStep
<1> QED  BY <1>3, <1>4 DEF RelayInv

LEMMA RelayInvStep == RelayTypes /\ RelayTypes' /\ RelayInv /\ [RelayNext]_relayVars => RelayInv'
<1> SUFFICES ASSUME RelayTypes, RelayTypes', RelayInv, [RelayNext]_relayVars PROVE RelayInv'  OBVIOUS
<1>0. /\ asks \in Seq(Names) /\ sock \in Seq(Piece) /\ buf \in Seq(Piece) /\ written \in Seq(Names)
      /\ interrupted \in BOOLEAN /\ interrupted' \in BOOLEAN
      /\ Genuine(Relayed, Coming, written) /\ Ordered(Relayed, Coming)
  BY DEF RelayTypes, RelayInv
<1>1. CASE KernelWrites
  <2>1. Len(written) + 1 \in Nat /\ Len(written) + 1 # 0  BY <1>0, LenProperties
  <2>2. Writes(written, written', Head(asks), Len(written) + 1)  BY <1>1 DEF KernelWrites, Writes
  <2> QED  BY <1>1, <2>1, <2>2, KernelAdds DEF KernelWrites
<1>2. CASE KernelEnds
  <2>1. Writes(written, written', Head(asks), 0)  BY <1>2 DEF KernelEnds, Writes
  <2> QED  BY <1>2, <2>1, KernelAdds DEF KernelEnds
<1>3. CASE KernelRefuses
  <2>1. Relayed' = Relayed /\ Coming' = Coming /\ UNCHANGED <<written, interrupted, relay, sock, buf, msgs, kernelUp>>
    BY <1>3 DEF KernelRefuses, Relayed, Coming
  <2>2. ASSUME ~interrupted PROVE InStep'
    <3>1. relay = "reading" /\ Len(asks) <= 1 /\ asks # <<>> /\ kernelUp
      BY <1>3, <2>2 DEF KernelRefuses, RelayInv, InStep
    <3>2. asks' = <<>> /\ Len(asks') <= 1
      <4>1. Len(asks) \in Nat /\ Tail(asks) \in Seq(Names) /\ Len(Tail(asks)) = Len(asks) - 1
        BY <1>0, <3>1, HeadTailProperties, LenProperties
      <4>2. Len(Tail(asks)) \in Nat  BY <4>1, LenProperties
      <4>3. Len(Tail(asks)) = 0  BY <3>1, <4>1, <4>2
      <4>4. Tail(asks) = <<>>  BY <4>1, <4>3, EmptySeq
      <4> QED  BY <1>3, <4>3, <4>4 DEF KernelRefuses
    <3> QED  BY <2>1, <2>2, <3>1, <3>2 DEF RelayInv, InStep
  <2> QED  BY <1>0, <2>1, <2>2 DEF RelayInv
<1>4. CASE KernelCloses
  <2>1. /\ Relayed' = Relayed /\ Coming' = Coming /\ kernelUp' = FALSE
        /\ UNCHANGED <<written, interrupted, relay, sock, buf, msgs, asks>>
    BY <1>4 DEF KernelCloses, Relayed, Coming
  <2> QED  BY <2>1 DEF RelayInv, InStep
<1>5. ASSUME UNCHANGED <<asks, sock, kernelUp, written, buf, msgs, out, interrupted>>,
             relay # "reading", relay' \in {"send"}
      PROVE  RelayInv'
  <2>1. Relayed' = Relayed /\ Coming' = Coming  BY <1>5 DEF Relayed, Coming
  <2> QED  BY <1>5, <2>1 DEF RelayInv, InStep
<1>6. CASE Send
  <2>1. /\ buf' = <<>> /\ msgs' = <<>> /\ UNCHANGED <<sock, written, out, interrupted, kernelUp>>
        /\ relay = "send" /\ relay' = IF kernelUp THEN "reading" ELSE "ended"
    BY <1>6 DEF Send
  <2>2. (Genuine(Relayed, Coming, written) /\ Ordered(Relayed, Coming))'  BY <1>0, <2>1, BufferDropped
  <2>3. ASSUME ~interrupted PROVE InStep'
    <3>1. sock = <<>> /\ buf = <<>> /\ msgs = <<>> /\ (kernelUp => asks = <<>>) /\ Accounted(Relayed, Coming, written)
      BY <2>1, <2>3 DEF RelayInv, InStep
    <3>2. Relayed' = Relayed /\ Coming' = Coming  BY <2>1, <3>1 DEF Relayed, Coming
    <3>3. Len(Coming) = 0
      <4>1. Len(Coming) = Len(buf) + Len(sock)  BY FlowTypes
      <4> QED  BY <3>1, <4>1
    <3>4. Lines(Coming)  BY <3>3 DEF Lines
    <3>5. CASE kernelUp
      <4>1. asks' = Append(asks, sensors[turn])  BY <1>6, <3>5 DEF Send, send_json_obj
      <4>2. asks' = <<sensors[turn]>>  BY <3>1, <3>5, <4>1
      <4>3. Len(asks') = 1  BY <4>2
      <4>4. relay' = "reading"  BY <2>1, <3>5
      <4> QED  BY <2>1, <3>1, <3>2, <3>3, <3>4, <4>3, <4>4 DEF InStep
    <3>6. CASE ~kernelUp
      <4>1. relay' = "ended" /\ ~kernelUp'  BY <2>1, <3>6
      <4> QED  BY <2>1, <3>1, <3>2, <4>1 DEF InStep
    <3> QED  BY <3>5, <3>6
  <2> QED  BY <2>1, <2>2, <2>3 DEF RelayInv
<1>7. CASE Recv
  <2>1. PICK k \in 1..Len(sock) : buf' = buf \o SubSeq(sock, 1, k) /\ sock' = SubSeq(sock, k + 1, Len(sock))
    BY <1>7 DEF Recv
  <2>2. Coming' = Coming
    <3>1. (buf \o SubSeq(sock, 1, k)) \o SubSeq(sock, k + 1, Len(sock)) = buf \o sock  BY <1>0, PiecesMoved
    <3> QED  BY <2>1, <3>1 DEF Coming
  <2>3. Relayed' = Relayed /\ relay = "reading" /\ UNCHANGED <<asks, kernelUp, written, relay, msgs, interrupted>>
    BY <1>7 DEF Recv, kernelSide, Relayed
  <2> QED  BY <2>2, <2>3 DEF RelayInv, InStep
<1>8. CASE ReadReply
  <2>0. relay = "reading" /\ HasLine(buf) /\ UNCHANGED <<asks, kernelUp, written, sock, interrupted>>
    BY <1>8 DEF ReadReply, kernelSide
  <2>1. CASE parse_json(buf) = {}
    <3>1. relay' = "ended" /\ buf' = <<>> /\ msgs' = <<>> /\ out' = out  BY <1>8, <2>1 DEF ReadReply
    <3>2. (Genuine(Relayed, Coming, written) /\ Ordered(Relayed, Coming))'  BY <1>0, <2>0, <3>1, BufferDropped
    <3>3. interrupted
      <4> SUFFICES ASSUME ~interrupted PROVE FALSE  OBVIOUS
      <4>1. Lines(Coming)  BY <2>0 DEF RelayInv, InStep
      <4>2. LineEnd(buf) = 2 /\ buf[1].n = buf[2].n  BY <2>0, <4>1, WholeLineParses
      <4> QED  BY <2>1, <4>2 DEF parse_json
    <3> QED  BY <2>0, <3>2, <3>3 DEF RelayInv
  <2>2. CASE parse_json(buf) # {}
    <3>1. PICK reply \in parse_json(buf) :
              IF reply.n = 0 THEN Fetched
              ELSE /\ msgs' = Append(msgs, convert_sensor_reply(reply))
                   /\ buf' = SubSeq(buf, LineEnd(buf) + 1, Len(buf))
                   /\ UNCHANGED <<relay, turn, out>>
      BY <1>8, <2>2 DEF ReadReply
    <3>2. LineEnd(buf) = 2 /\ buf[1].n = buf[2].n /\ reply = buf[2]  BY <3>1 DEF parse_json
    <3>3. CASE reply.n = 0
      <4>1. Fetched  BY <3>1, <3>3
      <4>2. ASSUME ~interrupted
            PROVE  /\ sock = <<>> /\ (kernelUp => asks = <<>>)
                   /\ \A i \in 1..Len(Coming) : Coming[i].n = 0
        <5>1. /\ Len(buf) \in Nat /\ Len(buf) >= 2 /\ Len(Coming) >= 2
              /\ Coming[1] = buf[1] /\ Coming[2] = buf[2]
          BY <2>0, <3>2, BufferedLine
        <5>2. Len(Coming) = Len(buf) + Len(sock) /\ Len(sock) \in Nat  BY FlowTypes
        <5>3. Coming[1].n = 0 /\ Coming[2].n = 0 /\ 1 \in 1..Len(Coming)  BY <3>2, <3>3, <5>1, <5>2
        <5>4. Lines(Coming) /\ (asks # <<>> => \A i \in 1..Len(Coming) : Coming[i].n # 0)
          BY <2>0, <4>2 DEF RelayInv, InStep
        <5>5. 1 + 1 >= Len(Coming)  BY <5>3, <5>4 DEF Lines
        <5>6. Len(sock) = 0 /\ Len(Coming) = 2  BY <5>1, <5>2, <5>5
        <5>7. sock = <<>>  BY <1>0, <5>6, EmptySeq
        <5>8. asks = <<>>  BY <5>3, <5>4
        <5>9. ASSUME NEW i \in 1..Len(Coming) PROVE Coming[i].n = 0
          <6>1. i = 1 \/ i = 2  BY <5>6
          <6> QED  BY <5>3, <6>1
        <5> QED  BY <5>7, <5>8, <5>9
      <4> QED  BY <2>0, <4>1, <4>2, FetchEnds
    <3>4. CASE reply.n # 0
      <4>1. /\ msgs' = Append(msgs, convert_sensor_reply(buf[2]))
            /\ buf' = SubSeq(buf, LineEnd(buf) + 1, Len(buf))
            /\ UNCHANGED <<relay, out>>
        BY <3>1, <3>2, <3>4
      <4>2. buf[2].n # 0  BY <3>2, <3>4
      <4> QED  BY <2>0, <3>2, <4>1, <4>2, ReadsRecord
    <3> QED  BY <3>3, <3>4
  <2> QED  BY <2>1, <2>2
<1>9. CASE EndOfStream
  <2>1. /\ relay = "reading" /\ buf = <<>> /\ sock = <<>> /\ ~kernelUp /\ Fetched
        /\ UNCHANGED <<asks, kernelUp, written, sock, interrupted>>
    BY <1>9 DEF EndOfStream, kernelSide
  <2>2. Len(Coming) = 0
    <3>1. Len(Coming) = Len(buf) + Len(sock)  BY FlowTypes
    <3> QED  BY <2>1, <3>1
  <2>3. \A i \in 1..Len(Coming) : Coming[i].n = 0  BY <2>2
  <2> QED  BY <2>1, <2>3, FetchEnds
<1>10. CASE SocketTimeout
  <2>1. buf' = <<>> /\ msgs' = <<>> /\ out' = Relayed /\ interrupted' = TRUE /\ UNCHANGED <<sock, written>>
    BY <1>10 DEF SocketTimeout, Fetched, Relayed, kernelSide
  <2>2. (Genuine(Relayed, Coming, written) /\ Ordered(Relayed, Coming))'  BY <1>0, <2>1, BufferDropped
  <2> QED  BY <2>1, <2>2 DEF RelayInv
<1>11. CASE CancelPoll
  <2>1. /\ buf' = <<>> /\ msgs' = <<>> /\ relay' = "off" /\ interrupted' = (interrupted \/ relay = "reading")
        /\ UNCHANGED <<sock, written, out, asks, kernelUp>>
    BY <1>11 DEF CancelPoll, kernelSide
  <2>2. (Genuine(Relayed, Coming, written) /\ Ordered(Relayed, Coming))'  BY <1>0, <2>1, BufferDropped
  <2>3. ASSUME ~interrupted' PROVE InStep'
    <3>1. ~interrupted /\ relay # "reading"  BY <1>0, <2>1, <2>3
    <3>2. sock = <<>> /\ buf = <<>> /\ msgs = <<>> /\ (kernelUp => asks = <<>>) /\ Accounted(Relayed, Coming, written)
      BY <3>1 DEF RelayInv, InStep
    <3>3. Relayed' = Relayed /\ Coming' = Coming  BY <2>1, <3>2 DEF Relayed, Coming
    <3> QED  BY <2>1, <3>2, <3>3 DEF InStep
  <2> QED  BY <2>2, <2>3 DEF RelayInv
<1>12. CASE common_init  BY <1>5, <1>12 DEF common_init, kernelSide
<1>13. CASE RepeatDelay  BY <1>5, <1>13 DEF RepeatDelay, kernelSide
<1>14. CASE StartPoll  BY <1>5, <1>14 DEF StartPoll, kernelSide
<1>15. CASE UNCHANGED relayVars
  <2>1. /\ Relayed' = Relayed /\ Coming' = Coming
        /\ UNCHANGED <<asks, kernelUp, written, sock, buf, msgs, interrupted, relay>>
    BY <1>15 DEF relayVars, Relayed, Coming
  <2> QED  BY <2>1 DEF RelayInv, InStep
<1> QED
  BY <1>1, <1>2, <1>3, <1>4, <1>6, <1>7, <1>8, <1>9, <1>10, <1>11, <1>12, <1>13, <1>14, <1>15
  DEF RelayNext, RelayStep

LEMMA RelayStarts == RelayInit => RelayTypes /\ RelayInv
<1> SUFFICES ASSUME RelayInit PROVE RelayTypes /\ RelayInv  OBVIOUS
<1>1. RelayTypes  BY EmptySeq DEF RelayInit, RelayTypes
<1>2. Len(Relayed) = 0 /\ Len(Coming) = 0 /\ Len(written) = 0
  <2>1. out = <<>> /\ msgs = <<>> /\ buf = <<>> /\ sock = <<>> /\ written = <<>>  BY DEF RelayInit
  <2>2. Len(Relayed) = Len(out) + Len(msgs) /\ Len(Coming) = Len(buf) + Len(sock)  BY <1>1, FlowTypes
  <2> QED  BY <2>1, <2>2
<1>3. Genuine(Relayed, Coming, written) /\ Ordered(Relayed, Coming) /\ Accounted(Relayed, Coming, written)
  BY <1>2 DEF Genuine, Ordered, Accounted
<1> QED  BY <1>1, <1>3 DEF RelayInit, RelayInv, InStep

\* The invariant of the relay: pieces on their way and messages told are records
\* of the kernel, in the kernel's order; and, until a fetch is cut off, relay and
\* kernel are in step.
THEOREM RelayInvariant == RelaySpec => [](RelayTypes /\ RelayInv)
<1>1. RelayInit => RelayTypes /\ RelayInv  BY RelayStarts
<1>2. RelayTypes /\ RelayInv /\ [RelayNext]_relayVars => (RelayTypes /\ RelayInv)'
  BY TypesStep, RelayInvStep
<1> QED  BY <1>1, <1>2, PTL DEF RelaySpec

\* The relay raises only after a fetch that was cut off, or when the kernel has
\* closed the socket: a line of an answer that is read to its end always parses.
THEOREM RelayEndsOnlyCut == RelaySpec => []EndsOnlyCut
<1>1. RelayTypes /\ RelayInv => EndsOnlyCut  BY DEF RelayTypes, RelayInv, InStep, EndsOnlyCut
<1> QED  BY <1>1, RelayInvariant, PTL

\* What the relay puts on the queue is what the kernel wrote, under the name of the
\* sensor that made it, at most once and in order; and nothing is lost as long as
\* every answer was read to its end.
THEOREM RelayCorrect == RelaySpec => []RelayKeepsAll
<1>1. ASSUME RelayTypes, RelayInv PROVE RelayKeepsAll
  <2>1. /\ Relayed \in Seq(Message) /\ Coming \in Seq(Piece) /\ out \in Seq(Message) /\ written \in Seq(Names)
        /\ Len(Relayed) = Len(out) + Len(msgs) /\ Len(out) \in Nat /\ Len(msgs) \in Nat /\ Len(written) \in Nat
    BY <1>1, FlowTypes, LenProperties DEF RelayTypes
  <2>2. /\ DOMAIN Relayed = 1..Len(Relayed) /\ DOMAIN Coming = 1..Len(Coming) /\ DOMAIN out = 1..Len(out)
        /\ \A i \in 1..Len(Relayed) : Relayed[i].n \in Nat
        /\ \A i \in 1..Len(Coming) : Coming[i].n \in Nat
    BY <2>1, PiecesHaveTypes, MessagesHaveTypes
  <2>3. \A i \in Records(Coming) : i \in 1..Len(Coming) /\ Coming[i].n # 0 /\ Coming[i].half = 2
    BY <2>2 DEF Records
  <2>4. ASSUME NEW i \in DOMAIN out PROVE out[i].sensor = written[out[i].n]
    <3>1. \A j \in 1..(Len(out) + Len(msgs)) : Relayed[j] = IF j <= Len(out) THEN out[j] ELSE msgs[j - Len(out)]
      BY <1>1, FlowTypes
    <3>2. i \in 1..(Len(out) + Len(msgs)) /\ i <= Len(out)  BY <2>1, <2>2
    <3>3. Relayed[i] = out[i] /\ i \in 1..Len(Relayed)  BY <2>1, <3>1, <3>2
    <3> QED  BY <1>1, <3>3 DEF RelayInv, Genuine
  <2>5. \A i, j \in DOMAIN Relayed : i < j => Relayed[i].n < Relayed[j].n
    BY <1>1, <2>2 DEF RelayInv, Ordered
  <2>6. ASSUME NEW i \in Records(Coming), NEW j \in Records(Coming), i < j PROVE Coming[i].n < Coming[j].n
    <3>1. \/ Coming[i].n < Coming[j].n
          \/ Coming[i].n = Coming[j].n /\ Coming[i].half = 1 /\ Coming[j].half = 2
      BY <1>1, <2>3, <2>6 DEF RelayInv, Ordered
    <3> QED  BY <2>3, <3>1
  <2>7. \A i \in DOMAIN Relayed, j \in Records(Coming) : Relayed[i].n < Coming[j].n
    BY <1>1, <2>2, <2>3 DEF RelayInv, Ordered
  <2>8. ASSUME ~interrupted
        PROVE  {Relayed[i].n : i \in DOMAIN Relayed} \cup {Coming[i].n : i \in Records(Coming)} = 1..Len(written)
    <3>1. ASSUME NEW k \in 1..Len(written)
          PROVE  k \in {Relayed[i].n : i \in DOMAIN Relayed} \cup {Coming[i].n : i \in Records(Coming)}
      <4>1. Accounted(Relayed, Coming, written)  BY <1>1, <2>8 DEF RelayInv, InStep
      <4>2. CASE \E i \in 1..Len(Relayed) : Relayed[i].n = k  BY <2>2, <4>2
      <4>3. CASE \E i \in 1..Len(Coming) : Coming[i].n = k /\ Coming[i].half = 2
        <5>1. PICK i \in 1..Len(Coming) : Coming[i].n = k /\ Coming[i].half = 2  BY <4>3
        <5>2. k # 0  BY <2>1
        <5>3. i \in Records(Coming)  BY <2>2, <5>1, <5>2 DEF Records
        <5> QED  BY <5>1, <5>3
      <4> QED  BY <4>1, <4>2, <4>3 DEF Accounted
    <3>2. ASSUME NEW i \in DOMAIN Relayed PROVE Relayed[i].n \in 1..Len(written)
      BY <1>1, <2>2 DEF RelayInv, Genuine
    <3>3. ASSUME NEW i \in Records(Coming) PROVE Coming[i].n \in 1..Len(written)
      BY <1>1, <2>3 DEF RelayInv, Genuine
    <3> QED  BY <3>1, <3>2, <3>3
  <2> QED  BY <2>4, <2>5, <2>6, <2>7, <2>8 DEF RelayKeepsAll, Relayed, Coming
<1> QED  BY <1>1, RelayInvariant, PTL

-----------------------------------------------------------------------------
(* The desktop bridge.                                                     *)

Line == [kind : LineKinds, n : Nat]
Item == [from : Clients, n : Nat]

BridgeTypes ==
    /\ sent \in [Clients -> Seq(Line)] /\ unread \in [Clients -> Seq(Line)] /\ body \in [Clients -> Seq(Line)]
    /\ handler \in [Clients -> {"none", "reading", "ended", "raised"}]
    /\ inqueue \in Seq(Item) /\ outqueue \in Seq(Item)

\* A line has its place as its number, the second of two lines that of the first.
Numbered(lines) ==
    \A i \in 1..Len(lines) :
        /\ lines[i].kind # "second" => lines[i].n = i
        /\ lines[i].kind = "second" => i > 1 /\ lines[i].n = i - 1 /\ lines[i - 1].kind = "first"

\* All but the first k lines are still to be read.
Suffix(lines, rest, k) ==
    k \in Nat /\ Len(lines) = Len(rest) + k /\ \A i \in 1..Len(rest) : rest[i] = lines[i + k]

\* The body is no document, and one that begins in it was not told yet.
Held(text, k, q, c) ==
    /\ Parsed(text) = {}
    /\ \A i \in 1..Len(text) : text[i].kind = "first" =>
           text[i].n \in 1..k /\ \A j \in 1..Len(q) : q[j].from = c => q[j].n < text[i].n

\* What was told is of the lines read, in their order, and the end is the last.
Taken(q, c, k, state) ==
    /\ \A i \in 1..Len(q) : q[i].from = c => q[i].n <= k
    /\ \A i, j \in 1..Len(q) : i < j /\ q[i].from = c /\ q[j].from = c =>
           q[i].n # 0 /\ (q[j].n # 0 => q[i].n < q[j].n)
    /\ (\E i \in 1..Len(q) : q[i].from = c /\ q[i].n = 0) <=> state = "ended"

\* The body is the first line of a document whose second one comes next, or empty.
Begun(lines, k, text) ==
    IF k > 0 /\ lines[k].kind = "first" THEN text = <<lines[k]>> ELSE text = <<>>

\* Of a client that sends whole documents: each that was read was told, and no
\* other.
Forwarded(lines, k, text, state, q, c) ==
    /\ state \in {"none", "reading"} => Begun(lines, k, text)
    /\ \A j \in 1..k : lines[j].kind \in {"doc", "second"} =>
           \E i \in 1..Len(q) : q[i].from = c /\ q[i].n = lines[j].n
    /\ \A i \in 1..Len(q) : q[i].from = c /\ q[i].n # 0 =>
           \E j \in 1..k : lines[j].kind \in {"doc", "second"} /\ lines[j].n = q[i].n

PerClient(lines, rest, k, text, state, q, c) ==
    /\ Numbered(lines) /\ Suffix(lines, rest, k)
    /\ Held(text, k, q, c) /\ Taken(q, c, k, state)
    /\ Clean(lines) => Forwarded(lines, k, text, state, q, c)

BridgeInv ==
    \A c \in Clients :
        PerClient(sent[c], unread[c], Len(sent[c]) - Len(unread[c]), body[c], handler[c], Queued, c)

-----------------------------------------------------------------------------
(* Sequences.                                                              *)

LEMMA LinesHaveTypes ==
    ASSUME NEW s \in Seq(Line)
    PROVE  /\ Len(s) \in Nat /\ DOMAIN s = 1..Len(s)
           /\ \A i \in 1..Len(s) : s[i] \in Line /\ s[i].n \in Nat /\ s[i].kind \in LineKinds
<1>1. \A i \in 1..Len(s) : s[i] \in Line  BY ElementOfSeq
<1> QED  BY <1>1, LenProperties DEF Line

LEMMA ItemsHaveTypes ==
    ASSUME NEW s \in Seq(Item)
    PROVE  /\ Len(s) \in Nat /\ DOMAIN s = 1..Len(s)
           /\ \A i \in 1..Len(s) : s[i] \in Item /\ s[i].n \in Nat
<1>1. \A i \in 1..Len(s) : s[i] \in Item  BY ElementOfSeq
<1> QED  BY <1>1, LenProperties DEF Item

LEMMA AppendedLine ==
    ASSUME NEW s \in Seq(Line), NEW l \in Line
    PROVE  /\ Append(s, l) \in Seq(Line) /\ Len(s) \in Nat /\ Len(Append(s, l)) = Len(s) + 1
           /\ \A i \in 1..Len(s) : Append(s, l)[i] = s[i]
           /\ Append(s, l)[Len(s) + 1] = l
BY AppendProperties, LenProperties

LEMMA AppendedItem ==
    ASSUME NEW s \in Seq(Item), NEW m \in Item
    PROVE  /\ Append(s, m) \in Seq(Item) /\ Len(s) \in Nat /\ Len(Append(s, m)) = Len(s) + 1
           /\ \A i \in 1..Len(s) : Append(s, m)[i] = s[i]
           /\ Append(s, m)[Len(s) + 1] = m
           /\ \A i \in 1..(Len(s) + 1) : i \in 1..Len(s) \/ i = Len(s) + 1
BY AppendProperties, LenProperties

LEMMA TailOfLines ==
    ASSUME NEW s \in Seq(Line), s # <<>>
    PROVE  /\ Tail(s) \in Seq(Line) /\ Len(s) \in Nat /\ Len(s) > 0 /\ Len(Tail(s)) = Len(s) - 1
           /\ Head(s) = s[1] /\ Head(s) \in Line
           /\ \A i \in 1..(Len(s) - 1) : Tail(s)[i] = s[i + 1]
<1>1. Len(s) \in Nat /\ Len(s) > 0  BY EmptySeq, LenProperties
<1>2. Tail(s) \in Seq(Line) /\ Len(Tail(s)) = Len(s) - 1 /\ \A i \in 1..Len(Tail(s)) : Tail(s)[i] = s[i + 1]
  BY HeadTailProperties
<1>3. Head(s) = s[1] /\ Head(s) \in Line  BY HeadTailProperties
<1> QED  BY <1>1, <1>2, <1>3

LEMMA ItemsAssociate ==
    ASSUME NEW a \in Seq(Item), NEW b \in Seq(Item), NEW c \in Seq(Item)
    PROVE  (a \o b) \o c = a \o (b \o c)
BY ConcatAssociative, SMT

\* What is put on inqueue is put at the end of all that was queued.
LEMMA QueuedAtTheEnd ==
    ASSUME NEW o \in Seq(Item), NEW q \in Seq(Item), NEW m \in Item
    PROVE  o \o Append(q, m) = Append(o \o q, m)
<1>1. <<m>> \in Seq(Item)  OBVIOUS
<1>2. Append(q, m) = q \o <<m>>  BY AppendIsConcat
<1>3. o \o q \in Seq(Item)  BY ConcatProperties
<1>4. Append(o \o q, m) = (o \o q) \o <<m>>  BY <1>3, AppendIsConcat
<1> DEFINE w == <<m>>
<1> HIDE DEF w
<1>5. w \in Seq(Item)  BY <1>1 DEF w
<1>6. (o \o q) \o w = o \o (q \o w)  BY <1>5, ItemsAssociate
<1> QED  BY <1>2, <1>4, <1>6 DEF w

\* Forwarding changes nothing of what was queued.
LEMMA QueuedIsForwarded ==
    ASSUME NEW o \in Seq(Item), NEW q \in Seq(Item), q # <<>>
    PROVE  Append(o, Head(q)) \o Tail(q) = o \o q
<1>1. Head(q) \in Item /\ Tail(q) \in Seq(Item) /\ <<Head(q)>> \o Tail(q) = q
  BY HeadTailProperties, SMT
<1> DEFINE w == <<Head(q)>>
           t == Tail(q)
<1>2. w \in Seq(Item) /\ t \in Seq(Item) /\ w \o t = q  BY <1>1
<1>3. Append(o, Head(q)) = o \o w  BY <1>1, AppendIsConcat
<1> HIDE DEF w, t
<1>4. (o \o w) \o t = o \o (w \o t)  BY <1>2, ItemsAssociate
<1> QED  BY <1>2, <1>3, <1>4 DEF t

-----------------------------------------------------------------------------
(* What each step does to one client.                                      *)

LEMMA OtherItem ==
    ASSUME NEW lines \in Seq(Line), NEW rest \in Seq(Line), NEW text \in Seq(Line), NEW k, NEW state,
           NEW q \in Seq(Item), NEW c, NEW m \in Item, m.from # c,
           PerClient(lines, rest, k, text, state, q, c)
    PROVE  PerClient(lines, rest, k, text, state, Append(q, m), c)
<1> DEFINE p == Append(q, m)
<1>1. /\ Len(q) \in Nat /\ Len(p) = Len(q) + 1 /\ p[Len(q) + 1] = m
      /\ \A i \in 1..Len(q) : p[i] = q[i]
      /\ \A i \in 1..(Len(q) + 1) : i \in 1..Len(q) \/ i = Len(q) + 1
  BY AppendedItem
<1> HIDE DEF p
<1>2. \A i \in 1..Len(p) : p[i].from = c => i \in 1..Len(q) /\ p[i] = q[i]  BY <1>1
<1>3. \A i \in 1..Len(q) : i \in 1..Len(p) /\ p[i] = q[i]  BY <1>1
<1>4. Held(text, k, p, c)  BY <1>2 DEF PerClient, Held
<1>5. Taken(p, c, k, state)
  <2>1. \A i \in 1..Len(p) : p[i].from = c => p[i].n <= k  BY <1>2 DEF PerClient, Taken
  <2>2. \A i, j \in 1..Len(p) : i < j /\ p[i].from = c /\ p[j].from = c =>
           p[i].n # 0 /\ (p[j].n # 0 => p[i].n < p[j].n)
    BY <1>2 DEF PerClient, Taken
  <2>3. (\E i \in 1..Len(p) : p[i].from = c /\ p[i].n = 0) <=> (\E i \in 1..Len(q) : q[i].from = c /\ q[i].n = 0)
    BY <1>2, <1>3
  <2> QED  BY <2>1, <2>2, <2>3 DEF PerClient, Taken
<1>6. ASSUME Clean(lines) PROVE Forwarded(lines, k, text, state, p, c)
  <2>1. Forwarded(lines, k, text, state, q, c)  BY <1>6 DEF PerClient
  <2>2. \A i \in 1..Len(p) : p[i].from = c /\ p[i].n # 0 =>
           \E j \in 1..k : lines[j].kind \in {"doc", "second"} /\ lines[j].n = p[i].n
    BY <2>1, <1>2 DEF Forwarded
  <2>3. ASSUME NEW j \in 1..k, lines[j].kind \in {"doc", "second"}
        PROVE  \E i \in 1..Len(p) : p[i].from = c /\ p[i].n = lines[j].n
    <3>1. PICK i \in 1..Len(q) : q[i].from = c /\ q[i].n = lines[j].n  BY <2>1, <2>3 DEF Forwarded
    <3> QED  BY <3>1, <1>3
  <2> QED  BY <2>1, <2>2, <2>3 DEF Forwarded
<1> QED  BY <1>4, <1>5, <1>6 DEF PerClient, p

LEMMA SendLine ==
    ASSUME NEW lines \in Seq(Line), NEW rest \in Seq(Line), NEW text \in Seq(Line), NEW k, NEW state,
           NEW q \in Seq(Item), NEW c, NEW l \in Line,
           l.n = IF l.kind = "second" THEN Len(lines) ELSE Len(lines) + 1,
           l.kind = "second" => lines # <<>> /\ lines[Len(lines)].kind = "first",
           PerClient(lines, rest, k, text, state, q, c)
    PROVE  PerClient(Append(lines, l), Append(rest, l), k, text, state, q, c)
<1> DEFINE after == Append(lines, l)
           left == Append(rest, l)
<1>1. /\ Len(lines) \in Nat /\ Len(after) = Len(lines) + 1 /\ after[Len(lines) + 1] = l
      /\ \A i \in 1..Len(lines) : after[i] = lines[i]
      /\ after \in Seq(Line)
  BY AppendedLine
<1>2. /\ Len(rest) \in Nat /\ Len(left) = Len(rest) + 1 /\ left[Len(rest) + 1] = l
      /\ \A i \in 1..Len(rest) : left[i] = rest[i]
  BY AppendedLine
<1>3. l.kind = "second" => Len(lines) > 0  BY <1>1, EmptySeq
<1>4. DOMAIN after = 1..Len(after) /\ DOMAIN lines = 1..Len(lines)  BY <1>1, LinesHaveTypes
<1> HIDE DEF after, left
<1>5. Numbered(after)
  <2> SUFFICES ASSUME NEW i \in 1..Len(after)
               PROVE  /\ after[i].kind # "second" => after[i].n = i
                      /\ after[i].kind = "second" => i > 1 /\ after[i].n = i - 1 /\ after[i - 1].kind = "first"
    BY DEF Numbered
  <2>1. CASE i \in 1..Len(lines)
    <3>1. after[i] = lines[i]  BY <2>1, <1>1
    <3>2. i > 1 => i - 1 \in 1..Len(lines)  BY <2>1, <1>1
    <3>3. i > 1 => after[i - 1] = lines[i - 1]  BY <3>2, <1>1
    <3> QED  BY <2>1, <3>1, <3>3, SMTT(30) DEF PerClient, Numbered
  <2>2. CASE i = Len(lines) + 1
    <3>1. Len(lines) > 0 => after[Len(lines)] = lines[Len(lines)]  BY <1>1
    <3> QED  BY <2>2, <3>1, <1>1, <1>3
  <2> QED  BY <2>1, <2>2, <1>1
<1>6. Suffix(after, left, k)
  <2>1. k \in Nat /\ Len(lines) = Len(rest) + k /\ \A i \in 1..Len(rest) : rest[i] = lines[i + k]
    BY DEF PerClient, Suffix
  <2>2. ASSUME NEW i \in 1..Len(left) PROVE left[i] = after[i + k]
    <3>1. CASE i \in 1..Len(rest)
      <4>1. i + k \in 1..Len(lines)  BY <3>1, <2>1, <1>1, <1>2
      <4> QED  BY <3>1, <4>1, <2>1, <1>1, <1>2
    <3>2. CASE i = Len(rest) + 1
      <4>1. i + k = Len(lines) + 1  BY <3>2, <2>1, <1>1, <1>2
      <4> QED  BY <3>2, <4>1, <1>1, <1>2
    <3> QED  BY <3>1, <3>2, <1>2
  <2> QED  BY <2>1, <2>2, <1>1, <1>2 DEF Suffix
<1>7. ASSUME Clean(after) PROVE Forwarded(after, k, text, state, q, c)
  <2>1. Clean(lines)
    <3> SUFFICES ASSUME NEW i \in 1..Len(lines)
                 PROVE  /\ lines[i].kind \in {"doc", "first", "second", "blank"}
                        /\ lines[i].kind = "first" /\ i < Len(lines) => lines[i + 1].kind = "second"
      BY <1>4 DEF Clean
    <3>1. i \in DOMAIN after /\ i < Len(after) /\ after[i] = lines[i]  BY <1>1, <1>4
    <3>2. i < Len(lines) => after[i + 1] = lines[i + 1]  BY <1>1
    <3> QED  BY <3>1, <3>2, <1>7 DEF Clean
  <2>2. Forwarded(lines, k, text, state, q, c)  BY <2>1 DEF PerClient
  <2>3. k \in Nat /\ \A j \in 1..k : j \in 1..Len(lines) /\ after[j] = lines[j]
    BY <1>1, <1>2 DEF PerClient, Suffix
  <2>4. k > 0 => after[k] = lines[k]  BY <2>3
  <2>5. Begun(lines, k, text) => Begun(after, k, text)  BY <2>4, Zenon DEF Begun
  <2>6. \A j \in 1..k : after[j].kind \in {"doc", "second"} =>
           \E i \in 1..Len(q) : q[i].from = c /\ q[i].n = after[j].n
    BY <2>2, <2>3, SMTT(30) DEF Forwarded
  <2>7. \A i \in 1..Len(q) : q[i].from = c /\ q[i].n # 0 =>
           \E j \in 1..k : after[j].kind \in {"doc", "second"} /\ after[j].n = q[i].n
    BY <2>2, <2>3 DEF Forwarded
  <2> QED  BY <2>2, <2>5, <2>6, <2>7 DEF Forwarded
<1> QED  BY <1>5, <1>6, <1>7 DEF PerClient, after, left

\* Reading a line.
LEMMA NextLine ==
    ASSUME NEW lines \in Seq(Line), NEW rest \in Seq(Line), NEW k, Suffix(lines, rest, k), rest # <<>>
    PROVE  /\ Suffix(lines, Tail(rest), k + 1) /\ Head(rest) = lines[k + 1]
           /\ k + 1 \in 1..Len(lines) /\ k \in Nat
<1> DEFINE left == Tail(rest)
<1>1. /\ Len(rest) \in Nat /\ Len(rest) > 0 /\ Len(left) = Len(rest) - 1 /\ Head(rest) = rest[1]
      /\ \A i \in 1..(Len(rest) - 1) : left[i] = rest[i + 1]
  BY TailOfLines
<1> HIDE DEF left
<1>2. k \in Nat /\ Len(lines) = Len(rest) + k /\ \A i \in 1..Len(rest) : rest[i] = lines[i + k]  BY DEF Suffix
<1>3. 1 \in 1..Len(rest) /\ 1 + k = k + 1  BY <1>1, <1>2
<1>4. ASSUME NEW i \in 1..Len(left) PROVE left[i] = lines[i + (k + 1)]
  <2>1. i \in 1..(Len(rest) - 1) /\ i + 1 \in 1..Len(rest) /\ (i + 1) + k = i + (k + 1)  BY <1>1, <1>2
  <2> QED  BY <2>1, <1>1, <1>2
<1>5. k + 1 \in Nat /\ Len(lines) = Len(left) + (k + 1) /\ k + 1 \in 1..Len(lines)  BY <1>1, <1>2
<1> QED  BY <1>1, <1>2, <1>3, <1>4, <1>5 DEF Suffix, left

LEMMA OneLine ==
    ASSUME NEW l \in Line
    PROVE  /\ Append(<<>>, l) = <<l>> /\ Len(<<l>>) = 1 /\ <<l>>[1] = l
           /\ l.kind = "doc" => l \in Parsed(<<l>>)
BY DEF Parsed

LEMMA TwoLines ==
    ASSUME NEW a \in Line, NEW b \in Line, a.kind = "first", b.kind = "second"
    PROVE  Parsed(Append(<<a>>, b)) = {[a EXCEPT !.kind = "doc"]}
<1> DEFINE t == Append(<<a>>, b)
<1>1. Len(t) = 2 /\ t[1] = a /\ t[2] = b  OBVIOUS
<1> HIDE DEF t
<1>2. ~(Len(t) = 1)  BY <1>1
<1> QED  BY <1>1, <1>2 DEF Parsed, t

\* What the body of a client with whole documents can be, by the line that comes.
LEMMA CleanBody ==
    ASSUME NEW lines \in Seq(Line), NEW text \in Seq(Line), NEW k \in Nat, k + 1 \in 1..Len(lines),
           Numbered(lines), Clean(lines), Begun(lines, k, text)
    PROVE  /\ lines[k + 1].kind \in {"doc", "first", "second", "blank"}
           /\ lines[k + 1].kind # "second" => text = <<>>
           /\ lines[k + 1].kind = "second" =>
                 k \in 1..Len(lines) /\ lines[k].kind = "first" /\ lines[k].n = k /\ text = <<lines[k]>>
<1>1. Len(lines) \in Nat /\ DOMAIN lines = 1..Len(lines)  BY LinesHaveTypes
<1>2. lines[k + 1].kind \in {"doc", "first", "second", "blank"}  BY <1>1 DEF Clean
<1>3. k > 0 => k \in DOMAIN lines /\ k \in 1..Len(lines) /\ k < Len(lines)  BY <1>1
<1>4. ASSUME lines[k + 1].kind # "second" PROVE text = <<>>
  <2>1. ~(k > 0 /\ lines[k].kind = "first")  BY <1>3, <1>4 DEF Clean
  <2> QED  BY <2>1, Zenon DEF Begun
<1>5. ASSUME lines[k + 1].kind = "second"
      PROVE  k \in 1..Len(lines) /\ lines[k].kind = "first" /\ lines[k].n = k /\ text = <<lines[k]>>
  <2>1. k + 1 > 1 /\ lines[(k + 1) - 1].kind = "first"  BY <1>5 DEF Numbered
  <2>2. k > 0 /\ (k + 1) - 1 = k  BY <2>1
  <2>3. lines[k].kind = "first" /\ k \in 1..Len(lines)  BY <2>1, <2>2, <1>3
  <2>4. lines[k].n = k  BY <2>3 DEF Numbered
  <2>5. text = <<lines[k]>>  BY <2>2, <2>3, Zenon DEF Begun
  <2> QED  BY <2>3, <2>4, <2>5
<1> QED  BY <1>2, <1>4, <1>5

LEMMA ReadNothing ==
    ASSUME NEW lines \in Seq(Line), NEW rest \in Seq(Line), NEW text \in Seq(Line), NEW k,
           NEW q \in Seq(Item), NEW c, rest # <<>>,
           PerClient(lines, rest, k, text, "reading", q, c),
           NEW kept, kept = IF Head(rest).kind = "blank" THEN text ELSE Append(text, Head(rest)),
           Parsed(kept) = {}
    PROVE  PerClient(lines, Tail(rest), k + 1, IF Len(kept) > MaxBody THEN <<>> ELSE kept, "reading", q, c)
<1> DEFINE l == lines[k + 1]
           new == IF Len(kept) > MaxBody THEN <<>> ELSE kept
<1>1. /\ Suffix(lines, Tail(rest), k + 1) /\ Head(rest) = l
      /\ k + 1 \in 1..Len(lines) /\ k \in Nat
  BY NextLine DEF PerClient
<1>2. l \in Line  BY <1>1, LinesHaveTypes
<1>3. kept = IF l.kind = "blank" THEN text ELSE Append(text, l)  BY <1>1
<1>4. /\ Len(text) \in Nat /\ Len(Append(text, l)) = Len(text) + 1 /\ Append(text, l)[Len(text) + 1] = l
      /\ \A i \in 1..Len(text) : Append(text, l)[i] = text[i]
  BY <1>2, AppendedLine
<1>5. Numbered(lines)  BY DEF PerClient
<1>6. \A i \in 1..Len(q) : q[i].n \in Nat  BY ItemsHaveTypes
<1>7. \A i \in 1..Len(q) : q[i].from = c => q[i].n <= k  BY DEF PerClient, Taken
<1>8. l.kind = "first" => l.n = k + 1  BY <1>1, <1>5 DEF Numbered
<1>9. Held(kept, k + 1, q, c)
  <2> SUFFICES ASSUME NEW i \in 1..Len(kept), kept[i].kind = "first"
               PROVE  kept[i].n \in 1..(k + 1) /\ \A j \in 1..Len(q) : q[j].from = c => q[j].n < kept[i].n
    BY DEF Held
  <2>1. CASE i \in 1..Len(text) /\ kept[i] = text[i]
    <3>1. text[i].n \in 1..k /\ \A j \in 1..Len(q) : q[j].from = c => q[j].n < text[i].n
      BY <2>1 DEF PerClient, Held
    <3>2. text[i].n \in 1..(k + 1)  BY <3>1, <1>1
    <3> QED  BY <2>1, <3>1, <3>2
  <2>2. CASE kept[i] = l
    <3>1. l.n = k + 1  BY <2>2, <1>8
    <3>2. \A j \in 1..Len(q) : q[j].from = c => q[j].n < k + 1  BY <1>1, <1>6, <1>7
    <3> QED  BY <2>2, <3>1, <3>2, <1>1
  <2>3. CASE l.kind = "blank"  BY <2>1, <2>3, <1>3
  <2>4. CASE l.kind # "blank"
    <3>1. kept = Append(text, l)  BY <2>4, <1>3
    <3>2. i \in 1..Len(text) \/ i = Len(text) + 1  BY <3>1, <1>4
    <3> QED  BY <2>1, <2>2, <3>1, <3>2, <1>4
  <2> QED  BY <2>3, <2>4
<1>10. Held(<<>>, k + 1, q, c)
  <2>1. Len(<<>>) = 0  OBVIOUS
  <2> QED  BY <2>1 DEF Held, Parsed
<1>11. Held(new, k + 1, q, c)  BY <1>9, <1>10
<1>12. Taken(q, c, k + 1, "reading")
  <2>1. \A i \in 1..Len(q) : q[i].from = c => q[i].n <= k + 1  BY <1>1, <1>6, <1>7
  <2> QED  BY <2>1 DEF PerClient, Taken
<1>13. ASSUME Clean(lines) PROVE Forwarded(lines, k + 1, new, "reading", q, c)
  <2>1. Forwarded(lines, k, text, "reading", q, c)  BY <1>13 DEF PerClient
  <2>2. Begun(lines, k, text)  BY <2>1 DEF Forwarded
  <2>3. /\ l.kind \in {"doc", "first", "second", "blank"}
        /\ l.kind # "second" => text = <<>>
        /\ l.kind = "second" =>
              k \in 1..Len(lines) /\ lines[k].kind = "first" /\ lines[k].n = k /\ text = <<lines[k]>>
    BY <1>1, <1>5, <1>13, <2>2, CleanBody
  <2>4. l.kind # "doc"
    <3> SUFFICES ASSUME l.kind = "doc" PROVE FALSE  OBVIOUS
    <3>1. kept = <<l>>  BY <2>3, <1>2, <1>3, OneLine
    <3> QED  BY <3>1, <1>2, OneLine
  <2>5. l.kind # "second"
    <3> SUFFICES ASSUME l.kind = "second" PROVE FALSE  OBVIOUS
    <3>1. lines[k] \in Line /\ lines[k].kind = "first"  BY <2>3, LinesHaveTypes
    <3>2. kept = Append(<<lines[k]>>, l)  BY <2>3, <1>3
    <3> QED  BY <3>1, <3>2, <1>2, TwoLines
  <2>6. Begun(lines, k + 1, new)
    <3>1. k + 1 > 0  BY <1>1
    <3>2. CASE l.kind = "first"
      <4>1. kept = <<l>> /\ Len(kept) = 1  BY <2>3, <3>2, <1>2, <1>3, OneLine
      <4>2. ~(1 > MaxBody)  BY DesktopBridgeAssumption
      <4>3. new = <<l>>  BY <4>1, <4>2, Zenon
      <4> QED  BY <3>1, <3>2, <4>3, Zenon DEF Begun
    <3>3. CASE l.kind = "blank"
      <4>1. kept = <<>>  BY <2>3, <3>3, <1>3
      <4>2. new = <<>>  BY <4>1
      <4> QED  BY <3>3, <4>2 DEF Begun
    <3> QED  BY <2>3, <2>4, <2>5, <3>2, <3>3
  <2>7. \A j \in 1..(k + 1) : j \in 1..k \/ j = k + 1  BY <1>1
  <2>8. \A j \in 1..k : j \in 1..(k + 1)  BY <1>1
  <2>9. \A j \in 1..(k + 1) : lines[j].kind \in {"doc", "second"} =>
           \E i \in 1..Len(q) : q[i].from = c /\ q[i].n = lines[j].n
    BY <2>1, <2>4, <2>5, <2>7 DEF Forwarded
  <2>10. \A i \in 1..Len(q) : q[i].from = c /\ q[i].n # 0 =>
           \E j \in 1..(k + 1) : lines[j].kind \in {"doc", "second"} /\ lines[j].n = q[i].n
    BY <2>1, <2>8 DEF Forwarded
  <2> QED  BY <2>6, <2>9, <2>10 DEF Forwarded
<1> HIDE DEF new
<1>14. PerClient(lines, Tail(rest), k + 1, new, "reading", q, c)  BY <1>1, <1>5, <1>11, <1>12, <1>13 DEF PerClient
<1> QED  BY <1>14 DEF new

\* A document found in the body is of the lines read, and later than all that was told.
DocFound(doc, lines, k, text, q, c) ==
    /\ k + 1 \in 1..Len(lines) /\ k \in Nat
    /\ doc.kind = "falsy" => lines[k + 1].kind = "falsy"
    /\ doc.kind # "falsy" =>
          /\ doc.n \in 1..(k + 1)
          /\ \A j \in 1..Len(q) : q[j].from = c => q[j].n < doc.n
          /\ lines[k + 1].kind \in {"doc", "second"}
          /\ lines[k + 1].kind = "doc" => doc.n = k + 1
          /\ lines[k + 1].kind = "second" => Len(text) = 1 /\ text[1].n = doc.n

LEMMA ReadDocument ==
    ASSUME NEW lines \in Seq(Line), NEW rest \in Seq(Line), NEW text \in Seq(Line), NEW k,
           NEW q \in Seq(Item), NEW c \in Clients, rest # <<>>,
           PerClient(lines, rest, k, text, "reading", q, c),
           NEW kept, kept = IF Head(rest).kind = "blank" THEN text ELSE Append(text, Head(rest)),
           NEW doc \in Parsed(kept)
    PROVE  DocFound(doc, lines, k, text, q, c)
<1> DEFINE l == lines[k + 1]
<1>1. Head(rest) = l /\ k + 1 \in 1..Len(lines) /\ k \in Nat  BY NextLine DEF PerClient
<1>2. l \in Line  BY <1>1, LinesHaveTypes
<1>3. l.kind # "blank" /\ kept = Append(text, l)
  <2>1. CASE l.kind = "blank"
    <3>1. kept = text  BY <1>1, <2>1
    <3> QED  BY <3>1 DEF PerClient, Held
  <2> QED  BY <2>1, <1>1
<1>4. /\ Len(text) \in Nat /\ Len(kept) = Len(text) + 1 /\ kept[Len(text) + 1] = l
      /\ \A i \in 1..Len(text) : kept[i] = text[i] /\ text[i] \in Line
  BY <1>2, <1>3, AppendedLine, LinesHaveTypes
<1>5. /\ Numbered(lines)
      /\ \A i \in 1..Len(q) : q[i].n \in Nat
      /\ \A i \in 1..Len(q) : q[i].from = c => q[i].n <= k
  BY ItemsHaveTypes DEF PerClient, Taken
<1>6. CASE Len(kept) = 1
  <2>1. kept[1] = l  BY <1>4, <1>6
  <2>2. doc = l /\ l.kind \in {"doc", "falsy"}  BY <1>6, <2>1 DEF Parsed
  <2>3. l.kind = "doc" => l.n = k + 1  BY <1>1, <1>5 DEF Numbered
  <2>4. \A j \in 1..Len(q) : q[j].from = c => q[j].n < k + 1  BY <1>1, <1>5, SMTT(30)
  <2>5. k + 1 \in 1..(k + 1)  BY <1>1
  <2> QED  BY <1>1, <2>2, <2>3, <2>4, <2>5 DEF DocFound
<1>7. CASE Len(kept) # 1
  <2>1. Len(kept) = 2 /\ kept[1].kind = "first" /\ kept[2].kind = "second" /\ doc = [kept[1] EXCEPT !.kind = "doc"]
    BY <1>7 DEF Parsed
  <2>2. Len(text) = 1 /\ 1 \in 1..Len(text) /\ Len(text) + 1 = 2
    <3>1. \A x \in Nat : x + 1 = 2 => x = 1 /\ 1 \in 1..x  OBVIOUS
    <3> QED  BY <2>1, <1>4, <3>1, Zenon
  <2>3. kept[1] = text[1] /\ kept[2] = l /\ text[1] \in Line  BY <2>2, <1>4
  <2>4. doc.kind = "doc" /\ doc.n = text[1].n  BY <2>1, <2>3 DEF Line
  <2>5. text[1].n \in 1..k /\ \A j \in 1..Len(q) : q[j].from = c => q[j].n < text[1].n
    BY <2>1, <2>2, <2>3 DEF PerClient, Held
  <2>6. doc.n \in 1..(k + 1)  BY <2>4, <2>5, <1>1
  <2> QED  BY <1>1, <2>1, <2>2, <2>3, <2>4, <2>5, <2>6 DEF DocFound
<1> QED  BY <1>6, <1>7

LEMMA EmptyBody ==
    ASSUME NEW k, NEW q, NEW c
    PROVE  Held(<<>>, k, q, c)
<1>1. Len(<<>>) = 0  OBVIOUS
<1> QED  BY <1>1 DEF Held, Parsed

LEMMA TellDocument ==
    ASSUME NEW lines \in Seq(Line), NEW rest \in Seq(Line), NEW text \in Seq(Line), NEW k,
           NEW q \in Seq(Item), NEW c \in Clients, rest # <<>>,
           PerClient(lines, rest, k, text, "reading", q, c),
           NEW kept, kept = IF Head(rest).kind = "blank" THEN text ELSE Append(text, Head(rest)),
           NEW doc \in Parsed(kept), doc.kind # "falsy"
    PROVE  /\ [from |-> c, n |-> doc.n] \in Item
           /\ PerClient(lines, Tail(rest), k + 1, <<>>, "reading", Append(q, [from |-> c, n |-> doc.n]), c)
<1>0. DocFound(doc, lines, k, text, q, c)  BY ReadDocument, Zenon
<1> DEFINE l == lines[k + 1]
           m == [from |-> c, n |-> doc.n]
           p == Append(q, m)
<1>1. /\ k + 1 \in 1..Len(lines) /\ k \in Nat
      /\ doc.n \in 1..(k + 1)
      /\ \A j \in 1..Len(q) : q[j].from = c => q[j].n < doc.n
      /\ l.kind \in {"doc", "second"}
      /\ l.kind = "doc" => doc.n = k + 1
      /\ l.kind = "second" => Len(text) = 1 /\ text[1].n = doc.n
  BY <1>0 DEF DocFound
<1>2. Numbered(lines) /\ Suffix(lines, Tail(rest), k + 1)  BY NextLine DEF PerClient
<1>3. m \in Item /\ m.from = c /\ m.n = doc.n /\ doc.n \in Nat /\ doc.n # 0  BY <1>1 DEF Item
<1> HIDE DEF m
<1>4. /\ Len(q) \in Nat /\ Len(p) = Len(q) + 1 /\ p[Len(q) + 1] = m
      /\ \A i \in 1..Len(q) : p[i] = q[i]
      /\ \A i \in 1..(Len(q) + 1) : i \in 1..Len(q) \/ i = Len(q) + 1
  BY <1>3, AppendedItem
<1>5. \A i \in 1..Len(q) : q[i].n \in Nat  BY ItemsHaveTypes
<1> HIDE DEF p
<1>6. Held(<<>>, k + 1, p, c)  BY EmptyBody
<1>7. Taken(p, c, k + 1, "reading")
  <2>1. \A i \in 1..Len(q) : q[i].from = c => q[i].n <= k /\ q[i].n # 0
    BY DEF PerClient, Taken
  <2>2. ASSUME NEW i \in 1..Len(p), p[i].from = c PROVE p[i].n <= k + 1 /\ p[i].n # 0
    <3>1. i \in 1..Len(q) \/ i = Len(q) + 1  BY <1>4
    <3>2. CASE i \in 1..Len(q)
      <4>1. p[i] = q[i]  BY <1>4, <3>2
      <4>2. q[i].n \in Nat /\ q[i].n <= k /\ q[i].n # 0  BY <1>5, <2>1, <2>2, <3>2, <4>1
      <4> QED  BY <1>1, <4>1, <4>2
    <3>3. CASE i = Len(q) + 1
      <4>1. p[i].n = doc.n  BY <1>3, <1>4, <3>3
      <4> QED  BY <1>1, <1>3, <4>1
    <3> QED  BY <3>1, <3>2, <3>3
  <2>3. ASSUME NEW i \in 1..Len(p), NEW j \in 1..Len(p), i < j, p[i].from = c, p[j].from = c
        PROVE  p[i].n < p[j].n
    <3>1. i \in 1..Len(q) /\ p[i] = q[i]  BY <2>3, <1>4
    <3>2. CASE j \in 1..Len(q)
      <4>1. p[j] = q[j]  BY <3>2, <1>4
      <4>2. q[i].from = c /\ q[j].from = c /\ q[j].n # 0  BY <2>1, <2>3, <3>1, <3>2, <4>1
      <4> QED  BY <2>3, <3>1, <3>2, <4>1, <4>2 DEF PerClient, Taken
    <3>3. CASE j = Len(q) + 1  BY <2>3, <3>1, <3>3, <1>1, <1>3, <1>4
    <3> QED  BY <3>2, <3>3, <1>4
  <2> QED  BY <2>2, <2>3 DEF Taken
<1>8. ASSUME Clean(lines) PROVE Forwarded(lines, k + 1, <<>>, "reading", p, c)
  <2>1. Forwarded(lines, k, text, "reading", q, c)  BY <1>8 DEF PerClient
  <2>2. Begun(lines, k, text)  BY <2>1 DEF Forwarded
  <2>3. l.kind = "second" =>
              k \in 1..Len(lines) /\ lines[k].kind = "first" /\ lines[k].n = k /\ text = <<lines[k]>>
    BY <1>1, <1>2, <1>8, <2>2, CleanBody
  <2>4. l.n = doc.n
    <3>1. CASE l.kind = "doc"
      <4>1. l.n = k + 1  BY <3>1, <1>1, <1>2 DEF Numbered
      <4> QED  BY <3>1, <4>1, <1>1
    <3>2. CASE l.kind = "second"
      <4>1. l.n = (k + 1) - 1  BY <3>2, <1>1, <1>2 DEF Numbered
      <4>2. (k + 1) - 1 = k  BY <1>1
      <4>3. text[1] = lines[k]  BY <2>3, <3>2
      <4> QED  BY <2>3, <3>2, <4>1, <4>2, <4>3, <1>1
    <3> QED  BY <3>1, <3>2, <1>1
  <2>5. Begun(lines, k + 1, <<>>)  BY <1>1 DEF Begun
  <2>6. \A j \in 1..(k + 1) : j \in 1..k \/ j = k + 1  BY <1>1
  <2>7. k + 1 \in 1..(k + 1) /\ \A j \in 1..k : j \in 1..(k + 1)  BY <1>1
  <2>8. ASSUME NEW j \in 1..(k + 1), lines[j].kind \in {"doc", "second"}
        PROVE  \E i \in 1..Len(p) : p[i].from = c /\ p[i].n = lines[j].n
    <3>1. CASE j \in 1..k
      <4>1. PICK i \in 1..Len(q) : q[i].from = c /\ q[i].n = lines[j].n  BY <2>1, <2>8, <3>1 DEF Forwarded
      <4>2. i \in 1..Len(p) /\ p[i] = q[i]  BY <1>4
      <4> QED  BY <4>1, <4>2
    <3>2. CASE j = k + 1
      <4>1. Len(q) + 1 \in 1..Len(p)  BY <1>4
      <4> QED  BY <2>4, <3>2, <4>1, <1>3, <1>4
    <3> QED  BY <2>6, <3>1, <3>2
  <2>9. ASSUME NEW i \in 1..Len(p), p[i].from = c, p[i].n # 0
        PROVE  \E j \in 1..(k + 1) : lines[j].kind \in {"doc", "second"} /\ lines[j].n = p[i].n
    <3>1. CASE i \in 1..Len(q)
      <4>1. p[i] = q[i]  BY <3>1, <1>4
      <4>2. PICK j \in 1..k : lines[j].kind \in {"doc", "second"} /\ lines[j].n = q[i].n
        BY <2>1, <2>9, <3>1, <4>1 DEF Forwarded
      <4> QED  BY <2>7, <4>1, <4>2
    <3>2. CASE i = Len(q) + 1  BY <2>4, <2>7, <3>2, <1>1, <1>3, <1>4
    <3> QED  BY <3>1, <3>2, <1>4
  <2> QED  BY <2>5, <2>8, <2>9 DEF Forwarded
<1>9. PerClient(lines, Tail(rest), k + 1, <<>>, "reading", p, c)  BY <1>2, <1>6, <1>7, <1>8 DEF PerClient
<1> QED  BY <1>3, <1>9 DEF p, m

\* The end of a connection, with as many lines read as before or more.
LEMMA TellEnd ==
    ASSUME NEW lines \in Seq(Line), NEW rest \in Seq(Line), NEW text \in Seq(Line), NEW k,
           NEW q \in Seq(Item), NEW c \in Clients,
           PerClient(lines, rest, k, text, "reading", q, c),
           NEW left, NEW now \in Nat, Suffix(lines, left, now), now >= k, now # k => ~Clean(lines)
    PROVE  /\ [from |-> c, n |-> 0] \in Item
           /\ PerClient(lines, left, now, <<>>, "ended", Append(q, [from |-> c, n |-> 0]), c)
<1> DEFINE m == [from |-> c, n |-> 0]
           p == Append(q, m)
<1>1. m \in Item /\ m.from = c /\ m.n = 0  BY DEF Item
<1> HIDE DEF m
<1>2. /\ Len(q) \in Nat /\ Len(p) = Len(q) + 1 /\ p[Len(q) + 1] = m
      /\ \A i \in 1..Len(q) : p[i] = q[i]
      /\ \A i \in 1..(Len(q) + 1) : i \in 1..Len(q) \/ i = Len(q) + 1
  BY <1>1, AppendedItem
<1>3. \A i \in 1..Len(q) : q[i].n \in Nat  BY ItemsHaveTypes
<1>4. k \in Nat  BY DEF PerClient, Suffix
<1> HIDE DEF p
<1>5. Held(<<>>, now, p, c)  BY EmptyBody
<1>6. Taken(p, c, now, "ended")
  <2>1. \A i \in 1..Len(q) : q[i].from = c => q[i].n <= k /\ q[i].n # 0  BY DEF PerClient, Taken
  <2>2. \A i \in 1..Len(p) : p[i].from = c => p[i].n <= now  BY <2>1, <1>1, <1>2, <1>3, <1>4
  <2>3. ASSUME NEW i \in 1..Len(p), NEW j \in 1..Len(p), i < j, p[i].from = c, p[j].from = c
        PROVE  p[i].n # 0 /\ (p[j].n # 0 => p[i].n < p[j].n)
    <3>1. i \in 1..Len(q) /\ p[i] = q[i]  BY <2>3, <1>2
    <3>2. CASE j \in 1..Len(q)
      <4>1. p[j] = q[j]  BY <3>2, <1>2
      <4> QED  BY <2>3, <3>1, <3>2, <4>1 DEF PerClient, Taken
    <3>3. CASE j = Len(q) + 1  BY <2>1, <2>3, <3>1, <3>3, <1>1, <1>2
    <3> QED  BY <3>2, <3>3, <1>2
  <2>4. Len(q) + 1 \in 1..Len(p) /\ p[Len(q) + 1].from = c /\ p[Len(q) + 1].n = 0  BY <1>1, <1>2
  <2> QED  BY <2>2, <2>3, <2>4 DEF Taken
<1>7. ASSUME Clean(lines) PROVE Forwarded(lines, now, <<>>, "ended", p, c)
  <2>1. Forwarded(lines, k, text, "reading", q, c) /\ now = k  BY <1>7 DEF PerClient
  <2>2. ASSUME NEW j \in 1..k, lines[j].kind \in {"doc", "second"}
        PROVE  \E i \in 1..Len(p) : p[i].from = c /\ p[i].n = lines[j].n
    <3>1. PICK i \in 1..Len(q) : q[i].from = c /\ q[i].n = lines[j].n  BY <2>1, <2>2 DEF Forwarded
    <3>2. i \in 1..Len(p) /\ p[i] = q[i]  BY <1>2
    <3> QED  BY <3>1, <3>2
  <2>3. ASSUME NEW i \in 1..Len(p), p[i].from = c, p[i].n # 0
        PROVE  \E j \in 1..k : lines[j].kind \in {"doc", "second"} /\ lines[j].n = p[i].n
    <3>1. i \in 1..Len(q) /\ p[i] = q[i]  BY <2>3, <1>1, <1>2
    <3> QED  BY <2>1, <2>3, <3>1 DEF Forwarded
  <2> QED  BY <2>1, <2>2, <2>3 DEF Forwarded
<1>8. PerClient(lines, left, now, <<>>, "ended", p, c)  BY <1>5, <1>6, <1>7 DEF PerClient
<1> QED  BY <1>1, <1>8 DEF p, m

\* A task that ends with an error tells nothing.
LEMMA RaiseTellsNothing ==
    ASSUME NEW lines \in Seq(Line), NEW rest \in Seq(Line), NEW text \in Seq(Line), NEW k,
           NEW q \in Seq(Item), NEW c \in Clients, rest # <<>>, Head(rest).kind = "bytes",
           PerClient(lines, rest, k, text, "reading", q, c)
    PROVE  PerClient(lines, Tail(rest), k + 1, text, "raised", q, c)
<1>1. /\ Suffix(lines, Tail(rest), k + 1) /\ lines[k + 1].kind = "bytes"
      /\ k + 1 \in 1..Len(lines) /\ k \in Nat
  BY NextLine DEF PerClient
<1>2. ~Clean(lines)  BY <1>1, LinesHaveTypes, ZenonT(60) DEF Clean
<1>3. \A i \in 1..Len(text) : text[i].n \in Nat  BY LinesHaveTypes
<1>4. \A i \in 1..Len(q) : q[i].n \in Nat  BY ItemsHaveTypes
<1>5. Held(text, k + 1, q, c)
  <2>1. \A n \in 1..k : n \in 1..(k + 1)  BY <1>1
  <2> QED  BY <2>1 DEF PerClient, Held
<1>6. Taken(q, c, k + 1, "raised")
  <2>1. \A i \in 1..Len(q) : q[i].from = c => q[i].n <= k + 1  BY <1>1, <1>4 DEF PerClient, Taken
  <2> QED  BY <2>1 DEF PerClient, Taken
<1> QED  BY <1>1, <1>2, <1>5, <1>6 DEF PerClient

LEMMA StartTellsNothing ==
    ASSUME NEW lines, NEW rest, NEW text, NEW k, NEW q, NEW c,
           PerClient(lines, rest, k, text, "none", q, c)
    PROVE  PerClient(lines, rest, k, text, "reading", q, c)
<1>1. Taken(q, c, k, "reading")  BY DEF PerClient, Taken
<1>2. Clean(lines) => Forwarded(lines, k, text, "reading", q, c)  BY DEF PerClient, Forwarded
<1> QED  BY <1>1, <1>2 DEF PerClient

-----------------------------------------------------------------------------
(* The invariant.                                                          *)

LEMMA BridgeStarts == BridgeInit => BridgeTypes /\ BridgeInv
<1> SUFFICES ASSUME BridgeInit PROVE BridgeTypes /\ BridgeInv  OBVIOUS
<1> USE DEF BridgeInit
<1>1. BridgeTypes  BY DEF BridgeTypes
<1>2. Queued = <<>> /\ Len(<<>>) = 0 /\ Len(<<>>) - Len(<<>>) = 0  BY DEF Queued
<1>3. ASSUME NEW c \in Clients PROVE PerClient(<<>>, <<>>, 0, <<>>, "none", <<>>, c)
  <2>1. Numbered(<<>>) /\ Suffix(<<>>, <<>>, 0)  BY <1>2 DEF Numbered, Suffix
  <2>2. Taken(<<>>, c, 0, "none") /\ Forwarded(<<>>, 0, <<>>, "none", <<>>, c)
    BY <1>2 DEF Taken, Forwarded, Begun
  <2> QED  BY <2>1, <2>2, EmptyBody DEF PerClient
<1>4. BridgeInv
  <2> SUFFICES ASSUME NEW c \in Clients
               PROVE  PerClient(sent[c], unread[c], Len(sent[c]) - Len(unread[c]), body[c], handler[c], Queued, c)
    BY DEF BridgeInv
  <2>1. sent[c] = <<>> /\ unread[c] = <<>> /\ body[c] = <<>> /\ handler[c] = "none"  OBVIOUS
  <2> QED  BY <1>2, <1>3, <2>1, Zenon
<1> QED  BY <1>1, <1>4

Position(c) == Len(sent[c]) - Len(unread[c])

LEMMA QueuedHasType ==
    ASSUME BridgeTypes
    PROVE  Queued \in Seq(Item)
BY ConcatProperties DEF BridgeTypes, Queued

\* A step that leaves all of a client alone but appends to the queue for another.
LEMMA OthersKept ==
    ASSUME BridgeTypes, BridgeInv, NEW d \in Clients, NEW m \in Item, m.from # d,
           sent'[d] = sent[d], unread'[d] = unread[d], body'[d] = body[d], handler'[d] = handler[d],
           Queued' = Append(Queued, m)
    PROVE  PerClient(sent'[d], unread'[d], Len(sent'[d]) - Len(unread'[d]), body'[d], handler'[d], Queued', d)
<1>1. PerClient(sent[d], unread[d], Position(d), body[d], handler[d], Queued, d)  BY DEF BridgeInv, Position
<1>2. sent[d] \in Seq(Line) /\ unread[d] \in Seq(Line) /\ body[d] \in Seq(Line)  BY DEF BridgeTypes
<1>3. PerClient(sent[d], unread[d], Position(d), body[d], handler[d], Append(Queued, m), d)
  BY <1>1, <1>2, QueuedHasType, OtherItem, Zenon
<1> QED  BY <1>3, Zenon DEF Position

LEMMA SameKept ==
    ASSUME BridgeInv, NEW d \in Clients,
           sent'[d] = sent[d], unread'[d] = unread[d], body'[d] = body[d], handler'[d] = handler[d],
           Queued' = Queued
    PROVE  PerClient(sent'[d], unread'[d], Len(sent'[d]) - Len(unread'[d]), body'[d], handler'[d], Queued', d)
BY Zenon DEF BridgeInv

LEMMA QueueKept ==
    ASSUME inqueue' = inqueue, outqueue' = outqueue
    PROVE  Queued' = Queued
BY DEF Queued

LEMMA SendsKeepInv ==
    ASSUME BridgeTypes, BridgeInv, NEW c \in Clients, ClientSends(c)
    PROVE  BridgeTypes' /\ BridgeInv'
<1>1. PICK kind \in LineKinds :
          LET line == [kind |-> kind, n |-> IF kind = "second" THEN Len(sent[c]) ELSE Len(sent[c]) + 1]
          IN  /\ kind = "second" => sent[c] # <<>> /\ Last(sent[c]).kind = "first"
              /\ sent' = [sent EXCEPT ![c] = Append(@, line)]
              /\ unread' = [unread EXCEPT ![c] = Append(@, line)]
  BY Zenon DEF ClientSends
<1> DEFINE l == [kind |-> kind, n |-> IF kind = "second" THEN Len(sent[c]) ELSE Len(sent[c]) + 1]
<1>2. /\ kind = "second" => sent[c] # <<>> /\ sent[c][Len(sent[c])].kind = "first"
      /\ sent' = [sent EXCEPT ![c] = Append(@, l)]
      /\ unread' = [unread EXCEPT ![c] = Append(@, l)]
      /\ UNCHANGED <<hungUp, handler, body, inqueue, forwarding, outqueue, restarts>>
  BY <1>1, Zenon DEF ClientSends, Last
<1>3. sent[c] \in Seq(Line) /\ unread[c] \in Seq(Line) /\ body[c] \in Seq(Line)  BY DEF BridgeTypes
<1>4. /\ l.kind = kind /\ l.n = IF l.kind = "second" THEN Len(sent[c]) ELSE Len(sent[c]) + 1
      /\ l \in Line
  BY <1>3, LenProperties DEF Line
<1> HIDE DEF l
<1>5. BridgeTypes'
  <2>1. Append(sent[c], l) \in Seq(Line) /\ Append(unread[c], l) \in Seq(Line)  BY <1>3, <1>4, AppendedLine
  <2> QED  BY <1>2, <2>1 DEF BridgeTypes
<1>6. ASSUME NEW d \in Clients
      PROVE  PerClient(sent'[d], unread'[d], Len(sent'[d]) - Len(unread'[d]), body'[d], handler'[d], Queued', d)
  <2>1. Queued' = Queued /\ body'[d] = body[d] /\ handler'[d] = handler[d]  BY <1>2, QueueKept
  <2>2. CASE d # c
    <3>1. sent'[d] = sent[d] /\ unread'[d] = unread[d]  BY <1>2, <2>2 DEF BridgeTypes
    <3> QED  BY <2>1, <3>1, SameKept
  <2>3. CASE d = c
    <3>1. sent'[c] = Append(sent[c], l) /\ unread'[c] = Append(unread[c], l)  BY <1>2 DEF BridgeTypes
    <3>2. PerClient(sent[c], unread[c], Position(c), body[c], handler[c], Queued, c)  BY DEF BridgeInv, Position
    <3>3. PerClient(Append(sent[c], l), Append(unread[c], l), Position(c), body[c], handler[c], Queued, c)
      BY <1>2, <1>3, <1>4, <3>2, QueuedHasType, SendLine, Zenon
    <3>4. Len(sent'[c]) - Len(unread'[c]) = Position(c)
      <4>1. Len(sent'[c]) = Len(sent[c]) + 1 /\ Len(unread'[c]) = Len(unread[c]) + 1
            /\ Len(sent[c]) \in Nat /\ Len(unread[c]) \in Nat
        BY <1>3, <1>4, <3>1, AppendedLine
      <4> QED  BY <4>1 DEF Position
    <3> QED  BY <2>1, <2>3, <3>1, <3>3, <3>4, Zenon
  <2> QED  BY <2>2, <2>3
<1>7. BridgeInv'  BY <1>6 DEF BridgeInv
<1> QED  BY <1>5, <1>7

LEMMA StartKeepsInv ==
    ASSUME BridgeTypes, BridgeInv, NEW c \in Clients, start_server_curio(c)
    PROVE  BridgeTypes' /\ BridgeInv'
<1> USE DEF start_server_curio, clientSide
<1>1. BridgeTypes'  BY DEF BridgeTypes
<1>2. ASSUME NEW d \in Clients
      PROVE  PerClient(sent'[d], unread'[d], Len(sent'[d]) - Len(unread'[d]), body'[d], handler'[d], Queued', d)
  <2>1. Queued' = Queued /\ sent'[d] = sent[d] /\ unread'[d] = unread[d] /\ body'[d] = body[d]  BY QueueKept
  <2>2. CASE d # c
    <3>1. handler'[d] = handler[d]  BY <2>2 DEF BridgeTypes
    <3> QED  BY <2>1, <3>1, SameKept
  <2>3. CASE d = c
    <3>1. handler[c] = "none" /\ handler'[c] = "reading"  BY DEF BridgeTypes
    <3>2. PerClient(sent[c], unread[c], Position(c), body[c], "none", Queued, c)  BY <3>1 DEF BridgeInv, Position
    <3>3. PerClient(sent[c], unread[c], Position(c), body[c], "reading", Queued, c)  BY <3>2, StartTellsNothing, Zenon
    <3> QED  BY <2>1, <2>3, <3>1, <3>3, Zenon DEF Position
  <2> QED  BY <2>2, <2>3
<1> QED  BY <1>1, <1>2 DEF BridgeInv

LEMMA EndKeepsInv ==
    ASSUME BridgeTypes, BridgeInv, NEW c \in Clients, EndOfClient(c)
    PROVE  BridgeTypes' /\ BridgeInv'
<1> DEFINE m == [from |-> c, n |-> 0]
<1>1. /\ handler[c] = "reading" /\ handler' = [handler EXCEPT ![c] = "ended"]
      /\ inqueue' = Append(inqueue, m) /\ body' = [body EXCEPT ![c] = <<>>]
      /\ UNCHANGED <<sent, unread, outqueue>>
  BY DEF EndOfClient, EndConnection, clientSide
<1>2. sent[c] \in Seq(Line) /\ unread[c] \in Seq(Line) /\ body[c] \in Seq(Line)  BY DEF BridgeTypes
<1>3. PerClient(sent[c], unread[c], Position(c), body[c], "reading", Queued, c)  BY <1>1 DEF BridgeInv, Position
<1>4. Suffix(sent[c], unread[c], Position(c)) /\ Position(c) \in Nat  BY <1>3 DEF PerClient, Suffix
<1>5. Position(c) >= Position(c)  BY <1>4
<1>6. m \in Item /\ PerClient(sent[c], unread[c], Position(c), <<>>, "ended", Append(Queued, m), c)
  BY <1>2, <1>3, <1>4, <1>5, QueuedHasType, TellEnd, Zenon
<1> HIDE DEF m
<1>7. BridgeTypes'
  <2>1. inqueue' \in Seq(Item)  BY <1>1, <1>6, AppendedItem DEF BridgeTypes
  <2> QED  BY <1>1, <2>1 DEF BridgeTypes
<1>8. Queued' = Append(Queued, m)  BY <1>1, <1>6, QueuedAtTheEnd DEF Queued, BridgeTypes
<1>9. ASSUME NEW d \in Clients
      PROVE  PerClient(sent'[d], unread'[d], Len(sent'[d]) - Len(unread'[d]), body'[d], handler'[d], Queued', d)
  <2>1. CASE d # c
    <3>1. sent'[d] = sent[d] /\ unread'[d] = unread[d] /\ body'[d] = body[d] /\ handler'[d] = handler[d]
      BY <1>1, <2>1 DEF BridgeTypes
    <3>2. m.from # d  BY <2>1 DEF m
    <3> QED  BY <1>6, <1>8, <3>1, <3>2, OthersKept
  <2>2. CASE d = c
    <3>1. sent'[c] = sent[c] /\ unread'[c] = unread[c] /\ body'[c] = <<>> /\ handler'[c] = "ended"
      BY <1>1 DEF BridgeTypes
    <3> QED  BY <1>6, <1>8, <2>2, <3>1, Zenon DEF Position
  <2> QED  BY <2>1, <2>2
<1> QED  BY <1>7, <1>9 DEF BridgeInv

LEMMA ForwardKeepsInv ==
    ASSUME BridgeTypes, BridgeInv, handle_messages
    PROVE  BridgeTypes' /\ BridgeInv'
<1> USE DEF handle_messages, clientSide
<1>1. inqueue \in Seq(Item) /\ outqueue \in Seq(Item) /\ inqueue # <<>>  BY DEF BridgeTypes
<1>2. Head(inqueue) \in Item /\ Tail(inqueue) \in Seq(Item)  BY <1>1, HeadTailProperties
<1>3. Append(outqueue, Head(inqueue)) \in Seq(Item)  BY <1>1, <1>2, AppendedItem
<1>4. BridgeTypes'  BY <1>2, <1>3 DEF BridgeTypes
<1>5. Queued' = Queued  BY <1>1, QueuedIsForwarded DEF Queued
<1>6. ASSUME NEW d \in Clients
      PROVE  PerClient(sent'[d], unread'[d], Len(sent'[d]) - Len(unread'[d]), body'[d], handler'[d], Queued', d)
  BY <1>5, SameKept
<1> QED  BY <1>4, <1>6 DEF BridgeInv

LEMMA ReadKeepsInv ==
    ASSUME BridgeTypes, BridgeInv, NEW c \in Clients, read_json_doc(c)
    PROVE  BridgeTypes' /\ BridgeInv'
<1> DEFINE l == Head(unread[c])
           text == IF l.kind = "blank" THEN body[c] ELSE Append(body[c], l)
           k == Position(c)
<1>1. /\ handler[c] = "reading" /\ unread[c] # <<>>
      /\ unread' = [unread EXCEPT ![c] = Tail(@)] /\ UNCHANGED <<sent, outqueue>>
  BY DEF read_json_doc, clientSide
<1>2. sent[c] \in Seq(Line) /\ unread[c] \in Seq(Line) /\ body[c] \in Seq(Line)  BY DEF BridgeTypes
<1>3. PerClient(sent[c], unread[c], k, body[c], "reading", Queued, c)  BY <1>1 DEF BridgeInv, Position
<1>4. /\ Suffix(sent[c], Tail(unread[c]), k + 1) /\ l = sent[c][k + 1]
      /\ k + 1 \in 1..Len(sent[c]) /\ k \in Nat
  BY <1>1, <1>2, <1>3, NextLine DEF PerClient
<1>5. Tail(unread[c]) \in Seq(Line) /\ l \in Line  BY <1>1, <1>2, TailOfLines
<1>6. text \in Seq(Line)
  <2>1. Append(body[c], l) \in Seq(Line)  BY <1>2, <1>5, AppendedLine
  <2> QED  BY <1>2, <2>1
<1>7. sent' = sent /\ unread' \in [Clients -> Seq(Line)] /\ unread'[c] = Tail(unread[c])
  BY <1>1, <1>5 DEF BridgeTypes
<1>8. Len(sent'[c]) - Len(unread'[c]) = k + 1
  <2>1. Len(sent[c]) \in Nat /\ Len(unread[c]) \in Nat /\ Len(Tail(unread[c])) = Len(unread[c]) - 1
    BY <1>1, <1>2, TailOfLines, LenProperties
  <2>2. \A a, b \in Nat : a - (b - 1) = (a - b) + 1  OBVIOUS
  <2> QED  BY <1>7, <2>1, <2>2, Zenon DEF Position
<1>9. \A d \in Clients : d # c => sent'[d] = sent[d] /\ unread'[d] = unread[d]  BY <1>1 DEF BridgeTypes
<1>10. IF l.kind = "bytes"
       THEN handler' = [handler EXCEPT ![c] = "raised"] /\ UNCHANGED <<body, inqueue>>
       ELSE IF Parsed(text) # {} THEN \E doc \in Parsed(text) : handle_connection_curio(c, doc)
       ELSE /\ body' = [body EXCEPT ![c] = IF Len(text) > MaxBody THEN <<>> ELSE text]
            /\ UNCHANGED <<handler, inqueue>>
  BY Zenon DEF read_json_doc
<1>11. Queued \in Seq(Item)  BY QueuedHasType
<1> HIDE DEF k
<1>12. CASE l.kind = "bytes"
  <2>1. handler' = [handler EXCEPT ![c] = "raised"] /\ body' = body /\ inqueue' = inqueue  BY <1>10, <1>12
  <2>2. BridgeTypes'  BY <1>1, <1>7, <2>1 DEF BridgeTypes
  <2>3. Queued' = Queued  BY <1>1, <2>1, QueueKept
  <2>4. PerClient(sent[c], Tail(unread[c]), k + 1, body[c], "raised", Queued, c)
    BY <1>1, <1>2, <1>3, <1>11, <1>12, RaiseTellsNothing, Zenon
  <2>5. handler'[c] = "raised" /\ \A d \in Clients : d # c => handler'[d] = handler[d]  BY <2>1 DEF BridgeTypes
  <2>6. ASSUME NEW d \in Clients
        PROVE  PerClient(sent'[d], unread'[d], Len(sent'[d]) - Len(unread'[d]), body'[d], handler'[d], Queued', d)
    <3>1. CASE d # c
      <4>1. body'[d] = body[d]  BY <2>1
      <4> QED  BY <1>9, <2>3, <2>5, <3>1, <4>1, SameKept
    <3>2. CASE d = c  BY <1>7, <1>8, <2>1, <2>3, <2>4, <2>5, <3>2, Zenon
    <3> QED  BY <3>1, <3>2
  <2> QED  BY <2>2, <2>6 DEF BridgeInv
<1>13. CASE l.kind # "bytes" /\ Parsed(text) # {}
  <2>1. PICK doc \in Parsed(text) : handle_connection_curio(c, doc)  BY <1>10, <1>13, Zenon
  <2> DEFINE m == [from |-> c, n |-> IF doc.kind = "falsy" THEN 0 ELSE doc.n]
             state == IF doc.kind = "falsy" THEN "ended" ELSE "reading"
  <2>2. /\ body' = [body EXCEPT ![c] = <<>>] /\ inqueue' = Append(inqueue, m)
        /\ handler' = [handler EXCEPT ![c] = state]
    <3>1. CASE doc.kind = "falsy"  BY <2>1, <3>1 DEF handle_connection_curio, EndConnection
    <3>2. CASE doc.kind # "falsy"
      <4>1. handler' = handler /\ state = "reading"  BY <2>1, <3>2 DEF handle_connection_curio
      <4>2. handler' = [handler EXCEPT ![c] = state]  BY <1>1, <4>1 DEF BridgeTypes
      <4> QED  BY <2>1, <3>2, <4>2 DEF handle_connection_curio
    <3> QED  BY <3>1, <3>2
  <2>3. m \in Item /\ PerClient(sent[c], Tail(unread[c]), k + 1, <<>>, state, Append(Queued, m), c)
    <3>1. CASE doc.kind = "falsy"
      <4>0. DocFound(doc, sent[c], k, body[c], Queued, c)  BY <1>1, <1>2, <1>3, <1>11, <2>1, ReadDocument, Zenon
      <4>1. sent[c][k + 1].kind = "falsy"  BY <3>1, <4>0 DEF DocFound
      <4>2. ~Clean(sent[c])  BY <1>2, <1>4, <4>1, LinesHaveTypes, ZenonT(60) DEF Clean
      <4>3. k + 1 \in Nat /\ k + 1 >= k  BY <1>4
      <4>4. /\ [from |-> c, n |-> 0] \in Item
            /\ PerClient(sent[c], Tail(unread[c]), k + 1, <<>>, "ended", Append(Queued, [from |-> c, n |-> 0]), c)
        BY <1>2, <1>3, <1>4, <1>11, <4>2, <4>3, TellEnd, Zenon
      <4>5. m = [from |-> c, n |-> 0] /\ state = "ended"  BY <3>1
      <4> QED  BY <4>4, <4>5, Zenon
    <3>2. CASE doc.kind # "falsy"
      <4>1. /\ [from |-> c, n |-> doc.n] \in Item
            /\ PerClient(sent[c], Tail(unread[c]), k + 1, <<>>, "reading", Append(Queued, [from |-> c, n |-> doc.n]), c)
        BY <1>1, <1>2, <1>3, <1>11, <2>1, <3>2, TellDocument, Zenon
      <4>2. m = [from |-> c, n |-> doc.n] /\ state = "reading"  BY <3>2
      <4> QED  BY <4>1, <4>2, Zenon
    <3> QED  BY <3>1, <3>2
  <2>4. m.from = c /\ state \in {"ended", "reading"}  OBVIOUS
  <2> HIDE DEF m, state
  <2>5. BridgeTypes'
    <3>1. inqueue' \in Seq(Item)  BY <2>2, <2>3, AppendedItem DEF BridgeTypes
    <3> QED  BY <1>1, <1>7, <2>2, <2>4, <3>1 DEF BridgeTypes
  <2>6. Queued' = Append(Queued, m)  BY <1>1, <2>2, <2>3, QueuedAtTheEnd DEF Queued, BridgeTypes
  <2>7. ASSUME NEW d \in Clients
        PROVE  PerClient(sent'[d], unread'[d], Len(sent'[d]) - Len(unread'[d]), body'[d], handler'[d], Queued', d)
    <3>1. CASE d # c
      <4>1. body'[d] = body[d] /\ handler'[d] = handler[d]  BY <2>2, <3>1 DEF BridgeTypes
      <4>2. m.from # d  BY <2>4, <3>1
      <4> QED  BY <1>9, <2>3, <2>6, <3>1, <4>1, <4>2, OthersKept
    <3>2. CASE d = c
      <4>1. body'[c] = <<>> /\ handler'[c] = state  BY <2>2 DEF BridgeTypes
      <4> QED  BY <1>7, <1>8, <2>3, <2>6, <3>2, <4>1, Zenon
    <3> QED  BY <3>1, <3>2
  <2> QED  BY <2>5, <2>7 DEF BridgeInv
<1>14. CASE l.kind # "bytes" /\ Parsed(text) = {}
  <2> DEFINE new == IF Len(text) > MaxBody THEN <<>> ELSE text
  <2>1. body' = [body EXCEPT ![c] = new] /\ handler' = handler /\ inqueue' = inqueue  BY <1>10, <1>14, Zenon
  <2>2. PerClient(sent[c], Tail(unread[c]), k + 1, new, "reading", Queued, c)
    BY <1>1, <1>2, <1>3, <1>11, <1>14, ReadNothing, Zenon
  <2>3. new \in Seq(Line)  BY <1>6
  <2> HIDE DEF new
  <2>4. BridgeTypes'  BY <1>1, <1>7, <2>1, <2>3 DEF BridgeTypes
  <2>5. Queued' = Queued  BY <1>1, <2>1, QueueKept
  <2>6. ASSUME NEW d \in Clients
        PROVE  PerClient(sent'[d], unread'[d], Len(sent'[d]) - Len(unread'[d]), body'[d], handler'[d], Queued', d)
    <3>1. CASE d # c
      <4>1. body'[d] = body[d] /\ handler'[d] = handler[d]  BY <2>1, <3>1 DEF BridgeTypes
      <4> QED  BY <1>9, <2>5, <3>1, <4>1, SameKept
    <3>2. CASE d = c
      <4>1. body'[c] = new /\ handler'[c] = "reading"  BY <1>1, <2>1 DEF BridgeTypes
      <4> QED  BY <1>7, <1>8, <2>2, <2>5, <3>2, <4>1, Zenon
    <3> QED  BY <3>1, <3>2
  <2> QED  BY <2>4, <2>6 DEF BridgeInv
<1> QED  BY <1>12, <1>13, <1>14

\* What was told of a client is of the lines it sent that were read.
THEOREM BridgeInvariant == BridgeSpec => [](BridgeTypes /\ BridgeInv)
<1>1. BridgeInit => BridgeTypes /\ BridgeInv  BY BridgeStarts
<1>2. BridgeTypes /\ BridgeInv /\ [BridgeNext]_bridgeVars => (BridgeTypes /\ BridgeInv)'
  <2> SUFFICES ASSUME BridgeTypes, BridgeInv, [BridgeNext]_bridgeVars
               PROVE  BridgeTypes' /\ BridgeInv'
    OBVIOUS
  <2>1. ASSUME UNCHANGED <<sent, unread, handler, body, inqueue, outqueue>> PROVE BridgeTypes' /\ BridgeInv'
    <3>1. Queued' = Queued  BY <2>1, QueueKept
    <3>2. ASSUME NEW d \in Clients
          PROVE  PerClient(sent'[d], unread'[d], Len(sent'[d]) - Len(unread'[d]), body'[d], handler'[d], Queued', d)
      BY <2>1, <3>1, SameKept
    <3> QED  BY <2>1, <3>2 DEF BridgeTypes, BridgeInv
  <2>2. CASE UNCHANGED bridgeVars  BY <2>1, <2>2 DEF bridgeVars
  <2>3. CASE \E c \in Clients : ClientSends(c) \/ ClientHangsUp(c) \/ ServerStep(c)
    <3>1. PICK c \in Clients : ClientSends(c) \/ ClientHangsUp(c) \/ ServerStep(c)  BY <2>3
    <3>2. CASE ClientSends(c)  BY <3>2, SendsKeepInv
    <3>3. CASE ClientHangsUp(c)  BY <2>1, <3>3 DEF ClientHangsUp
    <3>4. CASE start_server_curio(c)  BY <3>4, StartKeepsInv
    <3>5. CASE read_json_doc(c)  BY <3>5, ReadKeepsInv
    <3>6. CASE EndOfClient(c)  BY <3>6, EndKeepsInv
    <3> QED  BY <3>1, <3>2, <3>3, <3>4, <3>5, <3>6 DEF ServerStep
  <2>4. CASE handle_messages  BY <2>4, ForwardKeepsInv
  <2>5. CASE StartForwarding  BY <2>1, <2>5 DEF StartForwarding, clientSide
  <2>6. CASE CancelForwarding  BY <2>1, <2>6 DEF CancelForwarding, clientSide
  <2> QED  BY <2>2, <2>3, <2>4, <2>5, <2>6 DEF BridgeNext, ForwardStep
<1> QED  BY <1>1, <1>2, PTL DEF BridgeSpec

(* handle_connection_curio and handle_messages: whatever the clients send and however    *)
(* often the forwarding task is cancelled, what is forwarded for a client are its         *)
(* documents in their order, and its end once, after all of them.                         *)
THEOREM EndComesLast == BridgeSpec => []OneEndAtTheEnd
<1>1. BridgeTypes /\ BridgeInv => OneEndAtTheEnd
  <2> SUFFICES ASSUME BridgeTypes, BridgeInv, NEW c \in Clients
               PROVE  /\ \A i, j \in From(c) :
                            i < j => i \in Told(c) /\ (j \in Told(c) => Queued[i].n < Queued[j].n)
                      /\ From(c) # Told(c) <=> handler[c] = "ended"
    BY DEF OneEndAtTheEnd
  <2>1. Taken(Queued, c, Position(c), handler[c])  BY DEF BridgeInv, PerClient, Position
  <2>2. DOMAIN Queued = 1..Len(Queued)  BY QueuedHasType, ItemsHaveTypes
  <2>3. \A i, j \in From(c) : i < j => i \in Told(c) /\ (j \in Told(c) => Queued[i].n < Queued[j].n)
    BY <2>1, <2>2 DEF Taken, From, Told
  <2>4. From(c) # Told(c) <=> \E i \in 1..Len(Queued) : Queued[i].from = c /\ Queued[i].n = 0
    BY <2>2 DEF From, Told
  <2> QED  BY <2>1, <2>3, <2>4 DEF Taken
<1> QED  BY <1>1, BridgeInvariant, PTL

(* read_json_doc: the documents of a client that sends whole documents, each in one or    *)
(* in two lines, are forwarded once each and in its order, up to those it has still to    *)
(* read, and whatever the other clients send.                                             *)
THEOREM CleanClientsAreServed == BridgeSpec => []CleanIsForwarded
<1>1. BridgeTypes /\ BridgeInv => CleanIsForwarded
  <2> SUFFICES ASSUME BridgeTypes, BridgeInv, NEW c \in Clients, Clean(sent[c])
               PROVE  /\ {Queued[i].n : i \in Told(c)} \cup Documents(unread[c]) = Documents(sent[c])
                      /\ \A i, j \in Told(c) : i < j => Queued[i].n < Queued[j].n
                      /\ \A i \in Told(c), n \in Documents(unread[c]) : Queued[i].n < n
    BY DEF CleanIsForwarded
  <2> DEFINE k == Position(c)
             lines == sent[c]
             rest == unread[c]
             q == Queued
  <2>1. PerClient(lines, rest, k, body[c], handler[c], q, c)  BY DEF BridgeInv, Position
  <2>2. lines \in Seq(Line) /\ rest \in Seq(Line) /\ q \in Seq(Item)  BY QueuedHasType DEF BridgeTypes
  <2>3. DOMAIN q = 1..Len(q) /\ \A i \in 1..Len(q) : q[i].n \in Nat  BY <2>2, ItemsHaveTypes
  <2>4. /\ DOMAIN lines = 1..Len(lines) /\ DOMAIN rest = 1..Len(rest)
        /\ Len(lines) \in Nat /\ Len(rest) \in Nat
    BY <2>2, LinesHaveTypes
  <2>5. Numbered(lines) /\ Taken(q, c, k, handler[c]) /\ Forwarded(lines, k, body[c], handler[c], q, c)
    BY <2>1 DEF PerClient
  <2>6. k \in Nat /\ Len(lines) = Len(rest) + k /\ \A i \in 1..Len(rest) : rest[i] = lines[i + k]
    BY <2>1 DEF PerClient, Suffix
  <2>7. Told(c) = {i \in 1..Len(q) : q[i].from = c /\ q[i].n # 0}  BY <2>3 DEF Told, From
  <2> DEFINE IsLast(l) == l.kind \in {"doc", "second"}
  <2>8. /\ Documents(lines) = {lines[i].n : i \in {j \in 1..Len(lines) : IsLast(lines[j])}}
        /\ Documents(rest) = {rest[i].n : i \in {j \in 1..Len(rest) : IsLast(rest[j])}}
    BY <2>4 DEF Documents
  <2> HIDE DEF k, lines, rest, q
  \* A document still to be read, by its place among all lines.
  <2>9. ASSUME NEW j \in 1..Len(rest), IsLast(rest[j])
        PROVE  j + k \in 1..Len(lines) /\ j + k > k /\ rest[j] = lines[j + k]
    BY <2>4, <2>6
  <2>10. ASSUME NEW i \in Told(c)
         PROVE  \E j \in 1..k : IsLast(lines[j]) /\ lines[j].n = q[i].n
    BY <2>5, <2>7 DEF Forwarded
  <2>11. \A j \in 1..k : j \in 1..Len(lines)  BY <2>4, <2>6
  <2>12. {q[i].n : i \in Told(c)} \cup Documents(rest) \subseteq Documents(lines)
    <3>1. ASSUME NEW i \in Told(c) PROVE q[i].n \in Documents(lines)
      <4>1. PICK j \in 1..k : IsLast(lines[j]) /\ lines[j].n = q[i].n  BY <2>10
      <4> QED  BY <2>8, <2>11, <4>1
    <3>2. ASSUME NEW j \in 1..Len(rest), IsLast(rest[j]) PROVE rest[j].n \in Documents(lines)
      BY <2>8, <2>9, <3>2
    <3> QED  BY <2>8, <3>1, <3>2
  <2>13. Documents(lines) \subseteq {q[i].n : i \in Told(c)} \cup Documents(rest)
    <3> SUFFICES ASSUME NEW j \in 1..Len(lines), IsLast(lines[j])
                 PROVE  lines[j].n \in {q[i].n : i \in Told(c)} \cup Documents(rest)
      BY <2>8
    <3>1. CASE j \in 1..k
      <4>1. PICK i \in 1..Len(q) : q[i].from = c /\ q[i].n = lines[j].n  BY <2>5, <3>1 DEF Forwarded
      <4>2. lines[j].n # 0  BY <2>4, <2>5 DEF Numbered
      <4>3. i \in Told(c)  BY <2>7, <4>1, <4>2
      <4> QED  BY <4>1, <4>3
    <3>2. CASE j > k
      <4>1. PICK i \in 1..Len(rest) : i + k = j  BY <2>4, <2>6, <3>2
      <4>2. rest[i] = lines[j]  BY <2>6, <4>1
      <4>3. rest[i].n \in Documents(rest)  BY <2>8, <4>2
      <4> QED  BY <4>2, <4>3
    <3> QED  BY <2>4, <2>6, <3>1, <3>2
  <2>14. \A i, j \in Told(c) : i < j => q[i].n < q[j].n  BY <2>5, <2>7 DEF Taken
  <2>15. ASSUME NEW i \in Told(c), NEW j \in 1..Len(rest), IsLast(rest[j]) PROVE q[i].n < rest[j].n
    <3>1. PICK a \in 1..k : IsLast(lines[a]) /\ lines[a].n = q[i].n  BY <2>10
    <3>2. PICK b \in 1..Len(lines) : b > k /\ rest[j] = lines[b]  BY <2>9, <2>15
    <3>3. lines[a].n <= a /\ (lines[a].kind = "second" => lines[a].n < a) /\ lines[a].n \in Nat
      BY <2>2, <2>5, <2>11, LinesHaveTypes DEF Numbered
    <3>4. CASE lines[b].kind = "doc"
      <4>1. lines[b].n = b  BY <2>5, <3>4 DEF Numbered
      <4> QED  BY <2>6, <3>1, <3>2, <3>3, <4>1
    <3>5. CASE lines[b].kind = "second"
      <4>1. b > 1 /\ lines[b].n = b - 1 /\ lines[b - 1].kind = "first"  BY <2>5, <3>5 DEF Numbered
      <4>2. a # b - 1  BY <3>1, <4>1
      <4>3. a < b - 1  BY <2>6, <3>2, <4>2
      <4> QED  BY <2>6, <3>1, <3>2, <3>3, <4>1, <4>3
    <3> QED  BY <2>15, <3>2, <3>4, <3>5
  <2>16. \A i \in Told(c), n \in Documents(rest) : q[i].n < n  BY <2>8, <2>15
  <2> QED  BY <2>12, <2>13, <2>14, <2>16 DEF q, lines, rest
<1> QED  BY <1>1, BridgeInvariant, PTL
-----------------------------------------------------------------------------
(* The bridge as a channel.                                                *)

Ended == {c \in Clients : handler[c] = "ended"}

LEMMA NewAtTheEnd ==
    ASSUME NEW q \in Seq(Item), NEW m \in Item, NEW p, p = Append(q, m), NEW k, Taken(p, m.from, k, "reading")
    PROVE  /\ Len(q) + 1 \in DOMAIN p /\ p[Len(q) + 1] = m /\ m.n > 0
           /\ \A i \in DOMAIN q : q[i].from = m.from => q[i].n < m.n
<1>1. /\ p \in Seq(Item) /\ Len(q) \in Nat /\ Len(p) = Len(q) + 1 /\ p[Len(q) + 1] = m
      /\ \A i \in 1..Len(q) : p[i] = q[i]
  BY AppendedItem
<1>2. DOMAIN p = 1..Len(p) /\ DOMAIN q = 1..Len(q) /\ m.n \in Nat  BY <1>1, ItemsHaveTypes DEF Item
<1>3. Len(q) + 1 \in 1..Len(p)  BY <1>1
<1>4. m.n # 0  BY <1>1, <1>3 DEF Taken
<1>5. ASSUME NEW i \in 1..Len(q), q[i].from = m.from PROVE q[i].n < m.n
  <2>1. i \in 1..Len(p) /\ i < Len(q) + 1 /\ p[i] = q[i]  BY <1>1
  <2> QED  BY <1>1, <1>3, <1>4, <1>5, <2>1 DEF Taken
<1> QED  BY <1>1, <1>2, <1>3, <1>4, <1>5

LEMMA NothingPut ==
    ASSUME Queued' = Queued, outqueue' = outqueue, Ended' = Ended
    PROVE  UNCHANGED BridgeChannel!channelVars
BY DEF BridgeChannel!channelVars, Ended

\* A document is put on the queue.
LEMMA DocumentIsTaken ==
    ASSUME BridgeTypes, BridgeInv', NEW c \in Clients, NEW n \in Nat,
           handler[c] = "reading", handler' = handler, outqueue' = outqueue,
           inqueue' = Append(inqueue, [from |-> c, n |-> n])
    PROVE  BridgeChannel!Take(c)
<1> DEFINE m == [from |-> c, n |-> n]
<1>1. m \in Item /\ m.from = c  BY DEF Item
<1> HIDE DEF m
<1>2. Queued' = Append(Queued, m)  BY <1>1, QueuedAtTheEnd DEF Queued, BridgeTypes, m
<1>3. Taken(Queued', c, Len(sent'[c]) - Len(unread'[c]), handler'[c])  BY Zenon DEF BridgeInv, PerClient
<1>4. Taken(Queued', m.from, Len(sent'[c]) - Len(unread'[c]), "reading")  BY <1>1, <1>3, Zenon
<1>5. /\ Len(Queued) + 1 \in DOMAIN Queued' /\ Queued'[Len(Queued) + 1] = m /\ m.n > 0
      /\ \A i \in DOMAIN Queued : Queued[i].from = m.from => Queued[i].n < m.n
  BY <1>1, <1>2, <1>4, QueuedHasType, NewAtTheEnd, Zenon
<1>6. Ended' = Ended /\ c \notin Ended  BY DEF Ended
<1> QED  BY <1>1, <1>2, <1>5, <1>6 DEF BridgeChannel!Take, BridgeChannel!Newer, Ended

LEMMA EndIsClose ==
    ASSUME BridgeTypes, NEW c \in Clients, handler[c] = "reading", EndConnection(c), outqueue' = outqueue
    PROVE  BridgeChannel!Close(c)
<1>1. [from |-> c, n |-> 0] \in Item  BY DEF Item
<1>2. Queued' = Append(Queued, [from |-> c, n |-> 0])
  BY <1>1, QueuedAtTheEnd DEF EndConnection, Queued, BridgeTypes
<1>3. Ended' = Ended \cup {c} /\ c \notin Ended  BY DEF EndConnection, BridgeTypes, Ended
<1> QED  BY <1>2, <1>3 DEF BridgeChannel!Close, Ended

LEMMA ParsedHasNumber ==
    ASSUME NEW text \in Seq(Line), NEW doc \in Parsed(text)
    PROVE  doc.n \in Nat
<1>1. Len(text) \in Nat /\ \A i \in 1..Len(text) : text[i] \in Line  BY LinesHaveTypes
<1>2. Len(text) >= 1 /\ (doc = text[1] \/ doc = [text[1] EXCEPT !.kind = "doc"])  BY <1>1 DEF Parsed
<1>3. text[1] \in Line  BY <1>1, <1>2
<1> QED  BY <1>2, <1>3 DEF Line

LEMMA ReadRefines ==
    ASSUME BridgeTypes, BridgeInv', NEW c \in Clients, read_json_doc(c)
    PROVE  BridgeChannel!Take(c) \/ BridgeChannel!Close(c) \/ UNCHANGED BridgeChannel!channelVars
<1> DEFINE l == Head(unread[c])
           text == IF l.kind = "blank" THEN body[c] ELSE Append(body[c], l)
<1>1. handler[c] = "reading" /\ unread[c] # <<>> /\ outqueue' = outqueue  BY DEF read_json_doc
<1>2. IF l.kind = "bytes"
      THEN handler' = [handler EXCEPT ![c] = "raised"] /\ UNCHANGED <<body, inqueue>>
      ELSE IF Parsed(text) # {} THEN \E doc \in Parsed(text) : handle_connection_curio(c, doc)
      ELSE /\ body' = [body EXCEPT ![c] = IF Len(text) > MaxBody THEN <<>> ELSE text]
           /\ UNCHANGED <<handler, inqueue>>
  BY Zenon DEF read_json_doc
<1>3. text \in Seq(Line)
  <2>1. body[c] \in Seq(Line) /\ unread[c] \in Seq(Line)  BY DEF BridgeTypes
  <2>2. l \in Line  BY <1>1, <2>1, TailOfLines
  <2>3. Append(body[c], l) \in Seq(Line)  BY <2>1, <2>2, AppendedLine
  <2> QED  BY <2>1, <2>3
<1> HIDE DEF text
<1>4. CASE l.kind = "bytes"
  <2>1. handler' = [handler EXCEPT ![c] = "raised"] /\ inqueue' = inqueue  BY <1>2, <1>4
  <2>2. Ended' = Ended  BY <1>1, <2>1 DEF Ended, BridgeTypes
  <2> QED  BY <1>1, <2>1, <2>2, QueueKept, NothingPut
<1>5. CASE l.kind # "bytes" /\ Parsed(text) # {}
  <2>1. PICK doc \in Parsed(text) : handle_connection_curio(c, doc)  BY <1>2, <1>5, Zenon
  <2>2. CASE doc.kind = "falsy"
    <3>1. EndConnection(c)  BY <2>1, <2>2 DEF handle_connection_curio
    <3> QED  BY <1>1, <3>1, EndIsClose
  <2>3. CASE doc.kind # "falsy"
    <3>1. doc.n \in Nat  BY <1>3, ParsedHasNumber
    <3>2. inqueue' = Append(inqueue, [from |-> c, n |-> doc.n]) /\ handler' = handler
      BY <2>1, <2>3 DEF handle_connection_curio
    <3> QED  BY <1>1, <3>1, <3>2, DocumentIsTaken
  <2> QED  BY <2>2, <2>3
<1>6. CASE l.kind # "bytes" /\ Parsed(text) = {}
  <2>1. handler' = handler /\ inqueue' = inqueue  BY <1>2, <1>6, Zenon
  <2>2. Ended' = Ended  BY <2>1 DEF Ended
  <2> QED  BY <1>1, <2>1, <2>2, QueueKept, NothingPut
<1> QED  BY <1>4, <1>5, <1>6

\* The oldest message of the queue is the one after those forwarded.
LEMMA OldestIsNext ==
    ASSUME NEW o \in Seq(Item), NEW q \in Seq(Item), q # <<>>
    PROVE  Len(o) < Len(o \o q) /\ (o \o q)[Len(o) + 1] = Head(q)
<1>1. Len(o) \in Nat /\ Len(q) \in Nat /\ Len(q) > 0  BY EmptySeq, LenProperties
<1>2. Len(o \o q) = Len(o) + Len(q) /\ \A i \in 1..Len(o \o q) : (o \o q)[i] = IF i <= Len(o) THEN o[i] ELSE q[i - Len(o)]
  BY ConcatProperties
<1>3. /\ Len(o) + 1 \in 1..(Len(o) + Len(q)) /\ ~(Len(o) + 1 <= Len(o)) /\ (Len(o) + 1) - Len(o) = 1
      /\ Len(o) < Len(o) + Len(q)
  BY <1>1
<1>4. Head(q) = q[1]  BY HeadTailProperties
<1> QED  BY <1>2, <1>3, <1>4

LEMMA ForwardIsDeliver ==
    ASSUME BridgeTypes, handle_messages
    PROVE  BridgeChannel!Deliver
<1>1. inqueue \in Seq(Item) /\ outqueue \in Seq(Item) /\ inqueue # <<>>  BY DEF BridgeTypes, handle_messages
<1>2. Queued' = Queued  BY <1>1, QueuedIsForwarded DEF Queued, handle_messages
<1>3. Len(outqueue) < Len(Queued) /\ Queued[Len(outqueue) + 1] = Head(inqueue)  BY <1>1, OldestIsNext DEF Queued
<1>4. outqueue' = Append(outqueue, Head(inqueue)) /\ Ended' = Ended  BY DEF handle_messages, Ended
<1> QED  BY <1>2, <1>3, <1>4 DEF BridgeChannel!Deliver, Ended

(* start_server_curio, handle_connection_curio, read_json_doc and handle_messages: the    *)
(* bridge is one channel of its clients' documents, whatever the clients send and when    *)
(* they hang up, through the cancelled and restarted forwarding task.                     *)
THEOREM BridgeIsChannel == BridgeSpec => BridgeChannel!Spec
<1>1. BridgeInit => BridgeChannel!Init
  BY DEF BridgeInit, BridgeChannel!Init, Queued
<1>2. ASSUME BridgeTypes, BridgeInv', [BridgeNext]_bridgeVars
      PROVE  BridgeChannel!Next \/ UNCHANGED BridgeChannel!channelVars
  <2>1. ASSUME UNCHANGED <<handler, inqueue, outqueue>> PROVE UNCHANGED BridgeChannel!channelVars
    BY <2>1, QueueKept, NothingPut DEF Ended
  <2>2. CASE UNCHANGED bridgeVars  BY <2>1, <2>2 DEF bridgeVars
  <2>3. CASE \E c \in Clients : ClientSends(c) \/ ClientHangsUp(c) \/ ServerStep(c)
    <3>1. PICK c \in Clients : ClientSends(c) \/ ClientHangsUp(c) \/ ServerStep(c)  BY <2>3
    <3>2. CASE ClientSends(c)  BY <2>1, <3>2, Zenon DEF ClientSends
    <3>3. CASE ClientHangsUp(c)  BY <2>1, <3>3, Zenon DEF ClientHangsUp
    <3>4. CASE start_server_curio(c)
      <4>1. Ended' = Ended  BY <3>4 DEF start_server_curio, Ended, BridgeTypes
      <4> QED  BY <3>4, <4>1, QueueKept, NothingPut DEF start_server_curio
    <3>5. CASE read_json_doc(c)  BY <1>2, <3>5, ReadRefines, Zenon DEF BridgeChannel!Next
    <3>6. CASE EndOfClient(c)
      <4>1. BridgeChannel!Close(c)  BY <1>2, <3>6, EndIsClose DEF EndOfClient
      <4> QED  BY <4>1, Zenon DEF BridgeChannel!Next
    <3> QED  BY <3>1, <3>2, <3>3, <3>4, <3>5, <3>6 DEF ServerStep
  <2>4. CASE handle_messages  BY <1>2, <2>4, ForwardIsDeliver, Zenon DEF BridgeChannel!Next
  <2>5. CASE StartForwarding  BY <2>1, <2>5 DEF StartForwarding
  <2>6. CASE CancelForwarding  BY <2>1, <2>6 DEF CancelForwarding
  <2> QED  BY <1>2, <2>2, <2>3, <2>4, <2>5, <2>6 DEF BridgeNext, ForwardStep
<1> QED  BY <1>1, <1>2, BridgeInvariant, PTL DEF BridgeSpec, BridgeChannel!Spec
=============================================================================
