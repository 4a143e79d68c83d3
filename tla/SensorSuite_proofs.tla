------------------------- MODULE SensorSuite_proofs -------------------------
(***************************************************************************)
(* Proofs about the BCC sensor and the sensing methods, and about the      *)
(* suite of sensor programs: a behaviour of the suite is one of the        *)
(* program that runs, so what holds of each program holds of the suite.    *)
(***************************************************************************)
EXTENDS SensorSuite, Forwarding_proofs, FiniteSetTheorems

-----------------------------------------------------------------------------
(* The BCC sensor: its types and its invariant.                            *)

Output == [n : Nat, blank : BOOLEAN]
Record == [toolname : BccTools, prio : {TOOLS[t] : t \in BccTools}, line : Output]

BccTypes ==
    /\ printed \in [BccTools -> Seq(Output)] /\ pipe \in [BccTools -> Seq(Output)]
    /\ header \subseteq BccTools
    /\ hand \in Seq(Record) /\ msg_queue \in Seq(Record) /\ inmsg \in Seq(Record)
    /\ relayed \in Seq([msg : Record, sent : BOOLEAN])
    /\ consumer = "emit" => \E r \in Record : inmsg = <<r>>
    /\ consumer # "emit" => inmsg = <<>>

\* The records of a tool are of the lines read after its header at h, all of them
\* and in their order.
AfterHeader(lines, k, h, made, t) ==
    /\ h \in 1..k /\ IsHeader(lines, h)
    /\ \A i \in 1..Len(made) : made[i].toolname = t => \E j \in (h + 1)..k : made[i].line = lines[j]
    /\ \A j \in (h + 1)..k : \E i \in 1..Len(made) : made[i].toolname = t /\ made[i].line = lines[j]
    /\ \A i, j \in 1..Len(made) :
           i < j /\ made[i].toolname = t /\ made[j].toolname = t => made[i].line.n < made[j].line.n

\* Of a tool whose header was not read yet there is no record.
BeforeHeader(lines, k, made, t) ==
    /\ \A j \in 1..k : lines[j].blank
    /\ \A i \in 1..Len(made) : made[i].toolname # t

PerTool(lines, rest, k, started, made, t) ==
    /\ \A i \in 1..Len(lines) : lines[i].n = i
    /\ Suffix(lines, rest, k)
    /\ IF started THEN \E h \in 1..k : AfterHeader(lines, k, h, made, t)
       ELSE BeforeHeader(lines, k, made, t)

BccInv ==
    \A t \in BccTools :
        PerTool(printed[t], pipe[t], Len(printed[t]) - Len(pipe[t]), t \in header, Made, t)

-----------------------------------------------------------------------------
(* Sequences.                                                              *)

LEMMA OutputHasTypes ==
    ASSUME NEW s \in Seq(Output)
    PROVE  /\ Len(s) \in Nat /\ DOMAIN s = 1..Len(s)
           /\ \A i \in 1..Len(s) : s[i] \in Output /\ s[i].n \in Nat
<1>1. \A i \in 1..Len(s) : s[i] \in Output  BY ElementOfSeq
<1> QED  BY <1>1, LenProperties DEF Output

LEMMA RecordsHaveTypes ==
    ASSUME NEW s \in Seq(Record)
    PROVE  /\ Len(s) \in Nat /\ DOMAIN s = 1..Len(s)
           /\ \A i \in 1..Len(s) : s[i] \in Record /\ s[i].line \in Output /\ s[i].line.n \in Nat
<1>1. \A i \in 1..Len(s) : s[i] \in Record  BY ElementOfSeq
<1>2. \A r \in Record : r.line \in Output  BY DEF Record
<1>3. \A o \in Output : o.n \in Nat  BY DEF Output
<1> QED  BY <1>1, <1>2, <1>3, LenProperties

LEMMA AppendedOutput ==
    ASSUME NEW s \in Seq(Output), NEW l \in Output
    PROVE  /\ Append(s, l) \in Seq(Output) /\ Len(s) \in Nat /\ Len(Append(s, l)) = Len(s) + 1
           /\ \A i \in 1..Len(s) : Append(s, l)[i] = s[i]
           /\ Append(s, l)[Len(s) + 1] = l
BY AppendProperties, LenProperties

LEMMA AppendedRecord ==
    ASSUME NEW s \in Seq(Record), NEW r \in Record
    PROVE  /\ Append(s, r) \in Seq(Record) /\ Len(s) \in Nat /\ Len(Append(s, r)) = Len(s) + 1
           /\ \A i \in 1..Len(s) : Append(s, r)[i] = s[i]
           /\ Append(s, r)[Len(s) + 1] = r
           /\ \A i \in 1..(Len(s) + 1) : i \in 1..Len(s) \/ i = Len(s) + 1
BY AppendProperties, LenProperties

LEMMA TailOfOutput ==
    ASSUME NEW s \in Seq(Output), s # <<>>
    PROVE  /\ Tail(s) \in Seq(Output) /\ Len(s) \in Nat /\ Len(s) > 0 /\ Len(Tail(s)) = Len(s) - 1
           /\ Head(s) = s[1] /\ Head(s) \in Output
           /\ \A i \in 1..(Len(s) - 1) : Tail(s)[i] = s[i + 1]
<1>1. Len(s) \in Nat /\ Len(s) > 0  BY EmptySeq, LenProperties
<1>2. Tail(s) \in Seq(Output) /\ Len(Tail(s)) = Len(s) - 1 /\ \A i \in 1..Len(Tail(s)) : Tail(s)[i] = s[i + 1]
  BY HeadTailProperties
<1>3. Head(s) = s[1] /\ Head(s) \in Output  BY HeadTailProperties
<1> QED  BY <1>1, <1>2, <1>3

LEMMA RecordsAssociate ==
    ASSUME NEW a \in Seq(Record), NEW b \in Seq(Record), NEW c \in Seq(Record)
    PROVE  (a \o b) \o c = a \o (b \o c)
BY ConcatAssociative, SMT

LEMMA RecordsConcat ==
    ASSUME NEW a \in Seq(Record), NEW b \in Seq(Record)
    PROVE  a \o b \in Seq(Record) /\ a \o <<>> = a
BY ConcatProperties, ConcatEmptySeq

LEMMA RecordAppended ==
    ASSUME NEW a \in Seq(Record), NEW r \in Record
    PROVE  a \o <<r>> = Append(a, r) /\ <<r>> \in Seq(Record)
BY AppendIsConcat

LEMMA HeadOfRecords ==
    ASSUME NEW s \in Seq(Record), s # <<>>
    PROVE  Head(s) \in Record /\ Tail(s) \in Seq(Record) /\ <<Head(s)>> \o Tail(s) = s
BY HeadTailProperties, SMT

Done == [i \in DOMAIN relayed |-> relayed[i].msg]

LEMMA DoneHasType ==
    ASSUME BccTypes
    PROVE  Done \in Seq(Record) /\ Len(Done) = Len(relayed) /\ Len(relayed) \in Nat
<1> DEFINE R == [msg : Record, sent : BOOLEAN]
<1>1. relayed \in Seq(R)  BY DEF BccTypes
<1>2. \A r \in R : r.msg \in Record  OBVIOUS
<1> HIDE DEF R
<1>3. Len(relayed) \in Nat /\ DOMAIN relayed = 1..Len(relayed) /\ \A i \in 1..Len(relayed) : relayed[i] \in R
  BY <1>1, ElementOfSeq, LenProperties
<1>4. Done = [i \in 1..Len(relayed) |-> relayed[i].msg] /\ \A i \in 1..Len(relayed) : relayed[i].msg \in Record
  BY <1>2, <1>3 DEF Done
<1> QED  BY <1>3, <1>4, SMT

LEMMA MadeHasType ==
    ASSUME BccTypes
    PROVE  /\ Made = ((Done \o inmsg) \o msg_queue) \o hand
           /\ Done \in Seq(Record) /\ Done \o inmsg \in Seq(Record) /\ (Done \o inmsg) \o msg_queue \in Seq(Record)
           /\ Made \in Seq(Record)
<1>1. Made = ((Done \o inmsg) \o msg_queue) \o hand  BY Zenon DEF Made, Done
<1>2. Done \in Seq(Record) /\ inmsg \in Seq(Record) /\ msg_queue \in Seq(Record) /\ hand \in Seq(Record)
  BY DoneHasType DEF BccTypes
<1>3. Done \o inmsg \in Seq(Record)  BY <1>2, RecordsConcat
<1>4. (Done \o inmsg) \o msg_queue \in Seq(Record)  BY <1>2, <1>3, RecordsConcat
<1>5. ((Done \o inmsg) \o msg_queue) \o hand \in Seq(Record)  BY <1>2, <1>4, RecordsConcat
<1> QED  BY <1>1, <1>2, <1>3, <1>4, <1>5

-----------------------------------------------------------------------------
(* What each step does to one tool.                                        *)

LEMMA OtherTool ==
    ASSUME NEW lines, NEW rest, NEW k, NEW started, NEW made \in Seq(Record), NEW t, NEW r \in Record,
           r.toolname # t, PerTool(lines, rest, k, started, made, t)
    PROVE  PerTool(lines, rest, k, started, Append(made, r), t)
<1> DEFINE p == Append(made, r)
<1>1. /\ Len(made) \in Nat /\ Len(p) = Len(made) + 1 /\ p[Len(made) + 1] = r
      /\ \A i \in 1..Len(made) : p[i] = made[i]
      /\ \A i \in 1..(Len(made) + 1) : i \in 1..Len(made) \/ i = Len(made) + 1
  BY AppendedRecord
<1> HIDE DEF p
<1>2. \A i \in 1..Len(p) : p[i].toolname = t => i \in 1..Len(made) /\ p[i] = made[i]  BY <1>1
<1>3. \A i \in 1..Len(made) : i \in 1..Len(p) /\ p[i] = made[i]  BY <1>1
<1>4. BeforeHeader(lines, k, made, t) => BeforeHeader(lines, k, p, t)  BY <1>2 DEF BeforeHeader
<1>5. ASSUME NEW h, AfterHeader(lines, k, h, made, t) PROVE AfterHeader(lines, k, h, p, t)
  <2>1. \A i \in 1..Len(p) : p[i].toolname = t => \E j \in (h + 1)..k : p[i].line = lines[j]
    BY <1>2, <1>5, ZenonT(60) DEF AfterHeader
  <2>2. ASSUME NEW j \in (h + 1)..k PROVE \E i \in 1..Len(p) : p[i].toolname = t /\ p[i].line = lines[j]
    <3>1. PICK i \in 1..Len(made) : made[i].toolname = t /\ made[i].line = lines[j]  BY <1>5 DEF AfterHeader
    <3> QED  BY <3>1, <1>3
  <2>3. \A i, j \in 1..Len(p) :
           i < j /\ p[i].toolname = t /\ p[j].toolname = t => p[i].line.n < p[j].line.n
    BY <1>2, <1>5 DEF AfterHeader
  <2> QED  BY <1>5, <2>1, <2>2, <2>3 DEF AfterHeader
<1>6. CASE started
  <2>1. PICK h \in 1..k : AfterHeader(lines, k, h, made, t)  BY <1>6 DEF PerTool
  <2>2. AfterHeader(lines, k, h, p, t)  BY <1>5, <2>1
  <2> QED  BY <1>6, <2>2 DEF PerTool, p
<1>7. CASE ~started  BY <1>4, <1>7 DEF PerTool, p
<1> QED  BY <1>6, <1>7

LEMMA PrintLine ==
    ASSUME NEW lines \in Seq(Output), NEW rest \in Seq(Output), NEW k, NEW started, NEW made, NEW t,
           NEW l \in Output, l.n = Len(lines) + 1, PerTool(lines, rest, k, started, made, t)
    PROVE  PerTool(Append(lines, l), Append(rest, l), k, started, made, t)
<1> DEFINE after == Append(lines, l)
           left == Append(rest, l)
<1>1. /\ Len(lines) \in Nat /\ Len(after) = Len(lines) + 1 /\ after[Len(lines) + 1] = l
      /\ \A i \in 1..Len(lines) : after[i] = lines[i]
  BY AppendedOutput
<1>2. /\ Len(rest) \in Nat /\ Len(left) = Len(rest) + 1 /\ left[Len(rest) + 1] = l
      /\ \A i \in 1..Len(rest) : left[i] = rest[i]
  BY AppendedOutput
<1> HIDE DEF after, left
<1>3. \A i \in 1..Len(lines) : lines[i].n = i  BY DEF PerTool
<1>4. \A i \in 1..Len(after) : after[i].n = i
  <2>1. \A i \in 1..Len(after) : i \in 1..Len(lines) \/ i = Len(lines) + 1  BY <1>1
  <2> QED  BY <1>1, <1>3, <2>1
<1>5. k \in Nat /\ Len(lines) = Len(rest) + k /\ \A i \in 1..Len(rest) : rest[i] = lines[i + k]
  BY DEF PerTool, Suffix
<1>6. Suffix(after, left, k)
  <2>1. ASSUME NEW i \in 1..Len(left) PROVE left[i] = after[i + k]
    <3>1. CASE i \in 1..Len(rest)
      <4>1. i + k \in 1..Len(lines)  BY <3>1, <1>5, <1>1, <1>2
      <4> QED  BY <3>1, <4>1, <1>5, <1>1, <1>2
    <3>2. CASE i = Len(rest) + 1
      <4>1. i + k = Len(lines) + 1  BY <3>2, <1>5, <1>1, <1>2
      <4> QED  BY <3>2, <4>1, <1>1, <1>2
    <3> QED  BY <3>1, <3>2, <1>2
  <2> QED  BY <2>1, <1>5, <1>1, <1>2 DEF Suffix
<1>7. \A j \in 1..k : after[j] = lines[j]
  <2>1. \A j \in 1..k : j \in 1..Len(lines)  BY <1>1, <1>2, <1>5
  <2> QED  BY <1>1, <2>1
<1>8. BeforeHeader(lines, k, made, t) => BeforeHeader(after, k, made, t)  BY <1>7 DEF BeforeHeader
<1>9. ASSUME NEW h \in 1..k, AfterHeader(lines, k, h, made, t) PROVE AfterHeader(after, k, h, made, t)
  <2>1. \A j \in (h + 1)..k : after[j] = lines[j]
    <3>1. \A j \in (h + 1)..k : j \in 1..k  BY <1>5
    <3> QED  BY <1>7, <3>1
  <2>2. IsHeader(after, h)
    <3>1. \A j \in 1..(h - 1) : j \in 1..k  BY <1>5
    <3> QED  BY <1>7, <1>9, <3>1 DEF AfterHeader, IsHeader
  <2>3. \A i \in 1..Len(made) : made[i].toolname = t => \E j \in (h + 1)..k : made[i].line = after[j]
    BY <1>9, <2>1 DEF AfterHeader
  <2>4. \A j \in (h + 1)..k : \E i \in 1..Len(made) : made[i].toolname = t /\ made[i].line = after[j]
    BY <1>9, <2>1 DEF AfterHeader
  <2> QED  BY <1>9, <2>2, <2>3, <2>4 DEF AfterHeader
<1>10. CASE started
  <2>1. PICK h \in 1..k : AfterHeader(lines, k, h, made, t)  BY <1>10 DEF PerTool
  <2>2. AfterHeader(after, k, h, made, t)  BY <1>9, <2>1
  <2> QED  BY <1>4, <1>6, <1>10, <2>2 DEF PerTool, after, left
<1>11. CASE ~started  BY <1>4, <1>6, <1>8, <1>11 DEF PerTool, after, left
<1> QED  BY <1>10, <1>11

LEMMA NextOutput ==
    ASSUME NEW lines \in Seq(Output), NEW rest \in Seq(Output), NEW k, Suffix(lines, rest, k), rest # <<>>
    PROVE  /\ Suffix(lines, Tail(rest), k + 1) /\ Head(rest) = lines[k + 1]
           /\ k + 1 \in 1..Len(lines) /\ k \in Nat
<1> DEFINE left == Tail(rest)
<1>1. /\ Len(rest) \in Nat /\ Len(rest) > 0 /\ Len(left) = Len(rest) - 1 /\ Head(rest) = rest[1]
      /\ \A i \in 1..(Len(rest) - 1) : left[i] = rest[i + 1]
  BY TailOfOutput
<1> HIDE DEF left
<1>2. k \in Nat /\ Len(lines) = Len(rest) + k /\ \A i \in 1..Len(rest) : rest[i] = lines[i + k]  BY DEF Suffix
<1>3. 1 \in 1..Len(rest) /\ 1 + k = k + 1  BY <1>1, <1>2
<1>4. ASSUME NEW i \in 1..Len(left) PROVE left[i] = lines[i + (k + 1)]
  <2>1. i \in 1..(Len(rest) - 1) /\ i + 1 \in 1..Len(rest) /\ (i + 1) + k = i + (k + 1)  BY <1>1, <1>2
  <2> QED  BY <2>1, <1>1, <1>2
<1>5. k + 1 \in Nat /\ Len(lines) = Len(left) + (k + 1) /\ k + 1 \in 1..Len(lines)  BY <1>1, <1>2
<1> QED  BY <1>1, <1>2, <1>3, <1>4, <1>5 DEF Suffix, left

\* Up to its header, and with it, no line of a tool gives a record.
LEMMA ReadHeader ==
    ASSUME NEW lines \in Seq(Output), NEW rest \in Seq(Output), NEW k, NEW made, NEW t,
           rest # <<>>, PerTool(lines, rest, k, FALSE, made, t)
    PROVE  PerTool(lines, Tail(rest), k + 1, ~Head(rest).blank, made, t)
<1>1. /\ Suffix(lines, Tail(rest), k + 1) /\ Head(rest) = lines[k + 1]
      /\ k + 1 \in 1..Len(lines) /\ k \in Nat
  BY NextOutput DEF PerTool
<1>2. BeforeHeader(lines, k, made, t) /\ \A i \in 1..Len(lines) : lines[i].n = i  BY DEF PerTool
<1>3. CASE lines[k + 1].blank
  <2>1. \A j \in 1..(k + 1) : j \in 1..k \/ j = k + 1  BY <1>1
  <2>2. BeforeHeader(lines, k + 1, made, t)  BY <1>2, <1>3, <2>1 DEF BeforeHeader
  <2>3. (~Head(rest).blank) = FALSE  BY <1>1, <1>3
  <2> QED  BY <1>1, <1>2, <2>2, <2>3 DEF PerTool
<1>4. CASE ~lines[k + 1].blank
  <2>1. k + 1 \in 1..(k + 1) /\ (k + 1) - 1 = k /\ (k + 1 + 1)..(k + 1) = {}  BY <1>1
  <2>2. IsHeader(lines, k + 1)  BY <1>2, <1>4, <2>1 DEF IsHeader, BeforeHeader
  <2>3. AfterHeader(lines, k + 1, k + 1, made, t)  BY <1>2, <2>1, <2>2 DEF AfterHeader, BeforeHeader
  <2> QED  BY <1>1, <1>2, <1>4, <2>1, <2>3 DEF PerTool
<1> QED  BY <1>3, <1>4

LEMMA ReadRecord ==
    ASSUME NEW lines \in Seq(Output), NEW rest \in Seq(Output), NEW k, NEW made \in Seq(Record), NEW t,
           NEW r \in Record, r.toolname = t, r.line = Head(rest),
           rest # <<>>, PerTool(lines, rest, k, TRUE, made, t)
    PROVE  PerTool(lines, Tail(rest), k + 1, TRUE, Append(made, r), t)
<1> DEFINE p == Append(made, r)
<1>1. /\ Suffix(lines, Tail(rest), k + 1) /\ Head(rest) = lines[k + 1]
      /\ k + 1 \in 1..Len(lines) /\ k \in Nat
  BY NextOutput DEF PerTool
<1>2. PICK h \in 1..k : AfterHeader(lines, k, h, made, t)  BY DEF PerTool
<1>3. /\ Len(made) \in Nat /\ Len(p) = Len(made) + 1 /\ p[Len(made) + 1] = r
      /\ \A i \in 1..Len(made) : p[i] = made[i]
      /\ \A i \in 1..(Len(made) + 1) : i \in 1..Len(made) \/ i = Len(made) + 1
  BY AppendedRecord
<1> HIDE DEF p
<1>4. \A i \in 1..Len(lines) : lines[i].n = i  BY DEF PerTool
<1>5. h \in 1..(k + 1) /\ k + 1 \in (h + 1)..(k + 1)  BY <1>1
<1>6. \A j \in (h + 1)..k : j \in (h + 1)..(k + 1) /\ j \in 1..Len(lines) /\ j < k + 1  BY <1>1
<1>7. \A j \in (h + 1)..(k + 1) : j \in (h + 1)..k \/ j = k + 1  BY <1>1
<1>8. ASSUME NEW i \in 1..Len(p), p[i].toolname = t PROVE \E j \in (h + 1)..(k + 1) : p[i].line = lines[j]
  <2>1. CASE i \in 1..Len(made)
    <3>1. PICK j \in (h + 1)..k : made[i].line = lines[j]  BY <1>2, <1>3, <1>8, <2>1 DEF AfterHeader
    <3> QED  BY <1>3, <1>6, <2>1, <3>1
  <2>2. CASE i = Len(made) + 1  BY <1>1, <1>3, <1>5, <2>2
  <2> QED  BY <1>3, <2>1, <2>2
<1>9. ASSUME NEW j \in (h + 1)..(k + 1) PROVE \E i \in 1..Len(p) : p[i].toolname = t /\ p[i].line = lines[j]
  <2>1. CASE j \in (h + 1)..k
    <3>1. PICK i \in 1..Len(made) : made[i].toolname = t /\ made[i].line = lines[j]
      BY <1>2, <2>1 DEF AfterHeader
    <3>2. i \in 1..Len(p) /\ p[i] = made[i]  BY <1>3
    <3> QED  BY <3>1, <3>2
  <2>2. CASE j = k + 1
    <3>1. Len(made) + 1 \in 1..Len(p)  BY <1>3
    <3> QED  BY <1>1, <1>3, <2>2, <3>1
  <2> QED  BY <1>7, <2>1, <2>2
<1>10. ASSUME NEW i \in 1..Len(p), NEW j \in 1..Len(p), i < j, p[i].toolname = t, p[j].toolname = t
       PROVE  p[i].line.n < p[j].line.n
  <2>1. i \in 1..Len(made) /\ p[i] = made[i]  BY <1>3, <1>10
  <2>2. CASE j \in 1..Len(made)
    <3>1. p[j] = made[j]  BY <1>3, <2>2
    <3> QED  BY <1>2, <1>10, <2>1, <2>2, <3>1 DEF AfterHeader
  <2>3. CASE j = Len(made) + 1
    <3>1. PICK a \in (h + 1)..k : made[i].line = lines[a]  BY <1>2, <1>10, <2>1 DEF AfterHeader
    <3>2. lines[a].n = a /\ a < k + 1  BY <1>4, <1>6
    <3>3. lines[k + 1].n = k + 1  BY <1>1, <1>4
    <3>4. p[j].line = lines[k + 1]  BY <1>1, <1>3, <2>3
    <3> QED  BY <2>1, <3>1, <3>2, <3>3, <3>4
  <2> QED  BY <1>3, <2>2, <2>3
<1>11. AfterHeader(lines, k + 1, h, p, t)  BY <1>2, <1>5, <1>8, <1>9, <1>10 DEF AfterHeader
<1> QED  BY <1>1, <1>4, <1>5, <1>11 DEF PerTool, p

-----------------------------------------------------------------------------
(* The steps of the BCC sensor.                                            *)

LEMMA BccStarts == BccInit => BccTypes /\ BccInv
<1> SUFFICES ASSUME BccInit PROVE BccTypes /\ BccInv  OBVIOUS
<1> USE DEF BccInit
<1>1. BccTypes  BY DEF BccTypes
<1>2. Len(<<>>) = 0 /\ Len(<<>>) - Len(<<>>) = 0  OBVIOUS
<1>3. Made = <<>>
  <2>1. Done = <<>>  BY DEF Done
  <2>2. Made = ((Done \o inmsg) \o msg_queue) \o hand  BY <1>1, MadeHasType
  <2> QED  BY <2>1, <2>2
<1>4. ASSUME NEW t PROVE PerTool(<<>>, <<>>, 0, FALSE, <<>>, t)
  BY <1>2 DEF PerTool, Suffix, BeforeHeader
<1>5. ASSUME NEW t \in BccTools
      PROVE  PerTool(printed[t], pipe[t], Len(printed[t]) - Len(pipe[t]), t \in header, Made, t)
  <2>1. printed[t] = <<>> /\ pipe[t] = <<>> /\ (t \in header) = FALSE  OBVIOUS
  <2> QED  BY <1>2, <1>3, <1>4, <2>1, Zenon
<1> QED  BY <1>1, <1>5 DEF BccInv

\* Steps that make no record and read no line.
LEMMA ToolsKept ==
    ASSUME BccInv, printed' = printed, pipe' = pipe, header' = header, Made' = Made
    PROVE  BccInv'
<1>1. ASSUME NEW t \in BccTools
      PROVE  PerTool(printed'[t], pipe'[t], Len(printed'[t]) - Len(pipe'[t]), t \in header', Made', t)
  BY Zenon DEF BccInv
<1> QED  BY <1>1 DEF BccInv

LEMMA MadeKept ==
    ASSUME relayed' = relayed, inmsg' = inmsg, msg_queue' = msg_queue, hand' = hand
    PROVE  Made' = Made
BY DEF Made

LEMMA PrintKeepsInv ==
    ASSUME BccTypes, BccInv, NEW t \in BccTools, ToolPrints(t)
    PROVE  BccTypes' /\ BccInv'
<1>1. PICK blank \in BOOLEAN : LET line == [n |-> Len(printed[t]) + 1, blank |-> blank] IN
          /\ printed' = [printed EXCEPT ![t] = Append(@, line)]
          /\ pipe' = [pipe EXCEPT ![t] = Append(@, line)]
  BY Zenon DEF ToolPrints
<1> DEFINE l == [n |-> Len(printed[t]) + 1, blank |-> blank]
<1>2. /\ printed' = [printed EXCEPT ![t] = Append(@, l)]
      /\ pipe' = [pipe EXCEPT ![t] = Append(@, l)]
      /\ UNCHANGED <<header, hand, msg_queue, consumer, inmsg, relayed>>
  BY <1>1 DEF ToolPrints, consumerSide
<1>3. printed[t] \in Seq(Output) /\ pipe[t] \in Seq(Output)  BY DEF BccTypes
<1>4. l \in Output /\ l.n = Len(printed[t]) + 1  BY <1>3, LenProperties DEF Output
<1> HIDE DEF l
<1>5. Append(printed[t], l) \in Seq(Output) /\ Append(pipe[t], l) \in Seq(Output)  BY <1>3, <1>4, AppendedOutput
<1>6. BccTypes'  BY <1>2, <1>5 DEF BccTypes
<1>7. Made' = Made  BY <1>2, MadeKept
<1>8. ASSUME NEW u \in BccTools
      PROVE  PerTool(printed'[u], pipe'[u], Len(printed'[u]) - Len(pipe'[u]), u \in header', Made', u)
  <2>1. PerTool(printed[u], pipe[u], Len(printed[u]) - Len(pipe[u]), u \in header, Made, u)  BY Zenon DEF BccInv
  <2>2. CASE u # t
    <3>1. printed'[u] = printed[u] /\ pipe'[u] = pipe[u] /\ header' = header  BY <1>2, <2>2 DEF BccTypes
    <3> QED  BY <1>7, <2>1, <3>1, Zenon
  <2>3. CASE u = t
    <3>1. printed'[t] = Append(printed[t], l) /\ pipe'[t] = Append(pipe[t], l) /\ header' = header
      BY <1>2 DEF BccTypes
    <3>2. PerTool(Append(printed[t], l), Append(pipe[t], l), Len(printed[t]) - Len(pipe[t]), t \in header, Made, t)
      BY <1>3, <1>4, <2>1, <2>3, PrintLine, Zenon
    <3>3. Len(printed'[t]) - Len(pipe'[t]) = Len(printed[t]) - Len(pipe[t])
      <4>1. /\ Len(printed'[t]) = Len(printed[t]) + 1 /\ Len(pipe'[t]) = Len(pipe[t]) + 1
            /\ Len(printed[t]) \in Nat /\ Len(pipe[t]) \in Nat
        BY <1>3, <1>4, <3>1, AppendedOutput
      <4>2. \A a, b \in Nat : (a + 1) - (b + 1) = a - b  OBVIOUS
      <4> QED  BY <4>1, <4>2, Zenon
    <3> QED  BY <1>7, <2>3, <3>1, <3>2, <3>3, Zenon
  <2> QED  BY <2>2, <2>3
<1> QED  BY <1>6, <1>8 DEF BccInv

LEMMA ReadsKeepsInv ==
    ASSUME BccTypes, BccInv, NEW t \in BccTools, run_reads(t)
    PROVE  /\ BccTypes' /\ BccInv'
           /\ Made' = Made \/ \E r \in Record : r.toolname = t /\ Made' = Append(Made, r)
<1> DEFINE l == Head(pipe[t])
           r == [toolname |-> t, prio |-> TOOLS[t], line |-> l]
           k == Len(printed[t]) - Len(pipe[t])
           before == (Done \o inmsg) \o msg_queue
<1>1. /\ hand = <<>> /\ pipe[t] # <<>> /\ parseline(t, l)
      /\ pipe' = [pipe EXCEPT ![t] = Tail(@)]
      /\ UNCHANGED <<printed, msg_queue, consumer, inmsg, relayed>>
  BY DEF run_reads, consumerSide
<1>2. printed[t] \in Seq(Output) /\ pipe[t] \in Seq(Output)  BY DEF BccTypes
<1>3. Tail(pipe[t]) \in Seq(Output) /\ l \in Output  BY <1>1, <1>2, TailOfOutput
<1>4. r \in Record /\ r.toolname = t /\ r.line = l  BY <1>3 DEF Record
<1>5. before \in Seq(Record) /\ Made \in Seq(Record) /\ Made = before
  <2>1. before \in Seq(Record) /\ Made = before \o hand  BY MadeHasType
  <2>2. before \o <<>> = before  BY <2>1, RecordsConcat
  <2> QED  BY <1>1, <2>1, <2>2
<1>6. Made' = before \o hand'
  <2>1. Done' = Done  BY <1>1 DEF Done
  <2> QED  BY <1>1, <2>1, Zenon DEF Made, Done
<1>7. printed'[t] = printed[t] /\ pipe'[t] = Tail(pipe[t]) /\ pipe' \in [BccTools -> Seq(Output)]
  BY <1>1, <1>3 DEF BccTypes
<1>8. Len(printed'[t]) - Len(pipe'[t]) = k + 1
  <2>1. /\ Len(printed[t]) \in Nat /\ Len(pipe[t]) \in Nat /\ Len(Tail(pipe[t])) = Len(pipe[t]) - 1
    BY <1>1, <1>2, TailOfOutput, LenProperties
  <2>2. \A a, b \in Nat : a - (b - 1) = (a - b) + 1  OBVIOUS
  <2> QED  BY <1>7, <2>1, <2>2, Zenon
<1>9. \A u \in BccTools : u # t => printed'[u] = printed[u] /\ pipe'[u] = pipe[u]  BY <1>1 DEF BccTypes
<1>10. \A u \in BccTools : PerTool(printed[u], pipe[u], Len(printed[u]) - Len(pipe[u]), u \in header, Made, u)
  BY Zenon DEF BccInv
<1>11. PerTool(printed[t], pipe[t], k, t \in header, Made, t)  BY <1>10, Zenon
<1> HIDE DEF r, k, before
<1>12. CASE t \notin header
  <2>1. hand' = <<>> /\ header' = IF l.blank THEN header ELSE header \cup {t}  BY <1>1, <1>12, Zenon DEF parseline
  <2>2. Made' = Made  BY <1>1, <1>5, <1>6, <2>1, RecordsConcat
  <2>3. (t \in header) = FALSE  BY <1>12
  <2>4. PerTool(printed[t], pipe[t], k, FALSE, Made, t)  BY <1>11, <2>3, Zenon
  <2>5. PerTool(printed[t], Tail(pipe[t]), k + 1, ~l.blank, Made, t)  BY <1>1, <1>2, <2>4, ReadHeader, Zenon
  <2>6. l.blank \in BOOLEAN  BY <1>3 DEF Output
  <2>7. (t \in header') = (~l.blank)  BY <1>12, <2>1, <2>6
  <2>8. BccTypes'
    <3>1. header' \subseteq BccTools  BY <2>1 DEF BccTypes
    <3> QED  BY <1>1, <1>7, <2>1, <3>1 DEF BccTypes
  <2>9. ASSUME NEW u \in BccTools
        PROVE  PerTool(printed'[u], pipe'[u], Len(printed'[u]) - Len(pipe'[u]), u \in header', Made', u)
    <3>1. CASE u # t
      <4>1. (u \in header') = (u \in header)  BY <2>1, <3>1
      <4> QED  BY <1>9, <1>10, <2>2, <3>1, <4>1, Zenon
    <3>2. CASE u = t  BY <1>7, <1>8, <2>2, <2>5, <2>7, <3>2, Zenon
    <3> QED  BY <3>1, <3>2
  <2> QED  BY <2>2, <2>8, <2>9 DEF BccInv
<1>13. CASE t \in header
  <2>1. hand' = <<r>> /\ header' = header  BY <1>1, <1>13 DEF parseline, r
  <2>2. Made' = Append(Made, r) /\ <<r>> \in Seq(Record)  BY <1>4, <1>5, <1>6, <2>1, RecordAppended
  <2>3. (t \in header) = TRUE  BY <1>13
  <2>4. PerTool(printed[t], pipe[t], k, TRUE, Made, t)  BY <1>11, <2>3, Zenon
  <2>5. PerTool(printed[t], Tail(pipe[t]), k + 1, TRUE, Append(Made, r), t)
    BY <1>1, <1>2, <1>4, <1>5, <2>4, ReadRecord, Zenon
  <2>6. BccTypes'  BY <1>1, <1>7, <2>1, <2>2 DEF BccTypes
  <2>7. ASSUME NEW u \in BccTools
        PROVE  PerTool(printed'[u], pipe'[u], Len(printed'[u]) - Len(pipe'[u]), u \in header', Made', u)
    <3>1. CASE u # t
      <4>1. r.toolname # u  BY <1>4, <3>1
      <4>2. PerTool(printed[u], pipe[u], Len(printed[u]) - Len(pipe[u]), u \in header, Append(Made, r), u)
        BY <1>4, <1>5, <1>10, <4>1, OtherTool, Zenon
      <4> QED  BY <1>9, <2>1, <2>2, <3>1, <4>2, Zenon
    <3>2. CASE u = t  BY <1>7, <1>8, <2>1, <2>2, <2>3, <2>5, <3>2, Zenon
    <3> QED  BY <3>1, <3>2
  <2>8. BccInv'  BY <2>7 DEF BccInv
  <2> QED  BY <1>4, <2>2, <2>6, <2>8
<1> QED  BY <1>12, <1>13

\* What moves the records from the producer's hand to the end changes nothing of
\* which were made, and in which order.
LEMMA PutKeepsInv ==
    ASSUME BccTypes, BccInv, run_puts
    PROVE  BccTypes' /\ BccInv' /\ Made' = Made
<1>1. /\ msg_queue' = msg_queue \o hand /\ hand' = <<>>
      /\ UNCHANGED <<printed, pipe, header, consumer, inmsg, relayed>>
  BY DEF run_puts, consumerSide
<1>2. msg_queue \in Seq(Record) /\ hand \in Seq(Record)  BY DEF BccTypes
<1>3. BccTypes'  BY <1>1, <1>2, RecordsConcat DEF BccTypes
<1> DEFINE d == Done \o inmsg
<1>4. Made = (d \o msg_queue) \o hand /\ d \in Seq(Record) /\ Made \in Seq(Record)  BY MadeHasType
<1>5. Made' = (d \o (msg_queue \o hand)) \o <<>>
  <2>1. Done' = Done  BY <1>1 DEF Done
  <2> QED  BY <1>1, <2>1, Zenon DEF Made, Done
<1> HIDE DEF d
<1>6. (d \o msg_queue) \o hand = d \o (msg_queue \o hand)  BY <1>2, <1>4, RecordsAssociate
<1>7. Made' = Made  BY <1>4, <1>5, <1>6, RecordsConcat
<1> QED  BY <1>1, <1>3, <1>7, ToolsKept

LEMMA GetKeepsInv ==
    ASSUME BccTypes, BccInv, consumer_gets
    PROVE  BccTypes' /\ BccInv' /\ Made' = Made
<1>1. /\ consumer = "get" /\ msg_queue # <<>> /\ inmsg' = <<Head(msg_queue)>> /\ msg_queue' = Tail(msg_queue)
      /\ consumer' = "emit" /\ UNCHANGED <<printed, pipe, header, hand, relayed>>
  BY DEF consumer_gets, toolSide
<1>2. inmsg = <<>> /\ msg_queue \in Seq(Record)  BY <1>1 DEF BccTypes
<1>3. Head(msg_queue) \in Record /\ Tail(msg_queue) \in Seq(Record) /\ <<Head(msg_queue)>> \o Tail(msg_queue) = msg_queue
  BY <1>1, <1>2, HeadOfRecords
<1>4. <<Head(msg_queue)>> \in Seq(Record)  BY <1>3, RecordAppended
<1>5. BccTypes'  BY <1>1, <1>3, <1>4 DEF BccTypes
<1> DEFINE w == <<Head(msg_queue)>>
           rest == Tail(msg_queue)
<1>6. Made = ((Done \o <<>>) \o msg_queue) \o hand /\ Done \in Seq(Record)  BY <1>2, MadeHasType
<1>7. Made' = ((Done \o w) \o rest) \o hand
  <2>1. Done' = Done  BY <1>1 DEF Done
  <2> QED  BY <1>1, <2>1, Zenon DEF Made, Done
<1>8. w \in Seq(Record) /\ rest \in Seq(Record) /\ w \o rest = msg_queue  BY <1>3, <1>4
<1> HIDE DEF w, rest
<1>9. (Done \o w) \o rest = Done \o msg_queue  BY <1>6, <1>8, RecordsAssociate
<1>10. Made' = Made  BY <1>6, <1>7, <1>9, RecordsConcat
<1> QED  BY <1>1, <1>5, <1>10, ToolsKept

LEMMA EmitKeepsInv ==
    ASSUME BccTypes, BccInv, consumer_emits
    PROVE  /\ BccTypes' /\ BccInv' /\ Made' = Made
           /\ \E r \in Record :
                 Done' = Append(Done, r) /\ Made = ((Done \o <<r>>) \o msg_queue) \o hand
<1> DEFINE e == [msg |-> inmsg[1], sent |-> ~(prio < inmsg[1].prio)]
           R == [msg : Record, sent : BOOLEAN]
<1>1. /\ consumer = "emit" /\ relayed' = Append(relayed, e) /\ inmsg' = <<>> /\ consumer' = "poll"
      /\ UNCHANGED <<printed, pipe, header, hand, msg_queue>>
  BY DEF consumer_emits, toolSide
<1>2. PICK r \in Record : inmsg = <<r>>  BY <1>1 DEF BccTypes
<1>3. inmsg[1] = r  BY <1>2
<1>4. e \in R /\ e.msg = r
  <2>1. (~(prio < inmsg[1].prio)) \in BOOLEAN  OBVIOUS
  <2> QED  BY <1>3, <2>1
<1>5. relayed \in Seq(R)  BY DEF BccTypes
<1> HIDE DEF e, R
<1>6. /\ relayed' \in Seq(R) /\ Len(relayed) \in Nat /\ Len(relayed') = Len(relayed) + 1
      /\ \A i \in 1..Len(relayed) : relayed'[i] = relayed[i]
      /\ relayed'[Len(relayed) + 1] = e
  BY <1>1, <1>4, <1>5, AppendProperties, LenProperties
<1>7. BccTypes'  BY <1>1, <1>6 DEF BccTypes, R
<1>8. Done \in Seq(Record) /\ Len(Done) = Len(relayed)  BY DoneHasType
<1>9. Done' = Append(Done, r)
  <2>1. DOMAIN relayed' = 1..(Len(relayed) + 1) /\ DOMAIN relayed = 1..Len(relayed)
    BY <1>5, <1>6, LenProperties
  <2>2. Done' = [i \in 1..(Len(relayed) + 1) |-> relayed'[i].msg]  BY <2>1 DEF Done
  <2>3. \A i \in 1..Len(relayed) : Done[i] = relayed[i].msg  BY <2>1 DEF Done
  <2> DEFINE p == Append(Done, r)
  <2>4. /\ p \in Seq(Record) /\ Len(p) = Len(relayed) + 1
        /\ \A i \in 1..Len(relayed) : p[i] = Done[i]
        /\ p[Len(relayed) + 1] = r
    BY <1>8, AppendedRecord
  <2> HIDE DEF p
  <2>5. \A i \in 1..(Len(relayed) + 1) : i \in 1..Len(relayed) \/ i = Len(relayed) + 1  BY <1>6
  <2>6. \A i \in 1..(Len(relayed) + 1) : relayed'[i].msg = p[i]  BY <1>4, <1>6, <2>3, <2>4, <2>5
  <2>7. p = [i \in 1..(Len(relayed) + 1) |-> p[i]]
    <3>1. DOMAIN p = 1..(Len(relayed) + 1)  BY <2>4, LenProperties
    <3> QED  BY <2>4, <3>1
  <2> QED  BY <2>2, <2>6, <2>7 DEF p
<1>10. Made = ((Done \o <<r>>) \o msg_queue) \o hand  BY <1>2, MadeHasType
<1>11. Made' = ((Done' \o <<>>) \o msg_queue) \o hand  BY <1>1, Zenon DEF Made, Done
<1>12. Done' \o <<>> = Append(Done, r) /\ Done \o <<r>> = Append(Done, r)
  <2>1. Append(Done, r) \in Seq(Record)  BY <1>8, AppendedRecord
  <2> QED  BY <1>8, <1>9, <2>1, RecordsConcat, RecordAppended
<1>13. Made' = Made  BY <1>10, <1>11, <1>12
<1>14. BccInv'  BY <1>1, <1>13, ToolsKept
<1> QED  BY <1>7, <1>9, <1>10, <1>13, <1>14

\* The records of a tool are those of the lines after its header.
LEMMA BccInvariant == BccSpec => [](BccTypes /\ BccInv)
<1>1. BccInit => BccTypes /\ BccInv  BY BccStarts
<1>2. BccTypes /\ BccInv /\ [BccNext]_bccVars => (BccTypes /\ BccInv)'
  <2> SUFFICES ASSUME BccTypes, BccInv, [BccNext]_bccVars
               PROVE  BccTypes' /\ BccInv'
    OBVIOUS
  <2>1. ASSUME UNCHANGED <<printed, pipe, header, hand, msg_queue, inmsg, relayed>>,
               consumer' = "emit" <=> consumer = "emit"
        PROVE  BccTypes' /\ BccInv'
    <3>1. Made' = Made  BY <2>1, MadeKept
    <3>2. BccTypes'  BY <2>1 DEF BccTypes
    <3> QED  BY <2>1, <3>1, <3>2, ToolsKept
  <2>2. CASE UNCHANGED bccVars  BY <2>1, <2>2 DEF bccVars
  <2>3. ASSUME NEW t \in BccTools, run_reads(t) PROVE BccTypes' /\ BccInv'  BY <2>3, ReadsKeepsInv
  <2>4. CASE run_locks  BY <2>1, <2>4 DEF run_locks, toolSide, consumerSide
  <2>5. CASE run_puts  BY <2>5, PutKeepsInv
  <2>6. CASE consumer_polls  BY <2>1, <2>6 DEF consumer_polls, toolSide
  <2>7. CASE consumer_wakes  BY <2>1, <2>7 DEF consumer_wakes, toolSide
  <2>8. CASE consumer_locks  BY <2>1, <2>8 DEF consumer_locks, toolSide
  <2>9. CASE consumer_gets  BY <2>9, GetKeepsInv
  <2>10. CASE consumer_emits  BY <2>10, EmitKeepsInv
  <2>11. CASE consumer_starts  BY <2>1, <2>11 DEF consumer_starts, toolSide
  <2>12. CASE ToolFails  BY <2>1, <2>12 DEF ToolFails, consumerSide
  <2>13. CASE consumer_cancelled  BY <2>1, <2>13 DEF consumer_cancelled, toolSide
  <2>14. ASSUME NEW t \in BccTools, ToolPrints(t) PROVE BccTypes' /\ BccInv'  BY <2>14, PrintKeepsInv
  <2> QED  BY <2>2, <2>3, <2>4, <2>5, <2>6, <2>7, <2>8, <2>9, <2>10, <2>11, <2>12, <2>13, <2>14
           DEF BccNext, ProducerStep, ConsumerStep
<1> QED  BY <1>1, <1>2, PTL DEF BccSpec

LEMMA BccInvIsEnough == BccTypes /\ BccInv => EachLineOnce
<1> SUFFICES ASSUME BccTypes, BccInv, NEW t \in header
             PROVE  LET read == Len(printed[t]) - Len(pipe[t])
                    IN  /\ \E h \in 1..read :
                              /\ IsHeader(printed[t], h)
                              /\ {Made[i].line : i \in Of(t)} = {printed[t][j] : j \in (h + 1)..read}
                        /\ \A i, j \in Of(t) : i < j => Made[i].line.n < Made[j].line.n
                        /\ \A i \in DOMAIN pipe[t] : pipe[t][i] = printed[t][read + i]
  BY DEF EachLineOnce
<1> DEFINE k == Len(printed[t]) - Len(pipe[t])
<1>1. t \in BccTools  BY DEF BccTypes
<1>2. PerTool(printed[t], pipe[t], k, t \in header, Made, t)  BY <1>1, Zenon DEF BccInv
<1>3. PICK h \in 1..k : AfterHeader(printed[t], k, h, Made, t)  BY <1>2, Zenon DEF PerTool
<1>4. Suffix(printed[t], pipe[t], k)  BY <1>2 DEF PerTool
<1>5. DOMAIN Made = 1..Len(Made) /\ DOMAIN pipe[t] = 1..Len(pipe[t]) /\ Len(pipe[t]) \in Nat
  <2>1. pipe[t] \in Seq(Output) /\ Made \in Seq(Record)  BY <1>1, MadeHasType DEF BccTypes
  <2> QED  BY <2>1, OutputHasTypes, RecordsHaveTypes
<1> HIDE DEF k
<1>6. Of(t) = {i \in 1..Len(Made) : Made[i].toolname = t}  BY <1>5 DEF Of
<1>7. {Made[i].line : i \in Of(t)} = {printed[t][j] : j \in (h + 1)..k}
  <2>1. {Made[i].line : i \in Of(t)} \subseteq {printed[t][j] : j \in (h + 1)..k}
    <3>1. ASSUME NEW i \in Of(t) PROVE \E j \in (h + 1)..k : Made[i].line = printed[t][j]
      BY <1>3, <1>6 DEF AfterHeader
    <3> QED  BY <3>1
  <2>2. {printed[t][j] : j \in (h + 1)..k} \subseteq {Made[i].line : i \in Of(t)}  BY <1>3, <1>6 DEF AfterHeader
  <2> QED  BY <2>1, <2>2
<1>8. \A i, j \in Of(t) : i < j => Made[i].line.n < Made[j].line.n  BY <1>3, <1>6 DEF AfterHeader
<1>9. ASSUME NEW i \in DOMAIN pipe[t] PROVE pipe[t][i] = printed[t][k + i]
  <2>1. i \in 1..Len(pipe[t]) /\ k \in Nat /\ i + k = k + i  BY <1>4, <1>5, <1>9 DEF Suffix
  <2> QED  BY <1>4, <2>1 DEF Suffix
<1>10. IsHeader(printed[t], h)  BY <1>3 DEF AfterHeader
<1> QED  BY <1>7, <1>8, <1>9, <1>10, Zenon DEF k

(* BccTool.run and msg_consumer, on their two threads: whatever the interleaving, the      *)
(* failures of tools and the levels set, each line a tool prints after its header is       *)
(* relayed or passed over once and in the order printed, or is still on its way.           *)
THEOREM LinesAreRelayed == BccSpec => []EachLineOnce
BY BccInvariant, BccInvIsEnough, PTL

-----------------------------------------------------------------------------
(* The BCC sensor as a channel.                                            *)

Trace == [from : BccTools, n : Nat]
Origins(records) == [i \in DOMAIN records |-> Origin(records[i])]

LEMMA OriginsHaveTypes ==
    ASSUME NEW s \in Seq(Record)
    PROVE  /\ Origins(s) \in Seq(Trace) /\ Len(Origins(s)) = Len(s) /\ Len(s) \in Nat
           /\ DOMAIN Origins(s) = 1..Len(s)
           /\ \A i \in 1..Len(s) : Origins(s)[i] = Origin(s[i])
<1>1. Len(s) \in Nat /\ DOMAIN s = 1..Len(s) /\ \A i \in 1..Len(s) : s[i] \in Record /\ s[i].line.n \in Nat
  BY RecordsHaveTypes
<1>2. \A r \in Record : r.toolname \in BccTools  BY DEF Record
<1>3. \A i \in 1..Len(s) : Origin(s[i]) \in Trace  BY <1>1, <1>2 DEF Origin, Trace
<1>4. Origins(s) = [i \in 1..Len(s) |-> Origin(s[i])]  BY <1>1 DEF Origins
<1> HIDE DEF Origin, Trace
<1> QED  BY <1>1, <1>3, <1>4, SMT

LEMMA OriginAppended ==
    ASSUME NEW s \in Seq(Record), NEW r \in Record
    PROVE  Origins(Append(s, r)) = Append(Origins(s), Origin(r))
<1> DEFINE p == Append(s, r)
           o == Origins(s)
           x == Origin(r)
           a == Append(o, x)
<1>1. /\ p \in Seq(Record) /\ Len(s) \in Nat /\ Len(p) = Len(s) + 1 /\ p[Len(s) + 1] = r
      /\ \A i \in 1..Len(s) : p[i] = s[i]
      /\ \A i \in 1..(Len(s) + 1) : i \in 1..Len(s) \/ i = Len(s) + 1
  BY AppendedRecord
<1>2. o \in Seq(Trace) /\ Len(o) = Len(s) /\ \A i \in 1..Len(s) : o[i] = Origin(s[i])  BY OriginsHaveTypes
<1>3. x \in Trace
  <2>1. r.toolname \in BccTools /\ r.line \in Output  BY DEF Record
  <2>2. r.line.n \in Nat  BY <2>1 DEF Output
  <2> QED  BY <2>1, <2>2 DEF Origin, Trace
<1> HIDE DEF o, x
<1>4. /\ a \in Seq(Trace) /\ Len(a) = Len(s) + 1 /\ a[Len(s) + 1] = x
      /\ \A i \in 1..Len(s) : a[i] = o[i]
  BY <1>2, <1>3, AppendProperties
<1> HIDE DEF p, a
<1>5. /\ Origins(p) \in Seq(Trace) /\ Len(Origins(p)) = Len(s) + 1
      /\ \A i \in 1..(Len(s) + 1) : Origins(p)[i] = Origin(p[i])
  BY <1>1, OriginsHaveTypes
<1>6. \A i \in 1..(Len(s) + 1) : Origins(p)[i] = a[i]
  <2>1. ASSUME NEW i \in 1..Len(s) PROVE Origin(p[i]) = a[i]  BY <1>1, <1>2, <1>4
  <2>2. Origin(p[Len(s) + 1]) = a[Len(s) + 1]  BY <1>1, <1>4 DEF x
  <2> QED  BY <1>1, <1>5, <2>1, <2>2
<1>7. Origins(p) = a  BY <1>4, <1>5, <1>6, SeqEqual
<1> QED  BY <1>7 DEF p, a, o, x

\* What the channel sees of the sensor.
LEMMA BccLog ==
    ASSUME BccTypes
    PROVE  Recorded = Origins(Made) /\ PassedOn = Origins(Done)
<1>1. DOMAIN Done = DOMAIN relayed /\ \A i \in DOMAIN relayed : Done[i] = relayed[i].msg  BY DEF Done
<1> QED  BY <1>1 DEF Recorded, PassedOn, Origins

LEMMA BccLogAfter ==
    ASSUME BccTypes'
    PROVE  Recorded' = Origins(Made') /\ PassedOn' = Origins(Done')
<1>1. DOMAIN Done' = DOMAIN relayed' /\ \A i \in DOMAIN relayed' : Done'[i] = relayed'[i].msg  BY DEF Done
<1> QED  BY <1>1 DEF Recorded, PassedOn, Origins

LEMMA NothingMade ==
    ASSUME BccTypes, BccTypes', Made' = Made, relayed' = relayed
    PROVE  UNCHANGED BccChannel!channelVars
<1>1. Done' = Done  BY DEF Done
<1>2. Recorded' = Recorded /\ PassedOn' = PassedOn  BY <1>1, BccLog, BccLogAfter, Zenon
<1> QED  BY <1>2 DEF BccChannel!channelVars

\* A record is newer than those of its tool before it.
LEMMA RecordIsNew ==
    ASSUME NEW made \in Seq(Record), NEW r \in Record, NEW lines \in Seq(Output), NEW rest \in Seq(Output),
           NEW k, NEW started, PerTool(lines, rest, k, started, Append(made, r), r.toolname)
    PROVE  /\ r.line.n > 0
           /\ \A i \in 1..Len(made) : made[i].toolname = r.toolname => made[i].line.n < r.line.n
<1> DEFINE p == Append(made, r)
           t == r.toolname
<1>1. /\ Len(made) \in Nat /\ Len(p) = Len(made) + 1 /\ p[Len(made) + 1] = r
      /\ \A i \in 1..Len(made) : p[i] = made[i]
  BY AppendedRecord
<1>2. PerTool(lines, rest, k, started, p, t)  OBVIOUS
<1> HIDE DEF p
<1>3. Len(made) + 1 \in 1..Len(p) /\ \A i \in 1..Len(made) : i \in 1..Len(p) /\ i < Len(made) + 1  BY <1>1
<1>4. started  BY <1>1, <1>2, <1>3 DEF PerTool, BeforeHeader
<1>5. PICK h \in 1..k : AfterHeader(lines, k, h, p, t)  BY <1>2, <1>4 DEF PerTool
<1>6. PICK j \in (h + 1)..k : r.line = lines[j]  BY <1>1, <1>3, <1>5 DEF AfterHeader
<1>7. k \in Nat /\ Len(lines) = Len(rest) + k  BY <1>2 DEF PerTool, Suffix
<1>8. Len(lines) \in Nat /\ Len(rest) \in Nat  BY OutputHasTypes
<1>9. j \in 1..Len(lines) /\ j > 0  BY <1>7, <1>8
<1>10. r.line.n > 0  BY <1>2, <1>6, <1>9 DEF PerTool
<1>11. \A i \in 1..Len(made) : made[i].toolname = r.toolname => made[i].line.n < r.line.n
  BY <1>1, <1>3, <1>5 DEF AfterHeader
<1> QED  BY <1>10, <1>11

LEMMA RecordIsTaken ==
    ASSUME BccTypes, BccTypes', BccInv', NEW r \in Record, relayed' = relayed, Made' = Append(Made, r)
    PROVE  BccChannel!Take(r.toolname)
<1> DEFINE t == r.toolname
           x == Origin(r)
<1>1. t \in BccTools /\ Made \in Seq(Record)  BY MadeHasType DEF Record
<1>2. PerTool(printed'[t], pipe'[t], Len(printed'[t]) - Len(pipe'[t]), t \in header', Made', t)
  BY <1>1, Zenon DEF BccInv
<1>3. printed'[t] \in Seq(Output) /\ pipe'[t] \in Seq(Output)  BY <1>1 DEF BccTypes
<1>4. /\ r.line.n > 0
      /\ \A i \in 1..Len(Made) : Made[i].toolname = t => Made[i].line.n < r.line.n
  BY <1>1, <1>2, <1>3, RecordIsNew
<1>5. Recorded = Origins(Made) /\ Recorded' = Append(Recorded, x) /\ PassedOn' = PassedOn
  <2>1. Done' = Done  BY DEF Done
  <2>2. Origins(Made') = Append(Origins(Made), x)  BY <1>1, OriginAppended
  <2> QED  BY <2>1, <2>2, BccLog, BccLogAfter
<1>6. /\ Recorded \in Seq(Trace) /\ DOMAIN Recorded = 1..Len(Made) /\ Len(Recorded) = Len(Made) /\ Len(Made) \in Nat
      /\ \A i \in 1..Len(Made) : Recorded[i] = Origin(Made[i])
  BY <1>1, <1>5, OriginsHaveTypes
<1>7. x.from = t /\ x.n = r.line.n /\ x \in Trace
  <2>1. r.line \in Output  BY DEF Record
  <2>2. r.line.n \in Nat  BY <2>1 DEF Output
  <2> QED  BY <1>1, <2>2 DEF Origin, Trace
<1>8. \A i \in DOMAIN Recorded : Recorded[i].from = t => Recorded[i].n < x.n
  BY <1>4, <1>6, <1>7 DEF Origin
<1> HIDE DEF x
<1>9. Len(Made) + 1 \in DOMAIN Recorded' /\ Recorded'[Len(Made) + 1] = x
  <2>1. /\ Append(Recorded, x) \in Seq(Trace) /\ Len(Append(Recorded, x)) = Len(Made) + 1
        /\ Append(Recorded, x)[Len(Made) + 1] = x
    BY <1>6, <1>7, AppendProperties
  <2>2. DOMAIN Append(Recorded, x) = 1..(Len(Made) + 1)  BY <2>1, LenProperties
  <2> QED  BY <1>5, <1>6, <2>1, <2>2
<1> QED  BY <1>4, <1>5, <1>7, <1>8, <1>9 DEF BccChannel!Take, BccChannel!Newer

LEMMA FirstRecords ==
    ASSUME NEW a \in Seq(Record), NEW b \in Seq(Record), NEW i \in 1..Len(a)
    PROVE  i \in 1..Len(a \o b) /\ (a \o b)[i] = a[i]
<1>1. Len(a) \in Nat /\ Len(b) \in Nat /\ Len(a \o b) = Len(a) + Len(b)  BY LenProperties, ConcatProperties
<1>2. i \in 1..(Len(a) + Len(b)) /\ i <= Len(a)  BY <1>1
<1> QED  BY <1>1, <1>2, ConcatProperties

LEMMA EmitIsDeliver ==
    ASSUME BccTypes, BccInv, consumer_emits
    PROVE  BccChannel!Deliver
<1>1. BccTypes' /\ Made' = Made  BY EmitKeepsInv
<1>2. PICK r \in Record : Done' = Append(Done, r) /\ Made = ((Done \o <<r>>) \o msg_queue) \o hand  BY EmitKeepsInv
<1>3. Done \in Seq(Record) /\ Made \in Seq(Record)  BY MadeHasType
<1>4. msg_queue \in Seq(Record) /\ hand \in Seq(Record)  BY DEF BccTypes
<1> DEFINE d == Append(Done, r)
           e == Len(Done) + 1
<1>5. d \in Seq(Record) /\ Len(Done) \in Nat /\ Len(d) = e /\ d[e] = r  BY <1>3, AppendedRecord
<1>6. Made = (d \o msg_queue) \o hand  BY <1>2, <1>3, RecordAppended
<1> HIDE DEF d
<1>7. e \in 1..Len(d)  BY <1>5
<1>8. d \o msg_queue \in Seq(Record)  BY <1>4, <1>5, RecordsConcat
<1>9. e \in 1..Len(d \o msg_queue) /\ (d \o msg_queue)[e] = r  BY <1>4, <1>5, <1>7, FirstRecords
<1>10. e \in 1..Len(Made) /\ Made[e] = r  BY <1>4, <1>6, <1>8, <1>9, FirstRecords
<1>11. /\ Recorded = Origins(Made) /\ Recorded' = Recorded
       /\ PassedOn = Origins(Done) /\ PassedOn' = Append(PassedOn, Origin(r))
  <2>1. Origins(Done') = Append(Origins(Done), Origin(r))  BY <1>2, <1>3, OriginAppended
  <2> QED  BY <1>1, <2>1, BccLog, BccLogAfter
<1>12. Len(PassedOn) = Len(Done)  BY <1>3, <1>11, OriginsHaveTypes
<1>13. Len(Recorded) = Len(Made) /\ Len(Made) \in Nat /\ Recorded[e] = Origin(r)
  BY <1>3, <1>10, <1>11, OriginsHaveTypes
<1>14. Len(PassedOn) < Len(Recorded)  BY <1>5, <1>10, <1>12, <1>13
<1> QED  BY <1>11, <1>12, <1>13, <1>14 DEF BccChannel!Deliver

(* run_tools, parseline and msg_consumer: over the two threads, their lock and the        *)
(* actuations the BCC sensor is one channel of what its tools print.                      *)
THEOREM BccIsChannel == BccSpec => BccChannel!Spec
<1>1. BccInit => BccChannel!Init
  <2> SUFFICES ASSUME BccInit PROVE BccChannel!Init  OBVIOUS
  <2>1. BccTypes  BY BccStarts
  <2>2. Done = <<>> /\ hand = <<>> /\ inmsg = <<>> /\ msg_queue = <<>>  BY DEF BccInit, Done
  <2>3. Made = <<>>
    <3>1. Made = ((Done \o inmsg) \o msg_queue) \o hand  BY <2>1, MadeHasType
    <3> QED  BY <2>2, <3>1
  <2>4. Origins(<<>>) = <<>>  BY DEF Origins
  <2>5. Recorded = <<>> /\ PassedOn = <<>>  BY <2>1, <2>2, <2>3, <2>4, BccLog
  <2> QED  BY <2>5 DEF BccChannel!Init
<1>2. ASSUME BccTypes, BccInv, BccTypes', BccInv', [BccNext]_bccVars
      PROVE  BccChannel!Next \/ UNCHANGED BccChannel!channelVars
  <2>1. ASSUME UNCHANGED <<hand, msg_queue, inmsg, relayed>> PROVE UNCHANGED BccChannel!channelVars
    BY <1>2, <2>1, MadeKept, NothingMade
  <2>2. CASE UNCHANGED bccVars  BY <2>1, <2>2 DEF bccVars
  <2>3. ASSUME NEW t \in BccTools, run_reads(t) PROVE BccChannel!Next \/ UNCHANGED BccChannel!channelVars
    <3>1. relayed' = relayed  BY <2>3 DEF run_reads, consumerSide
    <3>2. CASE Made' = Made  BY <1>2, <3>1, <3>2, NothingMade
    <3>3. CASE \E r \in Record : r.toolname = t /\ Made' = Append(Made, r)
      <4>1. PICK r \in Record : r.toolname = t /\ Made' = Append(Made, r)  BY <3>3
      <4>2. BccChannel!Take(r.toolname)  BY <1>2, <3>1, <4>1, RecordIsTaken
      <4> QED  BY <2>3, <4>1, <4>2, Zenon DEF BccChannel!Next
    <3> QED  BY <1>2, <2>3, <3>2, <3>3, ReadsKeepsInv
  <2>4. CASE run_locks  BY <2>1, <2>4 DEF run_locks, toolSide, consumerSide
  <2>5. CASE run_puts
    <3>1. relayed' = relayed  BY <2>5 DEF run_puts, consumerSide
    <3> QED  BY <1>2, <2>5, <3>1, PutKeepsInv, NothingMade
  <2>6. CASE consumer_polls  BY <2>1, <2>6 DEF consumer_polls, toolSide
  <2>7. CASE consumer_wakes  BY <2>1, <2>7 DEF consumer_wakes, toolSide
  <2>8. CASE consumer_locks  BY <2>1, <2>8 DEF consumer_locks, toolSide
  <2>9. CASE consumer_gets
    <3>1. relayed' = relayed  BY <2>9 DEF consumer_gets
    <3> QED  BY <1>2, <2>9, <3>1, GetKeepsInv, NothingMade
  <2>10. CASE consumer_emits  BY <1>2, <2>10, EmitIsDeliver, Zenon DEF BccChannel!Next
  <2>11. CASE consumer_starts  BY <2>1, <2>11 DEF consumer_starts, toolSide
  <2>12. CASE ToolFails  BY <2>1, <2>12 DEF ToolFails, consumerSide
  <2>13. CASE consumer_cancelled  BY <2>1, <2>13 DEF consumer_cancelled, toolSide
  <2>14. ASSUME NEW t \in BccTools, ToolPrints(t) PROVE UNCHANGED BccChannel!channelVars
    BY <2>1, <2>14, Zenon DEF ToolPrints, consumerSide
  <2> QED  BY <1>2, <2>2, <2>3, <2>4, <2>5, <2>6, <2>7, <2>8, <2>9, <2>10, <2>11, <2>12, <2>13, <2>14
           DEF BccNext, ProducerStep, ConsumerStep
<1> QED  BY <1>1, <1>2, BccInvariant, PTL DEF BccSpec, BccChannel!Spec

-----------------------------------------------------------------------------
(* The sensing methods: their types and their invariant.                   *)

Places == {"off", "top", "reading", "reporting", "sized", "sleeping", "closing", "ended"}
Task == [at : Places, output : Seq(Int), heads : Nat, kept : Seq(Int), listed : Seq(Int),
         reported : Seq(Int), need : Nat, cut : BOOLEAN]

MethodTypes ==
    /\ sensor \in DOMAIN Sensors /\ host \subseteq Entities
    /\ task \in [Slots -> Task]

\* The methods gather or are late, not both, and a query prints no header.
Sane(M) ==
    /\ M.header \in Nat
    /\ M.gathers => ~M.late
    /\ M.command = "query" => M.header = 0 /\ ~M.gathers

Sorted(rows) == \A i, j \in 1..Len(rows) : i < j => rows[i] < rows[j]
Shown(M, rows, j) == rows[j] \notin M.skips /\ (M.late => j < Len(rows))

\* Told are, in their order, those of the first r rows that are to be shown.
Covers(M, rows, told, r) ==
    /\ \A a, b \in 1..Len(told) : a < b => told[a] < told[b]
    /\ \A a \in 1..Len(told) : \E j \in 1..r : told[a] = rows[j] /\ Shown(M, rows, j)
    /\ \A j \in 1..r : Shown(M, rows, j) => \E a \in 1..Len(told) : told[a] = rows[j]

\* The rest of the header and all but the first r rows are still to be read.
ToRead(M, rows, output, heads, r) ==
    /\ heads \in 0..M.header /\ r \in 0..Len(rows)
    /\ heads < M.header => r = 0
    /\ Len(output) = (M.header - heads) + (Len(rows) - r)
    /\ \A j \in 1..(Len(rows) - r) : output[(M.header - heads) + j] = rows[r + j]

Pass(M, at, output, heads, kept, rows, told, cut, r) ==
    /\ r \in 0..Len(rows) /\ Covers(M, rows, told, r)
    /\ at = "reading" /\ cut => output = <<>> /\ ~M.gathers
    /\ at = "reading" /\ ~cut /\ ~M.gathers => ToRead(M, rows, output, heads, r)
    /\ at = "reading" /\ M.gathers =>
           /\ r = 0 /\ ToRead(M, rows, output, heads, Len(kept))
           /\ \A j \in 1..Len(kept) : kept[j] = rows[j]
    /\ at = "reporting" => M.gathers /\ Suffix(rows, kept, r)
    /\ at = "sleeping" /\ ~cut => r = Len(rows)
    /\ at = "sized" => M.command = "query" /\ heads = 0 /\ told = <<>>

\* How far a pass has come, as long as it is one over a listing.
PassOK(M, t) ==
    M.command \in {"listing", "query"} =>
        /\ Sorted(t.listed)
        /\ \E r \in 0..Len(t.listed) : Pass(M, t.at, t.output, t.heads, t.kept, t.listed, t.reported, t.cut, r)

MethodsInv == \A i \in Slots : i \in DOMAIN Methods => PassOK(Methods[i], task[i])

LEMMA ProfilesAreSane ==
    ASSUME NEW loop
    PROVE  Sane(Profile(loop))
BY DEF Sane, Profile, Method

LEMMA PairIsSane ==
    ASSUME NEW M, NEW N, Sane(M), Sane(N), NEW i \in DOMAIN <<M, N>>
    PROVE  Sane(<<M, N>>[i])
<1>1. i = 1 \/ i = 2  OBVIOUS
<1> QED  BY <1>1

LEMMA TwoMethods ==
    ASSUME sensor \in DOMAIN Sensors
    PROVE  DOMAIN Methods \subseteq 1..2
<1>1. CASE sensor \in {"ps", "demo_ps", "kernel_ps", "netstat", "demo_netstat"}
  BY <1>1 DEF Methods, Sensors, Sensor
<1>2. CASE sensor \in {"lsof", "demo_lsof", "tcpdump", "demo_tcpdump"}  BY <1>2 DEF Methods, Sensors, Sensor
<1>3. CASE sensor \in {"handlelist", "tasklist"}
  BY <1>3 DEF Methods, Sensors, Service, sensor_handlelist, sensor_tasklist
<1>4. CASE sensor \in {"kernelprobe", "processlist"}
  BY <1>4 DEF Methods, Sensors, Service, sensor_kernelprobe, sensor_processlist
<1> QED  BY <1>1, <1>2, <1>3, <1>4 DEF Sensors

LEMMA MethodsAreSane ==
    ASSUME sensor \in DOMAIN Sensors, NEW i \in DOMAIN Methods
    PROVE  Sane(Methods[i])
<1>1. CASE sensor = "ps"
  <2>1. Methods = <<ps, assess_ps>>  BY <1>1 DEF Methods, Sensors, Sensor
  <2>2. Sane(ps)  BY DEF Sane, ps, Method
  <2>3. Sane(assess_ps)  BY ProfilesAreSane DEF assess_ps
  <2> QED  BY <2>1, <2>2, <2>3, PairIsSane, Zenon
<1>2. CASE sensor = "demo_ps"
  <2>1. Methods = <<demo_ps, demo_assess_ps>>  BY <1>2 DEF Methods, Sensors, Sensor
  <2>2. Sane(demo_ps)  BY DEF Sane, demo_ps, Method
  <2>3. Sane(demo_assess_ps)  BY ProfilesAreSane DEF demo_assess_ps
  <2> QED  BY <2>1, <2>2, <2>3, PairIsSane, Zenon
<1>3. CASE sensor = "kernel_ps"
  <2>1. Methods = <<kernel_ps, kernel_assess_ps>>  BY <1>3 DEF Methods, Sensors, Sensor
  <2>2. Sane(kernel_ps)  BY DEF Sane, kernel_ps, Method
  <2>3. Sane(kernel_assess_ps)  BY ProfilesAreSane DEF kernel_assess_ps
  <2> QED  BY <2>1, <2>2, <2>3, PairIsSane, Zenon
<1>4. CASE sensor = "netstat"
  <2>1. Methods = <<netstat, assess_netstat>>  BY <1>4 DEF Methods, Sensors, Sensor
  <2>2. Sane(netstat)  BY DEF Sane, netstat, Method
  <2>3. Sane(assess_netstat)  BY ProfilesAreSane DEF assess_netstat
  <2> QED  BY <2>1, <2>2, <2>3, PairIsSane, Zenon
<1>5. CASE sensor = "demo_netstat"
  <2>1. Methods = <<demo_netstat, demo_assess_netstat>>  BY <1>5 DEF Methods, Sensors, Sensor
  <2>2. Sane(demo_netstat)  BY DEF Sane, demo_netstat, Method
  <2>3. Sane(demo_assess_netstat)  BY ProfilesAreSane DEF demo_assess_netstat
  <2> QED  BY <2>1, <2>2, <2>3, PairIsSane, Zenon
<1>6. CASE sensor = "lsof"
  <2>1. Methods = <<lsof, assess_lsof>>  BY <1>6 DEF Methods, Sensors, Sensor
  <2>2. Sane(lsof)  BY DEF Sane, lsof, Method
  <2>3. Sane(assess_lsof)  BY ProfilesAreSane DEF assess_lsof
  <2> QED  BY <2>1, <2>2, <2>3, PairIsSane, Zenon
<1>7. CASE sensor = "demo_lsof"
  <2>1. Methods = <<demo_lsof, demo_assess_lsof>>  BY <1>7 DEF Methods, Sensors, Sensor
  <2>2. Sane(demo_lsof)  BY DEF Sane, demo_lsof, Method
  <2>3. Sane(demo_assess_lsof)  BY ProfilesAreSane DEF demo_assess_lsof
  <2> QED  BY <2>1, <2>2, <2>3, PairIsSane, Zenon
<1>8. CASE sensor = "tcpdump"
  <2>1. Methods = <<tcpdump, assess_tcpdump>>  BY <1>8 DEF Methods, Sensors, Sensor
  <2>2. Sane(tcpdump)  BY DEF Sane, tcpdump, Method
  <2>3. Sane(assess_tcpdump)  BY ProfilesAreSane DEF assess_tcpdump
  <2> QED  BY <2>1, <2>2, <2>3, PairIsSane, Zenon
<1>9. CASE sensor = "demo_tcpdump"
  <2>1. Methods = <<demo_tcpdump, demo_assess_tcpdump>>  BY <1>9 DEF Methods, Sensors, Sensor
  <2>2. Sane(demo_tcpdump)  BY DEF Sane, demo_tcpdump, Method
  <2>3. Sane(demo_assess_tcpdump)  BY ProfilesAreSane DEF demo_assess_tcpdump
  <2> QED  BY <2>1, <2>2, <2>3, PairIsSane, Zenon
<1>10. CASE sensor = "handlelist"
  <2>1. Methods = <<handlelist, assess_handlelist>>  BY <1>10 DEF Methods, Sensors, Service, sensor_handlelist
  <2>2. Sane(handlelist)  BY DEF Sane, handlelist, Method
  <2>3. Sane(assess_handlelist)  BY ProfilesAreSane DEF assess_handlelist
  <2> QED  BY <2>1, <2>2, <2>3, PairIsSane, Zenon
<1>11. CASE sensor = "tasklist"
  <2>1. Methods = <<tasklist, assess_tasklist>>  BY <1>11 DEF Methods, Sensors, Service, sensor_tasklist
  <2>2. Sane(tasklist)  BY DEF Sane, tasklist, Method
  <2>3. Sane(assess_tasklist)  BY ProfilesAreSane DEF assess_tasklist
  <2> QED  BY <2>1, <2>2, <2>3, PairIsSane, Zenon
<1>12. CASE sensor = "kernelprobe"
  <2>1. Methods = <<kernelprobe, assess_kernelprobe>>  BY <1>12 DEF Methods, Sensors, Service, sensor_kernelprobe
  <2>2. Sane(kernelprobe)  BY DEF Sane, kernelprobe, Method
  <2>3. Sane(assess_kernelprobe)  BY ProfilesAreSane DEF assess_kernelprobe
  <2> QED  BY <2>1, <2>2, <2>3, PairIsSane, Zenon
<1>13. CASE sensor = "processlist"
  <2>1. Methods = <<process_monitor>> /\ DOMAIN <<process_monitor>> = {1}
    BY <1>13 DEF Methods, Sensors, Service, sensor_processlist
  <2>2. Sane(process_monitor)  BY DEF Sane, process_monitor, Method
  <2> QED  BY <2>1, <2>2
<1> QED  BY <1>1, <1>2, <1>3, <1>4, <1>5, <1>6, <1>7, <1>8, <1>9, <1>10, <1>11, <1>12, <1>13 DEF Sensors

-----------------------------------------------------------------------------
(* A pass over a listing.                                                  *)

LEMMA NumbersHaveTypes ==
    ASSUME NEW s \in Seq(Int)
    PROVE  Len(s) \in Nat /\ DOMAIN s = 1..Len(s) /\ \A i \in 1..Len(s) : s[i] \in Int
BY ElementOfSeq, LenProperties

LEMMA AppendedNumber ==
    ASSUME NEW s \in Seq(Int), NEW x \in Int
    PROVE  /\ Append(s, x) \in Seq(Int) /\ Len(s) \in Nat /\ Len(Append(s, x)) = Len(s) + 1
           /\ \A i \in 1..Len(s) : Append(s, x)[i] = s[i]
           /\ Append(s, x)[Len(s) + 1] = x
           /\ \A i \in 1..(Len(s) + 1) : i \in 1..Len(s) \/ i = Len(s) + 1
BY AppendProperties, LenProperties

LEMMA TailOfNumbers ==
    ASSUME NEW s \in Seq(Int), s # <<>>
    PROVE  /\ Tail(s) \in Seq(Int) /\ Len(s) \in Nat /\ Len(s) > 0 /\ Len(Tail(s)) = Len(s) - 1
           /\ Head(s) = s[1] /\ Head(s) \in Int
           /\ \A i \in 1..(Len(s) - 1) : Tail(s)[i] = s[i + 1]
           /\ Tail(s) = <<>> <=> Len(s) = 1
<1>1. Len(s) \in Nat /\ Len(s) > 0  BY EmptySeq, LenProperties
<1>2. Tail(s) \in Seq(Int) /\ Len(Tail(s)) = Len(s) - 1 /\ \A i \in 1..Len(Tail(s)) : Tail(s)[i] = s[i + 1]
  BY HeadTailProperties
<1>3. Head(s) = s[1] /\ Head(s) \in Int  BY HeadTailProperties
<1>4. Tail(s) = <<>> <=> Len(Tail(s)) = 0  BY <1>2, EmptySeq
<1> QED  BY <1>1, <1>2, <1>3, <1>4, SMTT(30)

LEMMA CoversNone ==
    ASSUME NEW M, NEW rows
    PROVE  Covers(M, rows, <<>>, 0)
<1>1. Len(<<>>) = 0  OBVIOUS
<1> QED  BY <1>1 DEF Covers

LEMMA CoversOneMore ==
    ASSUME NEW M, NEW rows \in Seq(Int), NEW told \in Seq(Int), NEW r \in Nat, r < Len(rows),
           Sorted(rows), Covers(M, rows, told, r)
    PROVE  /\ Shown(M, rows, r + 1) => Covers(M, rows, Append(told, rows[r + 1]), r + 1)
           /\ ~Shown(M, rows, r + 1) => Covers(M, rows, told, r + 1)
<1>1. /\ Len(rows) \in Nat /\ r + 1 \in 1..Len(rows) /\ rows[r + 1] \in Int
      /\ \A j \in 1..r : j \in 1..Len(rows) /\ j < r + 1 /\ j \in 1..(r + 1)
      /\ \A j \in 1..(r + 1) : j \in 1..r \/ j = r + 1
      /\ r + 1 \in 1..(r + 1)
  BY NumbersHaveTypes
<1>2. ASSUME ~Shown(M, rows, r + 1) PROVE Covers(M, rows, told, r + 1)
  BY <1>1, <1>2 DEF Covers
<1>3. ASSUME Shown(M, rows, r + 1) PROVE Covers(M, rows, Append(told, rows[r + 1]), r + 1)
  <2> DEFINE p == Append(told, rows[r + 1])
  <2>1. /\ Len(told) \in Nat /\ Len(p) = Len(told) + 1 /\ p[Len(told) + 1] = rows[r + 1]
        /\ \A i \in 1..Len(told) : p[i] = told[i]
        /\ \A i \in 1..(Len(told) + 1) : i \in 1..Len(told) \/ i = Len(told) + 1
    BY <1>1, AppendedNumber
  <2> HIDE DEF p
  <2>2. ASSUME NEW a \in 1..Len(p) PROVE \E j \in 1..(r + 1) : p[a] = rows[j] /\ Shown(M, rows, j)
    <3>1. CASE a \in 1..Len(told)
      <4>1. PICK j \in 1..r : told[a] = rows[j] /\ Shown(M, rows, j)  BY <3>1 DEF Covers
      <4> QED  BY <1>1, <2>1, <3>1, <4>1
    <3>2. CASE a = Len(told) + 1  BY <1>1, <1>3, <2>1, <3>2
    <3> QED  BY <2>1, <3>1, <3>2
  <2>3. ASSUME NEW a \in 1..Len(p), NEW b \in 1..Len(p), a < b PROVE p[a] < p[b]
    <3>1. a \in 1..Len(told) /\ p[a] = told[a]  BY <2>1, <2>3
    <3>2. CASE b \in 1..Len(told)
      <4>1. p[b] = told[b]  BY <2>1, <3>2
      <4> QED  BY <2>3, <3>1, <3>2, <4>1 DEF Covers
    <3>3. CASE b = Len(told) + 1
      <4>1. PICK j \in 1..r : told[a] = rows[j]  BY <3>1 DEF Covers
      <4>2. rows[j] < rows[r + 1]  BY <1>1 DEF Sorted
      <4> QED  BY <2>1, <3>1, <3>3, <4>1, <4>2
    <3> QED  BY <2>1, <3>2, <3>3
  <2>4. ASSUME NEW j \in 1..(r + 1), Shown(M, rows, j) PROVE \E a \in 1..Len(p) : p[a] = rows[j]
    <3>1. CASE j \in 1..r
      <4>1. PICK a \in 1..Len(told) : told[a] = rows[j]  BY <2>4, <3>1 DEF Covers
      <4>2. a \in 1..Len(p) /\ p[a] = told[a]  BY <2>1
      <4> QED  BY <4>1, <4>2
    <3>2. CASE j = r + 1
      <4>1. Len(told) + 1 \in 1..Len(p)  BY <2>1
      <4> QED  BY <2>1, <3>2, <4>1
    <3> QED  BY <1>1, <3>1, <3>2
  <2> QED  BY <2>2, <2>3, <2>4 DEF Covers, p
<1> QED  BY <1>2, <1>3

\* A line of the header is read.
LEMMA HeaderIsRead ==
    ASSUME NEW M, Sane(M), NEW rows \in Seq(Int), NEW output \in Seq(Int), NEW heads \in Nat, NEW r,
           ToRead(M, rows, output, heads, r), output # <<>>, heads < M.header
    PROVE  ToRead(M, rows, Tail(output), heads + 1, r)
<1> DEFINE left == Tail(output)
<1>1. /\ Len(output) \in Nat /\ Len(left) = Len(output) - 1
      /\ \A i \in 1..(Len(output) - 1) : left[i] = output[i + 1]
  BY TailOfNumbers
<1> HIDE DEF left
<1>2. Len(rows) \in Nat  BY NumbersHaveTypes
<1>3. M.header \in Nat  BY DEF Sane
<1>4. /\ heads \in 0..M.header /\ r = 0
      /\ Len(output) = (M.header - heads) + (Len(rows) - r)
      /\ \A j \in 1..(Len(rows) - r) : output[(M.header - heads) + j] = rows[r + j]
  BY DEF ToRead
<1>5. heads + 1 \in 0..M.header /\ Len(left) = (M.header - (heads + 1)) + (Len(rows) - r) /\ r \in 0..Len(rows)
  BY <1>1, <1>2, <1>3, <1>4
<1>6. ASSUME NEW j \in 1..(Len(rows) - r) PROVE left[(M.header - (heads + 1)) + j] = rows[r + j]
  <2>1. /\ (M.header - (heads + 1)) + j \in 1..(Len(output) - 1)
        /\ ((M.header - (heads + 1)) + j) + 1 = (M.header - heads) + j
    <3>1. \A a, b, c \in Nat : \A x \in 1..(c - 0) : b < a =>
              /\ (a - (b + 1)) + x \in 1..(((a - b) + (c - 0)) - 1)
              /\ ((a - (b + 1)) + x) + 1 = (a - b) + x
      OBVIOUS
    <3> QED  BY <1>2, <1>3, <1>4, <3>1, Zenon
  <2> QED  BY <1>1, <1>4, <2>1
<1> QED  BY <1>4, <1>5, <1>6 DEF ToRead, left

\* A row is read.
LEMMA RowIsRead ==
    ASSUME NEW M, Sane(M), NEW rows \in Seq(Int), NEW output \in Seq(Int), NEW heads \in Nat, NEW r,
           ToRead(M, rows, output, heads, r), output # <<>>, heads = M.header
    PROVE  /\ r \in Nat /\ r < Len(rows) /\ Head(output) = rows[r + 1]
           /\ Tail(output) = <<>> <=> r + 1 = Len(rows)
           /\ ToRead(M, rows, Tail(output), heads, r + 1)
<1> DEFINE left == Tail(output)
<1>1. /\ Len(output) \in Nat /\ Len(output) > 0 /\ Len(left) = Len(output) - 1 /\ Head(output) = output[1]
      /\ \A i \in 1..(Len(output) - 1) : left[i] = output[i + 1]
      /\ left = <<>> <=> Len(output) = 1
  BY TailOfNumbers
<1> HIDE DEF left
<1>2. Len(rows) \in Nat  BY NumbersHaveTypes
<1>3. M.header \in Nat /\ M.header - heads = 0  BY DEF Sane
<1>4. /\ r \in 0..Len(rows)
      /\ Len(output) = 0 + (Len(rows) - r)
      /\ \A j \in 1..(Len(rows) - r) : output[0 + j] = rows[r + j]
  BY <1>3 DEF ToRead
<1>5. r \in Nat /\ r < Len(rows) /\ Len(output) = Len(rows) - r /\ r + 1 \in 0..Len(rows)  BY <1>1, <1>2, <1>4, SMTT(30)
<1>6. Head(output) = rows[r + 1]
  <2>1. 1 \in 1..(Len(rows) - r) /\ 0 + 1 = 1  BY <1>1, <1>2, <1>5
  <2> QED  BY <1>1, <1>4, <2>1
<1>7. left = <<>> <=> r + 1 = Len(rows)  BY <1>1, <1>2, <1>5
<1>8. ASSUME NEW j \in 1..(Len(rows) - (r + 1)) PROVE left[0 + j] = rows[(r + 1) + j]
  <2>1. /\ j \in 1..(Len(output) - 1) /\ j + 1 \in 1..(Len(rows) - r)
        /\ 0 + j = j /\ 0 + (j + 1) = j + 1 /\ r + (j + 1) = (r + 1) + j
    BY <1>1, <1>2, <1>5
  <2> QED  BY <1>1, <1>4, <2>1
<1>9. Len(left) = 0 + (Len(rows) - (r + 1))  BY <1>1, <1>2, <1>5
<1>10. heads \in 0..M.header /\ ~(heads < M.header)  BY <1>3
<1>11. ToRead(M, rows, left, heads, r + 1)  BY <1>3, <1>5, <1>8, <1>9, <1>10 DEF ToRead
<1> QED  BY <1>5, <1>6, <1>7, <1>11 DEF left

\* All is read.
LEMMA AllIsRead ==
    ASSUME NEW M, Sane(M), NEW rows \in Seq(Int), NEW heads, NEW r, ToRead(M, rows, <<>>, heads, r)
    PROVE  r = Len(rows)
<1>1. Len(rows) \in Nat /\ M.header \in Nat /\ Len(<<>>) = 0  BY NumbersHaveTypes DEF Sane
<1>2. heads \in 0..M.header /\ r \in 0..Len(rows) /\ 0 = (M.header - heads) + (Len(rows) - r)  BY <1>1 DEF ToRead
<1> QED  BY <1>1, <1>2

LEMMA NothingIsRead ==
    ASSUME NEW M, Sane(M), NEW rows \in Seq(Int)
    PROVE  /\ Printed(M, rows) \in Seq(Int) /\ ToRead(M, rows, Printed(M, rows), 0, 0)
           /\ M.header = 0 => ToRead(M, rows, rows, 0, 0)
<1> DEFINE h == [n \in 1..M.header |-> Header]
           all == h \o rows
<1>1. M.header \in Nat /\ Header \in Int /\ Len(rows) \in Nat  BY NumbersHaveTypes DEF Sane, Header
<1>2. h \in Seq(Int) /\ Len(h) = M.header  BY <1>1
<1> HIDE DEF h
<1>3. /\ all \in Seq(Int) /\ Len(all) = Len(h) + Len(rows)
      /\ \A i \in 1..(Len(h) + Len(rows)) : all[i] = IF i <= Len(h) THEN h[i] ELSE rows[i - Len(h)]
  BY <1>2, ConcatProperties
<1> HIDE DEF all
<1>4. 0 \in 0..M.header /\ 0 \in 0..Len(rows) /\ M.header - 0 = M.header /\ Len(rows) - 0 = Len(rows)  BY <1>1
<1>5. ASSUME NEW j \in 1..Len(rows) PROVE all[M.header + j] = rows[0 + j]
  <2>1. /\ M.header + j \in 1..(Len(h) + Len(rows)) /\ ~(M.header + j <= Len(h)) /\ (M.header + j) - Len(h) = j
        /\ 0 + j = j
    BY <1>1, <1>2
  <2> QED  BY <1>3, <2>1
<1>6. ToRead(M, rows, all, 0, 0)  BY <1>2, <1>3, <1>4, <1>5 DEF ToRead
<1>7. ASSUME M.header = 0 PROVE ToRead(M, rows, rows, 0, 0)
  <2>1. \A j \in 1..Len(rows) : 0 + j = j  BY <1>1
  <2>2. Len(rows) = 0 + Len(rows)  BY <1>1
  <2> QED  BY <1>4, <1>7, <2>1, <2>2 DEF ToRead
<1> QED  BY <1>3, <1>6, <1>7 DEF all, h, Printed

-----------------------------------------------------------------------------
(* What the steps do to a task.                                            *)

LEMMA TaskFields ==
    ASSUME NEW t \in Task
    PROVE  /\ t.at \in Places /\ t.output \in Seq(Int) /\ t.heads \in Nat /\ t.kept \in Seq(Int)
           /\ t.listed \in Seq(Int) /\ t.reported \in Seq(Int) /\ t.need \in Nat /\ t.cut \in BOOLEAN
BY DEF Task

LEMMA PassShown ==
    ASSUME NEW M, NEW t, M.command \in {"listing", "query"}, Sorted(t.listed), NEW r \in 0..Len(t.listed),
           Pass(M, t.at, t.output, t.heads, t.kept, t.listed, t.reported, t.cut, r)
    PROVE  PassOK(M, t)
BY DEF PassOK

LEMMA NoPass ==
    ASSUME NEW M, NEW t, M.command \notin {"listing", "query"}
    PROVE  PassOK(M, t)
BY Zenon DEF PassOK

LEMMA FreshIsFine ==
    ASSUME NEW M, NEW at \in Places
    PROVE  /\ Fresh(at) \in Task
           /\ at \notin {"reading", "reporting", "sized"} => PassOK(M, Fresh(at))
<1> DEFINE t == Fresh(at)
<1>1. t \in Task  BY DEF Fresh, Task
<1>2. /\ t.at = at /\ t.listed = <<>> /\ t.reported = <<>> /\ t.cut = FALSE  BY DEF Fresh
<1> HIDE DEF t
<1>3. Len(<<>>) = 0 /\ Sorted(<<>>) /\ 0 \in 0..Len(<<>>)  BY DEF Sorted
<1>4. ASSUME at \notin {"reading", "reporting", "sized"}
      PROVE  Pass(M, t.at, t.output, t.heads, t.kept, <<>>, <<>>, FALSE, 0)
  BY <1>2, <1>3, <1>4, CoversNone DEF Pass
<1> QED  BY <1>1, <1>2, <1>3, <1>4 DEF PassOK, t

LEMMA RowsAreSorted ==
    ASSUME NEW h, h \subseteq Entities, NEW rows \in Listing(h)
    PROVE  rows \in Seq(Int) /\ Sorted(rows)
<1> DEFINE S == h \cup {Own}
           n == Cardinality(S)
<1>1. IsFiniteSet(h)  BY SensingMethodsAssumption, FS_Subset
<1>2. IsFiniteSet(S)  BY <1>1, FS_AddElement
<1>3. n \in Nat  BY <1>2, FS_CardinalityType
<1>4. S \subseteq Int  BY SensingMethodsAssumption DEF Own
<1>5. rows \in [1..n -> S] /\ \A i, j \in DOMAIN rows : i < j => rows[i] < rows[j]  BY DEF Listing, Rows
<1> HIDE DEF n, S
<1>6. DOMAIN rows = 1..n /\ rows \in [1..n -> Int]  BY <1>4, <1>5
<1>7. rows \in Seq(Int) /\ Len(rows) = n  BY <1>3, <1>6
<1> QED  BY <1>5, <1>6, <1>7 DEF Sorted

\* A step to a place of which nothing is said.
LEMMA MovesOn ==
    ASSUME NEW M, NEW t \in Task, PassOK(M, t), NEW at \in {"off", "top", "ended"}
    PROVE  [t EXCEPT !.at = at] \in Task /\ PassOK(M, [t EXCEPT !.at = at])
<1> DEFINE u == [t EXCEPT !.at = at]
<1>1. u \in Task  BY DEF Task, Places
<1>2. /\ u.at = at /\ u.output = t.output /\ u.heads = t.heads /\ u.kept = t.kept /\ u.listed = t.listed
      /\ u.reported = t.reported /\ u.cut = t.cut
  BY DEF Task
<1> HIDE DEF u
<1>3. ASSUME M.command \in {"listing", "query"} PROVE PassOK(M, u)
  <2>1. /\ Sorted(t.listed)
        /\ \E r \in 0..Len(t.listed) : Pass(M, t.at, t.output, t.heads, t.kept, t.listed, t.reported, t.cut, r)
    BY <1>3 DEF PassOK
  <2>2. PICK r \in 0..Len(t.listed) : Pass(M, t.at, t.output, t.heads, t.kept, t.listed, t.reported, t.cut, r)
    BY <2>1
  <2>3. Pass(M, u.at, u.output, u.heads, u.kept, u.listed, u.reported, u.cut, r)  BY <1>2, <2>2 DEF Pass
  <2> QED  BY <1>2, <1>3, <2>1, <2>3, PassShown
<1>4. ASSUME M.command \notin {"listing", "query"} PROVE PassOK(M, u)  BY <1>4, NoPass, Zenon
<1> QED  BY <1>1, <1>3, <1>4 DEF u

LEMMA OutputEnds ==
    ASSUME NEW M, Sane(M), NEW t \in Task, PassOK(M, t), t.at = "reading", t.output = <<>>,
           NEW at, at = IF M.gathers THEN "reporting" ELSE "sleeping"
    PROVE  [t EXCEPT !.at = at] \in Task /\ PassOK(M, [t EXCEPT !.at = at])
<1> DEFINE u == [t EXCEPT !.at = at]
<1>0. at \in Places  BY DEF Places
<1>1. u \in Task  BY <1>0 DEF Task
<1>2. /\ u.at = at /\ u.output = t.output /\ u.heads = t.heads /\ u.kept = t.kept /\ u.listed = t.listed
      /\ u.reported = t.reported /\ u.cut = t.cut
  BY DEF Task
<1> HIDE DEF u
<1>3. ASSUME M.command \in {"listing", "query"} PROVE PassOK(M, u)
  <2>1. /\ Sorted(t.listed)
        /\ \E r \in 0..Len(t.listed) : Pass(M, t.at, t.output, t.heads, t.kept, t.listed, t.reported, t.cut, r)
    BY <1>3 DEF PassOK
  <2>2. PICK r \in 0..Len(t.listed) : Pass(M, t.at, t.output, t.heads, t.kept, t.listed, t.reported, t.cut, r)
    BY <2>1
  <2>3. t.listed \in Seq(Int) /\ t.kept \in Seq(Int)  BY TaskFields
  <2>4. CASE M.gathers
    <3>1. r = 0 /\ ToRead(M, t.listed, <<>>, t.heads, Len(t.kept)) /\ \A j \in 1..Len(t.kept) : t.kept[j] = t.listed[j]
      BY <2>2, <2>4 DEF Pass
    <3>2. Len(t.kept) = Len(t.listed) /\ Len(t.kept) \in Nat  BY <2>3, <3>1, AllIsRead, NumbersHaveTypes
    <3>3. \A j \in 1..Len(t.kept) : j + 0 = j  BY <3>2
    <3>4. Suffix(t.listed, t.kept, 0)  BY <3>1, <3>2, <3>3 DEF Suffix
    <3>5. Pass(M, "reporting", u.output, u.heads, t.kept, t.listed, t.reported, t.cut, r)
      BY <2>2, <2>4, <3>1, <3>4 DEF Pass
    <3>6. at = "reporting"  BY <2>4
    <3> QED  BY <1>2, <1>3, <2>1, <3>5, <3>6, PassShown
  <2>5. CASE ~M.gathers
    <3>1. at = "sleeping"  BY <2>5
    <3>2. ~t.cut => r = Len(t.listed)
      <4> SUFFICES ASSUME ~t.cut PROVE r = Len(t.listed)  OBVIOUS
      <4>1. ToRead(M, t.listed, <<>>, t.heads, r)  BY <2>2, <2>5 DEF Pass
      <4> QED  BY <2>3, <4>1, AllIsRead
    <3>3. Pass(M, "sleeping", u.output, u.heads, t.kept, t.listed, t.reported, t.cut, r)
      BY <2>2, <3>2 DEF Pass
    <3> QED  BY <1>2, <1>3, <2>1, <3>1, <3>3, PassShown
  <2> QED  BY <2>4, <2>5
<1>4. ASSUME M.command \notin {"listing", "query"} PROVE PassOK(M, u)  BY <1>4, NoPass, Zenon
<1> QED  BY <1>1, <1>3, <1>4 DEF u

LEMMA ReportEnds ==
    ASSUME NEW M, NEW t \in Task, PassOK(M, t), t.at = "reporting", t.kept = <<>>
    PROVE  [t EXCEPT !.at = "sleeping"] \in Task /\ PassOK(M, [t EXCEPT !.at = "sleeping"])
<1> DEFINE u == [t EXCEPT !.at = "sleeping"]
<1>1. u \in Task  BY DEF Task, Places
<1>2. /\ u.at = "sleeping" /\ u.output = t.output /\ u.heads = t.heads /\ u.kept = t.kept /\ u.listed = t.listed
      /\ u.reported = t.reported /\ u.cut = t.cut
  BY DEF Task
<1> HIDE DEF u
<1>3. ASSUME M.command \in {"listing", "query"} PROVE PassOK(M, u)
  <2>1. /\ Sorted(t.listed)
        /\ \E r \in 0..Len(t.listed) : Pass(M, t.at, t.output, t.heads, t.kept, t.listed, t.reported, t.cut, r)
    BY <1>3 DEF PassOK
  <2>2. PICK r \in 0..Len(t.listed) : Pass(M, t.at, t.output, t.heads, t.kept, t.listed, t.reported, t.cut, r)
    BY <2>1
  <2>3. Suffix(t.listed, <<>>, r) /\ Len(<<>>) = 0  BY <2>2 DEF Pass
  <2>4. Len(t.listed) = r  BY <2>3 DEF Suffix
  <2>5. Pass(M, "sleeping", u.output, u.heads, t.kept, t.listed, t.reported, t.cut, r)  BY <2>2, <2>4 DEF Pass
  <2> QED  BY <1>2, <1>3, <2>1, <2>5, PassShown
<1>4. ASSUME M.command \notin {"listing", "query"} PROVE PassOK(M, u)  BY <1>4, NoPass, Zenon
<1> QED  BY <1>1, <1>3, <1>4 DEF u

LEMMA ReadsHeader ==
    ASSUME NEW M, Sane(M), NEW t \in Task, PassOK(M, t), t.at = "reading", t.output # <<>>, t.heads < M.header,
           NEW u, u.at = "reading", u.output = Tail(t.output), u.heads = t.heads + 1, u.kept = t.kept,
           u.listed = t.listed, u.reported = t.reported, u.cut = t.cut
    PROVE  PassOK(M, u)
<1>1. t.output \in Seq(Int) /\ t.listed \in Seq(Int) /\ t.heads \in Nat  BY TaskFields
<1>2. ASSUME M.command \in {"listing", "query"} PROVE PassOK(M, u)
  <2>1. /\ Sorted(t.listed)
        /\ \E r \in 0..Len(t.listed) : Pass(M, t.at, t.output, t.heads, t.kept, t.listed, t.reported, t.cut, r)
    BY <1>2 DEF PassOK
  <2>2. PICK r \in 0..Len(t.listed) : Pass(M, t.at, t.output, t.heads, t.kept, t.listed, t.reported, t.cut, r)
    BY <2>1
  <2>3. ~t.cut  BY <2>2 DEF Pass
  <2>4. \A k : ToRead(M, t.listed, t.output, t.heads, k) => ToRead(M, t.listed, Tail(t.output), t.heads + 1, k)
    BY <1>1, HeaderIsRead, Zenon
  <2> DEFINE left == Tail(t.output)
             next == t.heads + 1
  <2>5. \A k : ToRead(M, t.listed, t.output, t.heads, k) => ToRead(M, t.listed, left, next, k)  BY <2>4
  <2>6. u.output = left /\ u.heads = next  OBVIOUS
  <2> HIDE DEF left, next
  <2>7. Pass(M, "reading", left, next, t.kept, t.listed, t.reported, t.cut, r)  BY <2>2, <2>3, <2>5 DEF Pass
  <2> QED  BY <1>2, <2>1, <2>6, <2>7, PassShown
<1>3. ASSUME M.command \notin {"listing", "query"} PROVE PassOK(M, u)  BY <1>3, NoPass, Zenon
<1> QED  BY <1>2, <1>3

LEMMA Gathers ==
    ASSUME NEW M, Sane(M), NEW t \in Task, PassOK(M, t), t.at = "reading", t.output # <<>>, t.heads = M.header,
           M.gathers,
           NEW u, u.at = "reading", u.output = Tail(t.output), u.heads = t.heads,
           u.kept = Append(t.kept, Head(t.output)),
           u.listed = t.listed, u.reported = t.reported, u.cut = t.cut
    PROVE  PassOK(M, u)
<1> DEFINE left == Tail(t.output)
           more == Append(t.kept, Head(t.output))
<1>1. /\ t.output \in Seq(Int) /\ t.listed \in Seq(Int) /\ t.kept \in Seq(Int) /\ t.heads \in Nat
      /\ Head(t.output) \in Int
  BY TaskFields, TailOfNumbers
<1>2. /\ left \in Seq(Int) /\ more \in Seq(Int) /\ Len(t.kept) \in Nat /\ Len(more) = Len(t.kept) + 1
      /\ \A i \in 1..Len(t.kept) : more[i] = t.kept[i]
      /\ more[Len(t.kept) + 1] = Head(t.output)
      /\ \A i \in 1..(Len(t.kept) + 1) : i \in 1..Len(t.kept) \/ i = Len(t.kept) + 1
  BY <1>1, TailOfNumbers, AppendedNumber
<1>3. u.output = left /\ u.kept = more  OBVIOUS
<1> HIDE DEF left, more
<1>4. ASSUME M.command \in {"listing", "query"} PROVE PassOK(M, u)
  <2>1. /\ Sorted(t.listed)
        /\ \E r \in 0..Len(t.listed) : Pass(M, t.at, t.output, t.heads, t.kept, t.listed, t.reported, t.cut, r)
    BY <1>4 DEF PassOK
  <2>2. PICK r \in 0..Len(t.listed) : Pass(M, t.at, t.output, t.heads, t.kept, t.listed, t.reported, t.cut, r)
    BY <2>1
  <2>3. /\ ~t.cut /\ r = 0 /\ ToRead(M, t.listed, t.output, t.heads, Len(t.kept))
        /\ \A j \in 1..Len(t.kept) : t.kept[j] = t.listed[j]
    BY <2>2 DEF Pass
  <2>4. Head(t.output) = t.listed[Len(t.kept) + 1] /\ ToRead(M, t.listed, left, t.heads, Len(t.kept) + 1)
    BY <1>1, <2>3, RowIsRead, SMTT(30) DEF left
  <2>5. \A j \in 1..Len(more) : more[j] = t.listed[j]  BY <1>2, <2>3, <2>4
  <2>6. ToRead(M, t.listed, left, t.heads, Len(more))  BY <1>2, <2>4
  <2>7. Pass(M, "reading", left, t.heads, more, t.listed, t.reported, t.cut, r)
    BY <2>2, <2>3, <2>5, <2>6 DEF Pass
  <2> QED  BY <1>3, <1>4, <2>1, <2>7, PassShown
<1>5. ASSUME M.command \notin {"listing", "query"} PROVE PassOK(M, u)  BY <1>5, NoPass, Zenon
<1> QED  BY <1>4, <1>5

\* A row is read and reported, or passed over.
LEMMA ReadsRow ==
    ASSUME NEW M, Sane(M), NEW t \in Task, PassOK(M, t), t.at = "reading", t.output # <<>>, t.heads = M.header,
           ~M.gathers,
           NEW u, u.at = "reading", u.output = Tail(t.output), u.heads = t.heads, u.kept = t.kept,
           u.listed = t.listed, u.cut = t.cut,
           u.reported = IF Head(t.output) \in M.skips \/ (M.late /\ Tail(t.output) = <<>>) THEN t.reported
                        ELSE Append(t.reported, Head(t.output))
    PROVE  PassOK(M, u)
<1>1. /\ t.output \in Seq(Int) /\ t.listed \in Seq(Int) /\ t.reported \in Seq(Int) /\ t.heads \in Nat
      /\ Len(t.listed) \in Nat
  BY TaskFields, NumbersHaveTypes
<1>2. ASSUME M.command \in {"listing", "query"} PROVE PassOK(M, u)
  <2>1. /\ Sorted(t.listed)
        /\ \E r \in 0..Len(t.listed) : Pass(M, t.at, t.output, t.heads, t.kept, t.listed, t.reported, t.cut, r)
    BY <1>2 DEF PassOK
  <2>2. PICK r \in 0..Len(t.listed) : Pass(M, t.at, t.output, t.heads, t.kept, t.listed, t.reported, t.cut, r)
    BY <2>1
  <2>3. ~t.cut /\ ToRead(M, t.listed, t.output, t.heads, r) /\ Covers(M, t.listed, t.reported, r)  BY <2>2 DEF Pass
  <2> DEFINE left == Tail(t.output)
             line == Head(t.output)
  <2>4. /\ r \in Nat /\ r < Len(t.listed) /\ line = t.listed[r + 1]
        /\ left = <<>> <=> r + 1 = Len(t.listed)
        /\ ToRead(M, t.listed, left, t.heads, r + 1)
    BY <1>1, <2>3, RowIsRead
  <2>5. /\ u.output = left
        /\ u.reported = IF line \in M.skips \/ (M.late /\ left = <<>>) THEN t.reported
                        ELSE Append(t.reported, line)
    OBVIOUS
  <2> HIDE DEF left, line
  <2>6. r + 1 < Len(t.listed) <=> r + 1 # Len(t.listed)  BY <1>1, <2>4
  <2>7. Shown(M, t.listed, r + 1) <=> ~(line \in M.skips \/ (M.late /\ left = <<>>))  BY <2>4, <2>6 DEF Shown
  <2>8. Covers(M, t.listed, u.reported, r + 1)
    <3>1. /\ Shown(M, t.listed, r + 1) => Covers(M, t.listed, Append(t.reported, t.listed[r + 1]), r + 1)
          /\ ~Shown(M, t.listed, r + 1) => Covers(M, t.listed, t.reported, r + 1)
      BY <1>1, <2>1, <2>3, <2>4, CoversOneMore
    <3>2. CASE Shown(M, t.listed, r + 1)
      <4>1. u.reported = Append(t.reported, t.listed[r + 1])  BY <2>4, <2>5, <2>7, <3>2
      <4> QED  BY <3>1, <3>2, <4>1
    <3>3. CASE ~Shown(M, t.listed, r + 1)
      <4>1. u.reported = t.reported  BY <2>5, <2>7, <3>3
      <4> QED  BY <3>1, <3>3, <4>1
    <3> QED  BY <3>2, <3>3
  <2>9. r + 1 \in 0..Len(t.listed)  BY <1>1, <2>4
  <2>10. Pass(M, "reading", left, t.heads, t.kept, t.listed, u.reported, t.cut, r + 1)
    BY <2>3, <2>4, <2>8, <2>9 DEF Pass
  <2> QED  BY <1>2, <2>1, <2>5, <2>9, <2>10, PassShown, SMTT(30)
<1>3. ASSUME M.command \notin {"listing", "query"} PROVE PassOK(M, u)  BY <1>3, NoPass, Zenon
<1> QED  BY <1>2, <1>3

\* What was gathered is reported.
LEMMA ReportsKept ==
    ASSUME NEW M, Sane(M), NEW t \in Task, PassOK(M, t), t.at = "reporting", t.kept # <<>>,
           NEW u, u.at = "reporting", u.output = t.output, u.heads = t.heads, u.kept = Tail(t.kept),
           u.listed = t.listed, u.cut = t.cut,
           u.reported = IF Head(t.kept) \in M.skips THEN t.reported ELSE Append(t.reported, Head(t.kept))
    PROVE  PassOK(M, u)
<1>1. /\ t.kept \in Seq(Int) /\ t.listed \in Seq(Int) /\ t.reported \in Seq(Int) /\ Len(t.listed) \in Nat
  BY TaskFields, NumbersHaveTypes
<1>2. ASSUME M.command \in {"listing", "query"} PROVE PassOK(M, u)
  <2>1. /\ Sorted(t.listed)
        /\ \E r \in 0..Len(t.listed) : Pass(M, t.at, t.output, t.heads, t.kept, t.listed, t.reported, t.cut, r)
    BY <1>2 DEF PassOK
  <2>2. PICK r \in 0..Len(t.listed) : Pass(M, t.at, t.output, t.heads, t.kept, t.listed, t.reported, t.cut, r)
    BY <2>1
  <2>3. M.gathers /\ Suffix(t.listed, t.kept, r) /\ Covers(M, t.listed, t.reported, r)  BY <2>2 DEF Pass
  <2> DEFINE left == Tail(t.kept)
             line == Head(t.kept)
  <2>4. /\ Len(t.kept) \in Nat /\ Len(t.kept) > 0 /\ Len(left) = Len(t.kept) - 1 /\ line = t.kept[1]
        /\ \A i \in 1..(Len(t.kept) - 1) : left[i] = t.kept[i + 1]
    BY <1>1, TailOfNumbers
  <2>5. u.kept = left /\ u.reported = IF line \in M.skips THEN t.reported ELSE Append(t.reported, line)  OBVIOUS
  <2> HIDE DEF left, line
  <2>6. r \in Nat /\ r < Len(t.listed) /\ line = t.listed[r + 1] /\ Suffix(t.listed, left, r + 1)
    <3>1. /\ r \in Nat /\ Len(t.listed) = r + Len(t.kept)
          /\ \A i \in 1..Len(t.kept) : t.kept[i] = t.listed[i + r]
      BY <1>1, <2>3, <2>4 DEF Suffix
    <3>2. r < Len(t.listed) /\ 1 \in 1..Len(t.kept) /\ 1 + r = r + 1  BY <2>4, <3>1
    <3>3. line = t.listed[r + 1]  BY <2>4, <3>1, <3>2
    <3>4. ASSUME NEW i \in 1..Len(left) PROVE left[i] = t.listed[i + (r + 1)]
      <4>1. i \in 1..(Len(t.kept) - 1) /\ i + 1 \in 1..Len(t.kept) /\ (i + 1) + r = i + (r + 1)  BY <2>4, <3>1
      <4> QED  BY <2>4, <3>1, <4>1
    <3>5. r + 1 \in Nat /\ Len(t.listed) = (r + 1) + Len(left)  BY <2>4, <3>1
    <3> QED  BY <3>1, <3>2, <3>3, <3>4, <3>5 DEF Suffix
  <2>7. Shown(M, t.listed, r + 1) <=> line \notin M.skips  BY <2>3, <2>6 DEF Shown, Sane
  <2>8. Covers(M, t.listed, u.reported, r + 1)
    <3>1. /\ Shown(M, t.listed, r + 1) => Covers(M, t.listed, Append(t.reported, t.listed[r + 1]), r + 1)
          /\ ~Shown(M, t.listed, r + 1) => Covers(M, t.listed, t.reported, r + 1)
      BY <1>1, <2>1, <2>3, <2>6, CoversOneMore
    <3>2. CASE Shown(M, t.listed, r + 1)
      <4>1. u.reported = Append(t.reported, t.listed[r + 1])  BY <2>5, <2>6, <2>7, <3>2
      <4> QED  BY <3>1, <3>2, <4>1
    <3>3. CASE ~Shown(M, t.listed, r + 1)
      <4>1. u.reported = t.reported  BY <2>5, <2>7, <3>3
      <4> QED  BY <3>1, <3>3, <4>1
    <3> QED  BY <3>2, <3>3
  <2>9. r + 1 \in 0..Len(t.listed)  BY <1>1, <2>6
  <2>10. Pass(M, "reporting", t.output, t.heads, left, t.listed, u.reported, t.cut, r + 1)
    BY <2>3, <2>6, <2>8, <2>9 DEF Pass
  <2> QED  BY <1>2, <2>1, <2>5, <2>9, <2>10, PassShown
<1>3. ASSUME M.command \notin {"listing", "query"} PROVE PassOK(M, u)  BY <1>3, NoPass, Zenon
<1> QED  BY <1>2, <1>3

\* The command is run, or the size asked for and then the data.
LEMMA StartsPass ==
    ASSUME NEW M, Sane(M), NEW rows \in Seq(Int), Sorted(rows), ~(M.command = "query"),
           NEW u, u.at = "reading", u.output = IF M.command = "listing" THEN Printed(M, rows) ELSE <<>>, u.heads = 0,
           u.kept = <<>>, u.listed = rows, u.reported = <<>>, u.cut = FALSE
    PROVE  PassOK(M, u)
<1>1. ASSUME M.command = "listing" PROVE PassOK(M, u)
  <2> DEFINE text == Printed(M, rows)
  <2>1. ToRead(M, rows, text, 0, 0)  BY NothingIsRead
  <2>2. u.output = text  BY <1>1
  <2> HIDE DEF text
  <2>3. Len(rows) \in Nat /\ Len(<<>>) = 0  BY NumbersHaveTypes
  <2>4. 0 \in 0..Len(rows)  BY <2>3
  <2>5. Covers(M, rows, <<>>, 0)  BY CoversNone
  <2>6. Pass(M, "reading", text, 0, <<>>, rows, <<>>, u.cut, 0)  BY <2>1, <2>3, <2>4, <2>5 DEF Pass
  <2> QED  BY <1>1, <2>2, <2>4, <2>6, PassShown
<1>2. ASSUME M.command \notin {"listing", "query"} PROVE PassOK(M, u)  BY <1>2, NoPass, Zenon
<1> QED  BY <1>1, <1>2

LEMMA IsSized ==
    ASSUME NEW M, NEW u, M.command = "query",
           u.at = "sized", u.heads = 0, u.listed = <<>>, u.reported = <<>>
    PROVE  PassOK(M, u)
<1>1. Len(<<>>) = 0 /\ Sorted(<<>>) /\ 0 \in 0..Len(<<>>)  BY DEF Sorted
<1>2. Pass(M, "sized", u.output, 0, u.kept, <<>>, <<>>, u.cut, 0)  BY <1>1, CoversNone DEF Pass
<1> QED  BY <1>1, <1>2, PassShown

LEMMA HasData ==
    ASSUME NEW M, Sane(M), NEW t \in Task, PassOK(M, t), t.at = "sized", NEW rows \in Seq(Int), Sorted(rows),
           NEW fits \in BOOLEAN,
           NEW u, u.at = "reading", u.output = IF fits THEN rows ELSE <<>>, u.heads = t.heads,
           u.kept = t.kept, u.listed = rows, u.reported = t.reported, u.cut = ~fits
    PROVE  PassOK(M, u)
<1>1. ASSUME M.command \in {"listing", "query"} PROVE PassOK(M, u)
  <2>1. PICK r \in 0..Len(t.listed) : Pass(M, t.at, t.output, t.heads, t.kept, t.listed, t.reported, t.cut, r)
    BY <1>1 DEF PassOK
  <2>2. M.command = "query" /\ t.heads = 0 /\ t.reported = <<>>  BY <2>1 DEF Pass
  <2>3. M.header = 0 /\ ~M.gathers  BY <2>2 DEF Sane
  <2>4. ToRead(M, rows, rows, 0, 0)  BY <2>3, NothingIsRead
  <2>5. Len(rows) \in Nat  BY NumbersHaveTypes
  <2>6. 0 \in 0..Len(rows)  BY <2>5
  <2>7. Covers(M, rows, <<>>, 0)  BY CoversNone
  <2>8. CASE fits
    <3>1. u.output = rows /\ u.cut = FALSE  BY <2>8
    <3>2. Pass(M, "reading", rows, 0, t.kept, rows, <<>>, u.cut, 0)  BY <3>1, <2>3, <2>4, <2>6, <2>7 DEF Pass
    <3> QED  BY <1>1, <2>2, <2>6, <3>1, <3>2, PassShown
  <2>9. CASE ~fits
    <3>1. u.output = <<>> /\ u.cut = TRUE  BY <2>9
    <3>2. Pass(M, "reading", <<>>, 0, t.kept, rows, <<>>, u.cut, 0)  BY <3>1, <2>3, <2>6, <2>7 DEF Pass
    <3> QED  BY <1>1, <2>2, <2>6, <3>1, <3>2, PassShown
  <2> QED  BY <2>8, <2>9
<1>2. ASSUME M.command \notin {"listing", "query"} PROVE PassOK(M, u)  BY <1>2, NoPass, Zenon
<1> QED  BY <1>1, <1>2

LEMMA GivesUp ==
    ASSUME NEW M, NEW t \in Task, PassOK(M, t),
           NEW u, u.at = "sleeping", u.cut = TRUE, u.listed = t.listed, u.reported = t.reported
    PROVE  PassOK(M, u)
<1>1. ASSUME M.command \in {"listing", "query"} PROVE PassOK(M, u)
  <2>1. /\ Sorted(t.listed)
        /\ \E r \in 0..Len(t.listed) : Pass(M, t.at, t.output, t.heads, t.kept, t.listed, t.reported, t.cut, r)
    BY <1>1 DEF PassOK
  <2>2. PICK r \in 0..Len(t.listed) : Pass(M, t.at, t.output, t.heads, t.kept, t.listed, t.reported, t.cut, r)
    BY <2>1
  <2>3. Pass(M, "sleeping", u.output, u.heads, u.kept, t.listed, t.reported, u.cut, r)  BY <2>2 DEF Pass
  <2> QED  BY <1>1, <2>1, <2>3, PassShown
<1>2. ASSUME M.command \notin {"listing", "query"} PROVE PassOK(M, u)  BY <1>2, NoPass, Zenon
<1> QED  BY <1>1, <1>2

-----------------------------------------------------------------------------
(* The steps.                                                              *)

LEMMA OneTaskChanges ==
    ASSUME MethodTypes, MethodsInv, NEW i \in Slots, NEW u \in Task,
           i \in DOMAIN Methods => PassOK(Methods[i], u), Becomes(i, u), sensor' = sensor, host' = host
    PROVE  MethodTypes' /\ MethodsInv'
<1>1. task' \in [Slots -> Task] /\ task'[i] = u /\ \A j \in Slots : j # i => task'[j] = task[j]
  BY DEF Becomes, MethodTypes
<1>2. Methods' = Methods  BY DEF Methods
<1>3. MethodTypes'  BY <1>1 DEF MethodTypes
<1>4. ASSUME NEW j \in Slots, j \in DOMAIN Methods PROVE PassOK(Methods[j], task'[j])
  <2>1. CASE j = i  BY <1>1, <1>4, <2>1
  <2>2. CASE j # i
    <3>1. PassOK(Methods[j], task[j])  BY <1>4 DEF MethodsInv
    <3> QED  BY <1>1, <2>2, <3>1
  <2> QED  BY <2>1, <2>2
<1>5. MethodsInv'  BY <1>2, <1>4 DEF MethodsInv
<1> QED  BY <1>3, <1>5

LEMMA AllAreFresh ==
    ASSUME MethodTypes, sensor' = sensor, host' = host, DOMAIN task' = Slots,
           \A j \in Slots : \E at \in Places \ {"reading", "reporting", "sized"} : task'[j] = Fresh(at),
           task' = [j \in Slots |-> task'[j]]
    PROVE  MethodTypes' /\ MethodsInv'
<1>1. ASSUME NEW M, NEW j \in Slots PROVE task'[j] \in Task /\ PassOK(M, task'[j])
  <2>1. PICK at \in Places \ {"reading", "reporting", "sized"} : task'[j] = Fresh(at)  OBVIOUS
  <2>2. at \in Places /\ at \notin {"reading", "reporting", "sized"}  OBVIOUS
  <2>3. Fresh(at) \in Task /\ PassOK(M, Fresh(at))  BY <2>2, FreshIsFine, Zenon
  <2> QED  BY <2>1, <2>3
<1>2. task' \in [Slots -> Task]  BY <1>1
<1>3. MethodTypes'  BY <1>2 DEF MethodTypes
<1>4. MethodsInv'  BY <1>1 DEF MethodsInv
<1> QED  BY <1>3, <1>4

LEMMA AllAreCancelled ==
    ASSUME MethodTypes, sensor' = sensor, host' = host, task' = [i \in Slots |-> Cancelled(i)]
    PROVE  MethodTypes' /\ MethodsInv'
<1>1. "closing" \in Places \ {"reading", "reporting", "sized"} /\ "off" \in Places \ {"reading", "reporting", "sized"}
  BY DEF Places
<1>2. \A j \in Slots : Cancelled(j) = Fresh("closing") \/ Cancelled(j) = Fresh("off")  BY Zenon DEF Cancelled
<1>3. DOMAIN task' = Slots /\ \A j \in Slots : task'[j] = Cancelled(j)  OBVIOUS
<1>4. task' = [j \in Slots |-> task'[j]]  OBVIOUS
<1>5. \A j \in Slots : \E at \in Places \ {"reading", "reporting", "sized"} : task'[j] = Fresh(at)  BY <1>1, <1>2, <1>3
<1> QED  BY <1>3, <1>4, <1>5, AllAreFresh

LEMMA AllAreStarted ==
    ASSUME MethodTypes, sensor' = sensor, host' = host,
           task' = [i \in Slots |-> Fresh(IF i \in DOMAIN Methods THEN "top" ELSE "off")]
    PROVE  MethodTypes' /\ MethodsInv'
<1>1. "top" \in Places \ {"reading", "reporting", "sized"} /\ "off" \in Places \ {"reading", "reporting", "sized"}
  BY DEF Places
<1>2. DOMAIN task' = Slots /\ \A j \in Slots : task'[j] = Fresh(IF j \in DOMAIN Methods THEN "top" ELSE "off")
  OBVIOUS
<1>3. task' = [j \in Slots |-> task'[j]]  OBVIOUS
<1>4. \A j \in Slots : (IF j \in DOMAIN Methods THEN "top" ELSE "off") \in Places \ {"reading", "reporting", "sized"}
  BY <1>1
<1>5. \A j \in Slots : \E at \in Places \ {"reading", "reporting", "sized"} : task'[j] = Fresh(at)
  BY <1>2, <1>4, Zenon
<1> QED  BY <1>2, <1>3, <1>5, AllAreFresh

LEMMA TaskKept ==
    ASSUME MethodTypes, MethodsInv, NEW i \in Slots, i \in DOMAIN Methods
    PROVE  Sane(Methods[i]) /\ task[i] \in Task /\ PassOK(Methods[i], task[i])
<1>1. Sane(Methods[i])  BY MethodsAreSane DEF MethodTypes
<1>2. task[i] \in Task  BY DEF MethodTypes
<1>3. PassOK(Methods[i], task[i])  BY DEF MethodsInv
<1> QED  BY <1>1, <1>2, <1>3

LEMMA TaskGoes ==
    ASSUME NEW t \in Task, NEW at \in Places
    PROVE  [t EXCEPT !.at = at] \in Task
BY DEF Task

\* A task leaves its loop, wakes, or has its child exit.
LEMMA MoveKeepsInv ==
    ASSUME MethodTypes, MethodsInv, NEW i \in Slots, NEW at \in {"off", "top", "ended"}, GoesTo(i, at), Goes
    PROVE  MethodTypes' /\ MethodsInv'
<1> DEFINE u == [task[i] EXCEPT !.at = at]
<1>1. Becomes(i, u) /\ sensor' = sensor /\ host' = host  BY DEF GoesTo, Goes, still
<1>2. task[i] \in Task /\ at \in Places  BY DEF MethodTypes, Places
<1>3. u \in Task  BY <1>2, TaskGoes
<1>4. ASSUME i \in DOMAIN Methods PROVE PassOK(Methods[i], u)
  <2>1. PassOK(Methods[i], task[i])  BY <1>4, TaskKept
  <2> QED  BY <1>2, <2>1, MovesOn
<1> HIDE DEF u
<1> QED  BY <1>1, <1>3, <1>4, OneTaskChanges

\* A method that does not list goes anywhere.
LEMMA OtherKeepsInv ==
    ASSUME MethodTypes, MethodsInv, NEW i \in Slots, NEW u \in Task, Becomes(i, u), sensor' = sensor, host' = host,
           Methods[i].command \notin {"listing", "query"}
    PROVE  MethodTypes' /\ MethodsInv'
<1>1. PassOK(Methods[i], u)  BY NoPass, Zenon
<1> QED  BY <1>1, OneTaskChanges

LEMMA RunKeepsInv ==
    ASSUME MethodTypes, MethodsInv, NEW i \in Slots, RunCommand(i)
    PROVE  MethodTypes' /\ MethodsInv'
<1>1. i \in DOMAIN Methods /\ Methods[i].command \in {"listing", "cycles", "packets"}  BY DEF RunCommand, Runs
<1>2. PICK rows \in Listing(host) :
          Becomes(i, [Fresh("reading") EXCEPT
                         !.output = IF Methods[i].command = "listing" THEN Printed(Methods[i], rows) ELSE <<>>,
                         !.listed = rows])
  BY DEF RunCommand
<1>3. sensor' = sensor /\ host' = host  BY DEF RunCommand, Goes, still
<1>4. Sane(Methods[i])  BY <1>1, TaskKept
<1>5. rows \in Seq(Int) /\ Sorted(rows)  BY RowsAreSorted DEF MethodTypes
<1> DEFINE text == IF Methods[i].command = "listing" THEN Printed(Methods[i], rows) ELSE <<>>
           u == [Fresh("reading") EXCEPT !.output = text, !.listed = rows]
<1>6. text \in Seq(Int)
  <2>1. Printed(Methods[i], rows) \in Seq(Int)  BY <1>4, <1>5, NothingIsRead
  <2> QED  BY <2>1
<1>7. text = IF Methods[i].command = "listing" THEN Printed(Methods[i], rows) ELSE <<>>  OBVIOUS
<1>8. Becomes(i, u)  BY <1>2, Zenon
<1> HIDE DEF text
<1>9. /\ u.at = "reading" /\ u.output = text /\ u.heads = 0 /\ u.kept = <<>> /\ u.listed = rows
      /\ u.reported = <<>> /\ u.cut = FALSE
  BY DEF Fresh
<1>10. u \in Task
  <2>1. Fresh("reading") \in Task  BY FreshIsFine DEF Places
  <2> QED  BY <1>5, <1>6, <2>1 DEF Task
<1> HIDE DEF u
<1>11. ~(Methods[i].command = "query")  BY <1>1
<1>12. PassOK(Methods[i], u)  BY <1>4, <1>5, <1>7, <1>9, <1>11, StartsPass
<1> QED  BY <1>3, <1>8, <1>10, <1>12, OneTaskChanges

LEMMA PrintsKeepsInv ==
    ASSUME MethodTypes, MethodsInv, NEW i \in Slots, ChildPrints(i)
    PROVE  MethodTypes' /\ MethodsInv'
<1>1. task[i] \in Task /\ sensor' = sensor /\ host' = host  BY DEF ChildPrints, Goes, still, MethodTypes
<1>2. ASSUME NEW text \in Seq(Int), Becomes(i, [task[i] EXCEPT !.output = text]),
             Methods[i].command \notin {"listing", "query"}
      PROVE  MethodTypes' /\ MethodsInv'
  <2>1. [task[i] EXCEPT !.output = text] \in Task  BY <1>1, <1>2 DEF Task
  <2> QED  BY <1>1, <1>2, <2>1, OtherKeepsInv
<1>3. ASSUME Methods[i].command = "cycles", NEW rows \in Listing(host),
             Becomes(i, [task[i] EXCEPT !.output = <<Header>> \o rows \o <<Separator>>])
      PROVE  MethodTypes' /\ MethodsInv'
  <2>1. rows \in Seq(Int)  BY RowsAreSorted DEF MethodTypes
  <2>2. <<Header>> \in Seq(Int) /\ <<Separator>> \in Seq(Int)  BY DEF Header, Separator
  <2> DEFINE a == <<Header>>
             b == <<Separator>>
  <2>3. a \in Seq(Int) /\ b \in Seq(Int)  BY <2>2
  <2>4. Becomes(i, [task[i] EXCEPT !.output = a \o rows \o b])  BY <1>3, Zenon
  <2> HIDE DEF a, b
  <2>5. a \o rows \o b \in Seq(Int)
    <3>1. a \o rows \in Seq(Int)  BY <2>1, <2>3, ConcatProperties
    <3> QED  BY <2>3, <3>1, ConcatProperties
  <2>6. Methods[i].command \notin {"listing", "query"}  BY <1>3
  <2> QED  BY <1>2, <2>4, <2>5, <2>6, Zenon
<1>4. ASSUME Methods[i].command = "packets", NEW e \in Entities, Becomes(i, [task[i] EXCEPT !.output = <<e>>])
      PROVE  MethodTypes' /\ MethodsInv'
  <2>1. <<e>> \in Seq(Int)  BY SensingMethodsAssumption
  <2>2. Methods[i].command \notin {"listing", "query"}  BY <1>4
  <2> QED  BY <1>2, <1>4, <2>1, <2>2, Zenon
<1> QED  BY <1>3, <1>4, Zenon DEF ChildPrints

LEMMA LineKeepsInv ==
    ASSUME MethodTypes, MethodsInv, NEW i \in Slots, ReadLine(i)
    PROVE  MethodTypes' /\ MethodsInv'
<1> DEFINE M == Methods[i]
           t == task[i]
           line == Head(t.output)
           rest == Tail(t.output)
<1>1. i \in DOMAIN Methods /\ t.at = "reading" /\ t.output # <<>>  BY DEF ReadLine, Runs
<1>2. sensor' = sensor /\ host' = host  BY DEF ReadLine, Goes, still
<1>3. Sane(M) /\ t \in Task /\ PassOK(M, t)  BY <1>1, TaskKept
<1>4. /\ t.output \in Seq(Int) /\ t.heads \in Nat /\ t.kept \in Seq(Int) /\ t.reported \in Seq(Int)
  BY <1>3, TaskFields
<1>5. rest \in Seq(Int) /\ line \in Int  BY <1>1, <1>4, TailOfNumbers
<1>6. ASSUME t.heads < M.header, Becomes(i, [t EXCEPT !.output = rest, !.heads = t.heads + 1])
      PROVE  MethodTypes' /\ MethodsInv'
  <2> DEFINE n == t.heads + 1
             left == rest
             u == [t EXCEPT !.output = left, !.heads = n]
  <2>1. n \in Nat /\ left \in Seq(Int) /\ left = Tail(t.output) /\ n = t.heads + 1 /\ Becomes(i, u)  BY <1>4, <1>5, <1>6
  <2> HIDE DEF n, left
  <2>2. u \in Task  BY <1>3, <2>1 DEF Task
  <2>3. /\ u.at = "reading" /\ u.output = left /\ u.heads = n /\ u.kept = t.kept
        /\ u.listed = t.listed /\ u.reported = t.reported /\ u.cut = t.cut
    BY <1>1, <1>3 DEF Task
  <2> HIDE DEF u
  <2>4. PassOK(M, u)  BY <1>1, <1>3, <1>6, <2>1, <2>3, ReadsHeader
  <2> QED  BY <1>2, <2>1, <2>2, <2>4, OneTaskChanges
<1>7. ASSUME t.heads = M.header, M.gathers, Becomes(i, [t EXCEPT !.output = rest, !.kept = Append(t.kept, line)])
      PROVE  MethodTypes' /\ MethodsInv'
  <2> DEFINE more == Append(t.kept, line)
             left == rest
             u == [t EXCEPT !.output = left, !.kept = more]
  <2>1. /\ more \in Seq(Int) /\ left \in Seq(Int) /\ left = Tail(t.output) /\ more = Append(t.kept, Head(t.output))
        /\ Becomes(i, u)
    BY <1>4, <1>5, <1>7, AppendedNumber
  <2> HIDE DEF more, left
  <2>2. u \in Task  BY <1>3, <2>1 DEF Task
  <2>3. /\ u.at = "reading" /\ u.output = left /\ u.heads = t.heads /\ u.kept = more
        /\ u.listed = t.listed /\ u.reported = t.reported /\ u.cut = t.cut
    BY <1>1, <1>3 DEF Task
  <2> HIDE DEF u
  <2>4. PassOK(M, u)  BY <1>1, <1>3, <1>7, <2>1, <2>3, Gathers
  <2> QED  BY <1>2, <2>1, <2>2, <2>4, OneTaskChanges
<1>8. ASSUME t.heads = M.header, ~M.gathers,
             Becomes(i, [t EXCEPT !.output = rest,
                                  !.reported = IF line \in M.skips \/ (M.late /\ rest = <<>>) THEN t.reported
                                               ELSE Reported(i, line)])
      PROVE  MethodTypes' /\ MethodsInv'
  <2> DEFINE told == IF line \in M.skips \/ (M.late /\ rest = <<>>) THEN t.reported ELSE Reported(i, line)
             left == rest
             u == [t EXCEPT !.output = left, !.reported = told]
  <2>1. left \in Seq(Int) /\ left = Tail(t.output) /\ Becomes(i, u)  BY <1>5, <1>8
  <2>2. told \in Seq(Int)
    <3>1. Append(t.reported, line) \in Seq(Int) /\ <<line>> \in Seq(Int)  BY <1>4, <1>5, AppendedNumber
    <3>2. Reported(i, line) \in Seq(Int)  BY <3>1 DEF Reported
    <3> QED  BY <1>4, <3>2
  <2>3. M.command \in {"listing", "query"} =>
            told = IF Head(t.output) \in M.skips \/ (M.late /\ Tail(t.output) = <<>>) THEN t.reported
                   ELSE Append(t.reported, Head(t.output))
    BY DEF Reported
  <2> HIDE DEF told, left
  <2>4. u \in Task  BY <1>3, <2>1, <2>2 DEF Task
  <2>5. /\ u.at = "reading" /\ u.output = left /\ u.heads = t.heads /\ u.kept = t.kept
        /\ u.listed = t.listed /\ u.reported = told /\ u.cut = t.cut
    BY <1>1, <1>3 DEF Task
  <2> HIDE DEF u
  <2>6. ASSUME M.command \in {"listing", "query"} PROVE PassOK(M, u)
    BY <1>1, <1>3, <1>8, <2>1, <2>3, <2>5, <2>6, ReadsRow
  <2>7. ASSUME M.command \notin {"listing", "query"} PROVE PassOK(M, u)  BY <2>7, NoPass, Zenon
  <2> QED  BY <1>2, <2>1, <2>4, <2>6, <2>7, OneTaskChanges
<1>9. \/ t.heads < M.header /\ Becomes(i, [t EXCEPT !.output = rest, !.heads = t.heads + 1])
      \/ /\ t.heads = M.header /\ M.gathers
         /\ Becomes(i, [t EXCEPT !.output = rest, !.kept = Append(t.kept, line)])
      \/ /\ t.heads = M.header /\ ~M.gathers
         /\ Becomes(i, [t EXCEPT !.output = rest,
                                 !.reported = IF line \in M.skips \/ (M.late /\ rest = <<>>) THEN t.reported
                                              ELSE Reported(i, line)])
  BY DEF ReadLine
<1> HIDE DEF M, t, line, rest
<1> QED  BY <1>6, <1>7, <1>8, <1>9, Zenon

LEMMA DoneKeepsInv ==
    ASSUME MethodTypes, MethodsInv, NEW i \in Slots, EndOfOutput(i)
    PROVE  MethodTypes' /\ MethodsInv'
<1> DEFINE at == IF Methods[i].gathers THEN "reporting" ELSE "sleeping"
           u == [task[i] EXCEPT !.at = at]
<1>1. i \in DOMAIN Methods /\ task[i].at = "reading" /\ task[i].output = <<>>  BY DEF EndOfOutput, Runs
<1>2. sensor' = sensor /\ host' = host /\ Becomes(i, u)  BY DEF EndOfOutput, Goes, still, GoesTo
<1>3. Sane(Methods[i]) /\ task[i] \in Task /\ PassOK(Methods[i], task[i])  BY <1>1, TaskKept
<1>4. at = IF Methods[i].gathers THEN "reporting" ELSE "sleeping"  OBVIOUS
<1> HIDE DEF at
<1>5. u \in Task /\ PassOK(Methods[i], u)  BY <1>1, <1>3, <1>4, OutputEnds
<1> HIDE DEF u
<1> QED  BY <1>2, <1>5, OneTaskChanges

LEMMA ReportKeepsInv ==
    ASSUME MethodTypes, MethodsInv, NEW i \in Slots, ReportLine(i)
    PROVE  MethodTypes' /\ MethodsInv'
<1> DEFINE M == Methods[i]
           t == task[i]
           line == Head(t.kept)
<1>1. i \in DOMAIN Methods /\ t.at = "reporting"  BY DEF ReportLine, Runs
<1>2. sensor' = sensor /\ host' = host /\ Goes  BY DEF ReportLine, Goes, still
<1>3. Sane(M) /\ t \in Task /\ PassOK(M, t)  BY <1>1, TaskKept
<1>4. t.kept \in Seq(Int) /\ t.reported \in Seq(Int)  BY <1>3, TaskFields
<1>5. ASSUME t.kept = <<>>, GoesTo(i, IF M.loop = "once" THEN "ended" ELSE "sleeping")
      PROVE  MethodTypes' /\ MethodsInv'
  <2>1. CASE M.loop = "once"
    <3>1. GoesTo(i, "ended")  BY <1>5, <2>1
    <3> QED  BY <1>2, <3>1, MoveKeepsInv
  <2>2. CASE M.loop # "once"
    <3> DEFINE u == [t EXCEPT !.at = "sleeping"]
    <3>1. Becomes(i, u)  BY <1>5, <2>2 DEF GoesTo
    <3>2. u \in Task /\ PassOK(M, u)  BY <1>1, <1>3, <1>5, ReportEnds
    <3> HIDE DEF u
    <3> QED  BY <1>2, <3>1, <3>2, OneTaskChanges
  <2> QED  BY <2>1, <2>2
<1>6. ASSUME t.kept # <<>>,
             Becomes(i, [t EXCEPT !.kept = Tail(t.kept),
                                  !.reported = IF line \in M.skips THEN t.reported ELSE Reported(i, line)])
      PROVE  MethodTypes' /\ MethodsInv'
  <2> DEFINE told == IF line \in M.skips THEN t.reported ELSE Reported(i, line)
             left == Tail(t.kept)
             u == [t EXCEPT !.kept = left, !.reported = told]
  <2>1. left \in Seq(Int) /\ line \in Int /\ left = Tail(t.kept) /\ Becomes(i, u)  BY <1>4, <1>6, TailOfNumbers
  <2>2. told \in Seq(Int)
    <3>1. Append(t.reported, line) \in Seq(Int) /\ <<line>> \in Seq(Int)  BY <1>4, <2>1, AppendedNumber
    <3>2. Reported(i, line) \in Seq(Int)  BY <3>1 DEF Reported
    <3> QED  BY <1>4, <3>2
  <2>3. M.command \in {"listing", "query"} =>
            told = IF Head(t.kept) \in M.skips THEN t.reported ELSE Append(t.reported, Head(t.kept))
    BY DEF Reported
  <2> HIDE DEF told, left
  <2>4. u \in Task  BY <1>3, <2>1, <2>2 DEF Task
  <2>5. /\ u.at = "reporting" /\ u.output = t.output /\ u.heads = t.heads /\ u.kept = left
        /\ u.listed = t.listed /\ u.reported = told /\ u.cut = t.cut
    BY <1>1, <1>3 DEF Task
  <2> HIDE DEF u
  <2>6. ASSUME M.command \in {"listing", "query"} PROVE PassOK(M, u)
    BY <1>1, <1>3, <1>6, <2>1, <2>3, <2>5, <2>6, ReportsKept
  <2>7. ASSUME M.command \notin {"listing", "query"} PROVE PassOK(M, u)  BY <2>7, NoPass, Zenon
  <2> QED  BY <1>2, <2>1, <2>4, <2>6, <2>7, OneTaskChanges
<1> QED  BY <1>5, <1>6 DEF ReportLine

LEMMA SizeKeepsInv ==
    ASSUME MethodTypes, MethodsInv, NEW i \in Slots, QuerySize(i)
    PROVE  MethodTypes' /\ MethodsInv'
<1> DEFINE n == Cardinality(host)
           u == [Fresh("sized") EXCEPT !.need = n]
<1>1. Methods[i].command = "query" /\ sensor' = sensor /\ host' = host /\ Becomes(i, u)
  BY DEF QuerySize, Goes, still
<1>2. n \in Nat
  <2>1. IsFiniteSet(host)  BY SensingMethodsAssumption, FS_Subset DEF MethodTypes
  <2> QED  BY <2>1, FS_CardinalityType
<1> HIDE DEF n
<1>3. u \in Task
  <2>1. Fresh("sized") \in Task  BY FreshIsFine DEF Places
  <2> QED  BY <1>2, <2>1 DEF Task
<1>4. u.at = "sized" /\ u.heads = 0 /\ u.listed = <<>> /\ u.reported = <<>>  BY DEF Fresh
<1> HIDE DEF u
<1>5. PassOK(Methods[i], u)  BY <1>1, <1>4, IsSized
<1> QED  BY <1>1, <1>3, <1>5, OneTaskChanges

LEMMA DataKeepsInv ==
    ASSUME MethodTypes, MethodsInv, NEW i \in Slots, QueryData(i)
    PROVE  MethodTypes' /\ MethodsInv'
<1> DEFINE t == task[i]
           fits == Cardinality(host) <= t.need
<1>1. i \in DOMAIN Methods /\ t.at = "sized" /\ sensor' = sensor /\ host' = host  BY DEF QueryData, Runs, Goes, still
<1>2. PICK rows \in Listing(host) :
          Becomes(i, [t EXCEPT !.at = "reading", !.output = IF fits THEN rows ELSE <<>>, !.listed = rows,
                               !.cut = ~fits])
  BY DEF QueryData
<1>3. Sane(Methods[i]) /\ t \in Task /\ PassOK(Methods[i], t)  BY <1>1, TaskKept
<1>4. rows \in Seq(Int) /\ Sorted(rows)  BY RowsAreSorted DEF MethodTypes
<1>5. fits \in BOOLEAN  OBVIOUS
<1> HIDE DEF fits
<1> DEFINE text == IF fits THEN rows ELSE <<>>
           short == ~fits
           u == [t EXCEPT !.at = "reading", !.output = text, !.listed = rows, !.cut = short]
<1>6. text \in Seq(Int) /\ short \in BOOLEAN  BY <1>4, <1>5
<1>7. Becomes(i, u)  BY <1>2, Zenon
<1>8. text = (IF fits THEN rows ELSE <<>>) /\ short = ~fits  OBVIOUS
<1> HIDE DEF text, short
<1>9. u \in Task  BY <1>3, <1>4, <1>6 DEF Task, Places
<1>10. /\ u.at = "reading" /\ u.output = text /\ u.heads = t.heads /\ u.kept = t.kept
       /\ u.listed = rows /\ u.reported = t.reported
  BY <1>3 DEF Task
<1>11. u.cut = short  BY <1>3 DEF Task
<1> HIDE DEF u
<1>12. u.cut = ~fits  BY <1>8, <1>11, Zenon
<1>13. PassOK(Methods[i], u)  BY <1>1, <1>3, <1>4, <1>5, <1>8, <1>10, <1>12, HasData
<1> QED  BY <1>1, <1>7, <1>9, <1>13, OneTaskChanges

LEMMA FailKeepsInv ==
    ASSUME MethodTypes, MethodsInv, NEW i \in Slots, QueryFails(i)
    PROVE  MethodTypes' /\ MethodsInv'
<1> DEFINE t == task[i]
           u == [t EXCEPT !.at = "sleeping", !.output = <<>>, !.cut = TRUE]
<1>1. i \in DOMAIN Methods /\ sensor' = sensor /\ host' = host /\ Becomes(i, u)  BY DEF QueryFails, Runs, still
<1>2. t \in Task /\ PassOK(Methods[i], t)  BY <1>1, TaskKept
<1>3. u \in Task
  <2>1. <<>> \in Seq(Int) /\ TRUE \in BOOLEAN /\ "sleeping" \in Places  BY DEF Places
  <2> QED  BY <1>2, <2>1 DEF Task
<1>4. u.at = "sleeping" /\ u.cut = TRUE /\ u.listed = t.listed /\ u.reported = t.reported  BY <1>2 DEF Task
<1> HIDE DEF u
<1>5. PassOK(Methods[i], u)  BY <1>2, <1>4, GivesUp
<1> QED  BY <1>1, <1>3, <1>5, OneTaskChanges

\* A pass tells what there was to list, as far as it has come.
LEMMA MethodsInvariant == MethodsSpec => [](MethodTypes /\ MethodsInv)
<1>1. MethodsInit => MethodTypes /\ MethodsInv
  <2> SUFFICES ASSUME MethodsInit PROVE MethodTypes /\ MethodsInv  OBVIOUS
  <2>1. \A M : Fresh("off") \in Task /\ PassOK(M, Fresh("off"))
    <3>1. "off" \in Places /\ "off" \notin {"reading", "reporting", "sized"}  BY DEF Places
    <3> QED  BY <3>1, FreshIsFine, Zenon
  <2>2. task \in [Slots -> Task] /\ \A i \in Slots : task[i] = Fresh("off")  BY <2>1 DEF MethodsInit
  <2>3. MethodTypes  BY <2>2 DEF MethodsInit, MethodTypes
  <2>4. MethodsInv  BY <2>1, <2>2 DEF MethodsInv
  <2> QED  BY <2>3, <2>4
<1>2. MethodTypes /\ MethodsInv /\ [MethodsNext]_methodVars => (MethodTypes /\ MethodsInv)'
  <2> SUFFICES ASSUME MethodTypes, MethodsInv, [MethodsNext]_methodVars
               PROVE  MethodTypes' /\ MethodsInv'
    OBVIOUS
  <2>1. ASSUME UNCHANGED <<sensor, task>>, host' \subseteq Entities PROVE MethodTypes' /\ MethodsInv'
    BY <2>1 DEF MethodTypes, MethodsInv, Methods
  <2>2. CASE UNCHANGED methodVars  BY <2>1, <2>2 DEF methodVars, MethodTypes
  <2>3. CASE Start
    <3>1. CASE Sensors[sensor].sections \subseteq config
      BY <2>3, <3>1, AllAreStarted DEF Start, still
    <3>2. CASE ~(Sensors[sensor].sections \subseteq config)
      BY <2>1, <2>3, <3>2 DEF Start, still, MethodTypes
    <3> QED  BY <3>1, <3>2
  <2>4. CASE Stop  BY <2>1, <2>4 DEF Stop, MethodTypes
  <2>5. CASE Actuate  BY <2>5, AllAreCancelled DEF Actuate, still
  <2>6. CASE Restart  BY <2>6, AllAreStarted DEF Restart, still
  <2>7. CASE HostChanges  BY <2>1, <2>7 DEF HostChanges, still, MethodTypes
  <2>8. ASSUME NEW i \in Slots, Leave(i) PROVE MethodTypes' /\ MethodsInv'  BY <2>8, MoveKeepsInv DEF Leave
  <2>9. ASSUME NEW i \in Slots, RunCommand(i) PROVE MethodTypes' /\ MethodsInv'  BY <2>9, RunKeepsInv
  <2>10. ASSUME NEW i \in Slots, ReportProfile(i) PROVE MethodTypes' /\ MethodsInv'
    <3>1. [task[i] EXCEPT !.at = "sleeping"] \in Task  BY TaskGoes DEF MethodTypes, Places
    <3> QED  BY <2>10, <3>1, OtherKeepsInv DEF ReportProfile, GoesTo, Goes, still
  <2>11. ASSUME NEW i \in Slots, ChildPrints(i) PROVE MethodTypes' /\ MethodsInv'  BY <2>11, PrintsKeepsInv
  <2>12. ASSUME NEW i \in Slots, ReadLine(i) PROVE MethodTypes' /\ MethodsInv'  BY <2>12, LineKeepsInv
  <2>13. ASSUME NEW i \in Slots, EndOfOutput(i) PROVE MethodTypes' /\ MethodsInv'  BY <2>13, DoneKeepsInv
  <2>14. ASSUME NEW i \in Slots, ReportLine(i) PROVE MethodTypes' /\ MethodsInv'  BY <2>14, ReportKeepsInv
  <2>15. ASSUME NEW i \in Slots, QuerySize(i) PROVE MethodTypes' /\ MethodsInv'  BY <2>15, SizeKeepsInv
  <2>16. ASSUME NEW i \in Slots, QueryData(i) PROVE MethodTypes' /\ MethodsInv'  BY <2>16, DataKeepsInv
  <2>17. ASSUME NEW i \in Slots, Wake(i) PROVE MethodTypes' /\ MethodsInv'  BY <2>17, MoveKeepsInv DEF Wake
  <2>18. ASSUME NEW i \in Slots, Unfound(i) PROVE MethodTypes' /\ MethodsInv'
    BY <2>18, AllAreCancelled DEF Unfound, Fail, still
  <2>19. ASSUME NEW i \in Slots, ChildExits(i) PROVE MethodTypes' /\ MethodsInv'
    BY <2>19, MoveKeepsInv DEF ChildExits
  <2>20. ASSUME NEW i \in Slots, Malformed(i) PROVE MethodTypes' /\ MethodsInv'
    BY <2>20, AllAreCancelled DEF Malformed, Fail, still
  <2>21. ASSUME NEW i \in Slots, ChildEnds(i) PROVE MethodTypes' /\ MethodsInv'
    <3> DEFINE at == IF Methods[i].gathers THEN "reporting" ELSE "ended"
               u == [task[i] EXCEPT !.at = at]
    <3>1. at \in Places /\ task[i] \in Task  BY DEF Places, MethodTypes
    <3>2. u \in Task  BY <3>1, TaskGoes
    <3>3. Becomes(i, u) /\ sensor' = sensor /\ host' = host /\ Methods[i].command \notin {"listing", "query"}
      BY <2>21 DEF ChildEnds, GoesTo, still
    <3> HIDE DEF u
    <3> QED  BY <3>2, <3>3, OtherKeepsInv
  <2>22. ASSUME NEW i \in Slots, QueryFails(i) PROVE MethodTypes' /\ MethodsInv'  BY <2>22, FailKeepsInv
  <2> QED  BY <2>2, <2>3, <2>4, <2>5, <2>6, <2>7, <2>8, <2>9, <2>10, <2>11, <2>12, <2>13, <2>14, <2>15, <2>16,
              <2>17, <2>18, <2>19, <2>20, <2>21, <2>22
           DEF MethodsNext, TaskStep
<1> QED  BY <1>1, <1>2, PTL DEF MethodsSpec

LEMMA MethodsInvIsEnough == MethodTypes /\ MethodsInv => PassReports
<1> SUFFICES ASSUME MethodTypes, MethodsInv, NEW i \in DOMAIN Methods, Methods[i].command \in {"listing", "query"}
             PROVE  LET all == Expected(Methods[i], task[i].listed)
                        told == task[i].reported
                    IN  /\ ToSet(told) \subseteq all
                        /\ \A a, b \in DOMAIN told : a < b => told[a] < told[b]
                        /\ \A row \in all, a \in DOMAIN told : row < told[a] => row \in ToSet(told)
                        /\ task[i].at = "sleeping" /\ ~task[i].cut => ToSet(told) = all
  BY DEF PassReports
<1> DEFINE M == Methods[i]
           rows == task[i].listed
           told == task[i].reported
           all == Expected(M, rows)
<1>1. i \in Slots
  <2>1. sensor \in DOMAIN Sensors  BY DEF MethodTypes
  <2> QED  BY <2>1, TwoMethods DEF Slots
<1>2. task[i] \in Task /\ PassOK(M, task[i])  BY <1>1, TaskKept
<1>3. /\ rows \in Seq(Int) /\ told \in Seq(Int) /\ DOMAIN rows = 1..Len(rows) /\ DOMAIN told = 1..Len(told)
      /\ Len(rows) \in Nat /\ Len(told) \in Nat /\ \A j \in 1..Len(rows) : rows[j] \in Int
  <2>1. rows \in Seq(Int) /\ told \in Seq(Int)  BY <1>2, TaskFields
  <2> QED  BY <2>1, NumbersHaveTypes
<1>4. Sorted(rows) /\ \E r \in 0..Len(rows) :
                         /\ Covers(M, rows, told, r)
                         /\ task[i].at = "sleeping" /\ ~task[i].cut => r = Len(rows)
  BY <1>2 DEF PassOK, Pass
<1>5. PICK r \in 0..Len(rows) : /\ Covers(M, rows, told, r)
                                /\ task[i].at = "sleeping" /\ ~task[i].cut => r = Len(rows)
  BY <1>4
<1>6. ToSet(told) = {told[a] : a \in 1..Len(told)}  BY <1>3 DEF ToSet
<1>7. \A row : row \in all <=> \E j \in 1..Len(rows) : row = rows[j] /\ Shown(M, rows, j)
  BY <1>3 DEF Expected, Shown
<1> HIDE DEF all, rows, told, M
<1>8. \A j \in 1..r : j \in 1..Len(rows)  BY <1>3
<1>9. ToSet(told) \subseteq all
  <2>1. ASSUME NEW a \in 1..Len(told) PROVE told[a] \in all
    <3>1. PICK j \in 1..r : told[a] = rows[j] /\ Shown(M, rows, j)  BY <1>5 DEF Covers
    <3> QED  BY <1>7, <1>8, <3>1
  <2> QED  BY <1>6, <2>1
<1>10. \A a, b \in DOMAIN told : a < b => told[a] < told[b]  BY <1>3, <1>5 DEF Covers
<1>11. ASSUME NEW j \in 1..r, Shown(M, rows, j) PROVE rows[j] \in ToSet(told)  BY <1>5, <1>6, <1>11, SMTT(30) DEF Covers
<1>12. ASSUME NEW row \in all, NEW a \in DOMAIN told, row < told[a] PROVE row \in ToSet(told)
  <2>1. PICK j \in 1..Len(rows) : row = rows[j] /\ Shown(M, rows, j)  BY <1>7
  <2>2. PICK k \in 1..r : told[a] = rows[k]  BY <1>3, <1>5 DEF Covers
  <2>3. ~(k < j) => j \in 1..r  BY <1>3
  <2>4. k < j => rows[k] < rows[j]  BY <1>4, <1>8 DEF Sorted
  <2>5. rows[k] \in Int /\ rows[j] \in Int /\ rows[j] < rows[k]  BY <1>3, <1>8, <1>12, <2>1, <2>2
  <2>6. ~(rows[k] < rows[j])  BY <2>5
  <2> QED  BY <1>11, <2>1, <2>3, <2>4, <2>6
<1>13. ASSUME task[i].at = "sleeping", ~task[i].cut PROVE ToSet(told) = all
  <2>1. r = Len(rows)  BY <1>5, <1>13
  <2>2. all \subseteq ToSet(told)  BY <1>7, <1>11, <2>1
  <2> QED  BY <1>9, <2>2
<1> QED  BY <1>9, <1>10, <1>12, <1>13 DEF all, rows, told, M

(* The sensing methods of the ps, netstat, handle, tasklist and process sensors: a pass   *)
(* reports the rows there were when it listed them, each once and in their order, whatever  *)
(* changes on the host, is cancelled, or fails meanwhile; the only pass that leaves text     *)
(* rows is that of a query which failed or was given too little space.                      *)
THEOREM PassesReport == MethodsSpec => []PassReports
BY MethodsInvariant, MethodsInvIsEnough, PTL

-----------------------------------------------------------------------------
(* The suite.                                                              *)

(* A process runs one of the sensor programs: what it does is a behaviour of each of the   *)
(* programs, of which the others stay where they start.                                    *)
THEOREM SuiteRunsPrograms == SuiteSpec => MethodsSpec /\ RelaySpec /\ BccSpec /\ BridgeSpec
<1>1. SuiteInit => MethodsInit /\ RelayInit /\ BccInit /\ BridgeInit  BY DEF SuiteInit
<1>2. ASSUME [SuiteNext]_suiteVars
      PROVE  [MethodsNext]_methodVars /\ [RelayNext]_relayVars /\ [BccNext]_bccVars /\ [BridgeNext]_bridgeVars
  <2>1. CASE UNCHANGED suiteVars  BY <2>1, Zenon DEF suiteVars
  <2>2. CASE program = "methods" /\ MethodsNext /\ UNCHANGED <<program, relayVars, bccVars, bridgeVars>>
    BY <2>2, Zenon
  <2>3. CASE program = "relay" /\ RelayNext /\ UNCHANGED <<program, methodVars, bccVars, bridgeVars>>
    BY <2>3, Zenon
  <2>4. CASE program = "bcc" /\ BccNext /\ UNCHANGED <<program, methodVars, relayVars, bridgeVars>>
    BY <2>4, Zenon
  <2>5. CASE program = "bridge" /\ BridgeNext /\ UNCHANGED <<program, methodVars, relayVars, bccVars>>
    BY <2>5, Zenon
  <2> QED  BY <1>2, <2>1, <2>2, <2>3, <2>4, <2>5, Zenon DEF SuiteNext
<1> QED  BY <1>1, <1>2, PTL DEF SuiteSpec, MethodsSpec, RelaySpec, BccSpec, BridgeSpec

(* So all that is proved of the sensing methods, the kernel relay, the BCC sensor and the *)
(* desktop bridge holds of the specification whose instance TLC checks.                   *)
THEOREM SuiteCorrect ==
    SuiteSpec =>
        [](/\ PassReports /\ EndsOnlyCut /\ RelayKeepsAll /\ EachLineOnce
           /\ OneEndAtTheEnd /\ CleanIsForwarded)
BY SuiteRunsPrograms, PassesReport, RelayEndsOnlyCut, RelayCorrect, LinesAreRelayed, EndComesLast,
   CleanClientsAreServed, PTL

(* Both programs are channels as programs of the suite.                                   *)
THEOREM ChannelsAreImplemented == SuiteSpec => ImplementsChannel
BY SuiteRunsPrograms, BridgeIsChannel, BccIsChannel, PTL DEF ImplementsChannel
=============================================================================
