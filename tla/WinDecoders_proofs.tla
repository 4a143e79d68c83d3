------------------------- MODULE WinDecoders_proofs -------------------------
(* What the Windows service reads is what the driver wrote, for names of any   *)
(* length and any code units, commands with any data and pointers of any width. *)
(* Structures are compared through the places of their fields: the offsets,     *)
(* by index, that the declaration gives them.                                   *)
EXTENDS WinDecoders, TLAPS, WellFoundedInduction, NaturalsInduction, SequenceTheorems

-----------------------------------------------------------------------------
(* Numbers.                                                                  *)

Below == {pair \in Nat \X Nat : pair[1] < pair[2]}

\* A set of natural numbers has a least one.
LEMMA Least ==
    ASSUME NEW S, S \subseteq Nat, S # {}
    PROVE  \E x \in S : \A y \in S : x <= y
<1>1. IsWellFoundedOn(Below, Nat)  BY NatLessThanWellFounded DEF OpToRel, Below
<1>2. PICK x \in S : \A y \in S : <<y, x>> \notin Below  BY <1>1, WFMin
<1>3. ASSUME NEW y \in S PROVE x <= y
  <2>1. x \in Nat /\ y \in Nat  OBVIOUS
  <2>2. y < x => <<y, x>> \in Below  BY <2>1 DEF Below
  <2> QED  BY <1>2, <2>1, <2>2
<1> QED  BY <1>3

\* A set that has 1, and with i also i + 1, has all numbers up to a limit.
LEMMA UpTo ==
    ASSUME NEW S, NEW n \in Nat, n >= 1 => 1 \in S,
           \A i \in 1..n : i > 1 /\ i - 1 \in S => i \in S
    PROVE  \A i \in 1..n : i \in S
<1> DEFINE Missing == {i \in 1..n : i \notin S}
<1>1. SUFFICES ASSUME Missing # {} PROVE FALSE  OBVIOUS
<1>2. PICK m \in Missing : \A k \in Missing : m <= k
  <2>1. Missing \subseteq Nat  OBVIOUS
  <2> HIDE DEF Missing
  <2> QED  BY <1>1, <2>1, Least
<1>3. m \in 1..n /\ m \notin S /\ m # 1  BY <1>2
<1>4. m - 1 \in 1..n /\ m - 1 \notin Missing  BY <1>2, <1>3
<1> QED  BY <1>3, <1>4

\* RoundUp gives a number that is not smaller.
LEMMA RoundsUp ==
    ASSUME NEW n \in Nat, NEW m \in Nat \ {0}
    PROVE  RoundUp(n, m) \in Nat /\ RoundUp(n, m) >= n
BY DEF RoundUp

-----------------------------------------------------------------------------
(* Structures.                                                               *)

\* The fields of a declaration, in order and with their types.
Declared(fields) ==
    /\ Len(fields) \in Nat \ {0} /\ DOMAIN fields = 1..Len(fields)
    /\ \A i \in 1..Len(fields) : fields[i][2].size \in Nat /\ fields[i][2].align \in Nat \ {0}

\* What Structure computes the offset of field i from, given those of the others.
PlaceOf(fields, off, i) ==
    IF i = 1 THEN 0 ELSE RoundUp(off[i - 1] + fields[i - 1][2].size, fields[i][2].align)
Places(fields, off) ==
    /\ off = [i \in 1..Len(fields) |-> off[i]]
    /\ \A i \in 1..Len(fields) : off[i] \in Nat /\ off[i] = PlaceOf(fields, off, i)

\* Only one function gives the fields their places.
LEMMA PlacesUnique ==
    ASSUME NEW fields, Declared(fields), NEW off, Places(fields, off),
           NEW f, f = [i \in 1..Len(fields) |-> PlaceOf(fields, f, i)]
    PROVE  f = off
<1> DEFINE n == Len(fields)
           Same == {i \in 1..n : f[i] = off[i]}
<1>1. n \in Nat  BY DEF Declared
<1>2. n >= 1 => 1 \in Same
  <2>1. SUFFICES ASSUME 1 \in 1..n PROVE f[1] = off[1]  BY <1>1
  <2>2. f[1] = PlaceOf(fields, f, 1)  BY <2>1
  <2> QED  BY <2>1, <2>2 DEF Places, PlaceOf
<1>3. ASSUME NEW i \in 1..n, i > 1, i - 1 \in Same PROVE i \in Same
  <2>1. f[i] = PlaceOf(fields, f, i)  OBVIOUS
  <2>2. off[i] = PlaceOf(fields, off, i)  BY DEF Places
  <2>3. f[i - 1] = off[i - 1]  BY <1>3
  <2> QED  BY <2>1, <2>2, <2>3 DEF PlaceOf
<1>4. \A i \in 1..n : i \in Same
  <2> HIDE DEF Same, n
  <2> QED  BY <1>1, <1>2, <1>3, UpTo
<1>5. \A i \in 1..Len(fields) : f[i] = off[i]  BY <1>4
<1>6. f = [i \in 1..Len(fields) |-> f[i]]  OBVIOUS
<1> QED  BY <1>5, <1>6 DEF Places

\* Every declaration has places for its fields.
LEMMA PlacesExist ==
    ASSUME NEW fields, Declared(fields)
    PROVE  \E off : Places(fields, off)
<1> DEFINE n == Len(fields)
           Upto(f, k) == /\ f = [i \in 1..k |-> f[i]]
                         /\ \A i \in 1..k : f[i] \in Nat /\ f[i] = PlaceOf(fields, f, i)
           Good == {k \in 1..n : \E f : Upto(f, k)}
<1>1. n \in Nat \ {0}  BY DEF Declared
<1>2. 1 \in Good
  <2> DEFINE f == [i \in 1..1 |-> 0]
  <2>1. Upto(f, 1)  BY DEF PlaceOf
  <2> QED  BY <1>1, <2>1
<1>3. ASSUME NEW k \in 1..n, k > 1, k - 1 \in Good PROVE k \in Good
  <2>1. PICK f : Upto(f, k - 1)  BY <1>3
  <2> DEFINE new == PlaceOf(fields, f, k)
             g == [i \in 1..k |-> IF i = k THEN new ELSE f[i]]
  <2>2. k \in Nat /\ k - 1 \in 1..(k - 1) /\ k - 1 \in 1..n  BY <1>1, <1>3
  <2>3. new \in Nat
    <3>1. f[k - 1] \in Nat  BY <2>1, <2>2
    <3>2. fields[k - 1][2].size \in Nat /\ fields[k][2].align \in Nat \ {0}  BY <2>2 DEF Declared
    <3>3. f[k - 1] + fields[k - 1][2].size \in Nat  BY <3>1, <3>2
    <3> QED  BY <1>3, <3>2, <3>3, RoundsUp DEF PlaceOf
  <2>4. ASSUME NEW i \in 1..k PROVE g[i] \in Nat /\ g[i] = PlaceOf(fields, g, i)
    <3>1. CASE i = k
      <4>1. g[i] = new /\ g[k - 1] = f[k - 1]  BY <2>2, <3>1
      <4> HIDE DEF g
      <4> QED  BY <2>3, <3>1, <4>1 DEF PlaceOf
    <3>2. CASE i # k
      <4>1. i \in 1..(k - 1)  BY <2>2, <3>2
      <4>2. g[i] = f[i] /\ (i # 1 => g[i - 1] = f[i - 1])  BY <2>2, <3>2
      <4>3. f[i] \in Nat /\ f[i] = PlaceOf(fields, f, i)  BY <2>1, <4>1
      <4> HIDE DEF g
      <4> QED  BY <4>2, <4>3 DEF PlaceOf
    <3> QED  BY <3>1, <3>2
  <2>5. g = [i \in 1..k |-> g[i]]  OBVIOUS
  <2> HIDE DEF g
  <2>6. Upto(g, k)  BY <2>4, <2>5
  <2> HIDE DEF Upto
  <2> QED  BY <2>6
<1>4. n \in Good
  <2> HIDE DEF Good, n
  <2>1. \A i \in 1..n : i \in Good  BY <1>1, <1>2, <1>3, UpTo
  <2> QED  BY <1>1, <2>1
<1>5. PICK f : Upto(f, n)  BY <1>4
<1> QED  BY <1>5 DEF Places

\* No two fields have one name.
Distinct(fields) == \A i, j \in 1..Len(fields) : fields[i][1] = fields[j][1] => i = j
\* The largest alignment.
Widest(fields, a) ==
    /\ \E i \in 1..Len(fields) : fields[i][2].align = a
    /\ \A i \in 1..Len(fields) : fields[i][2].align <= a

\* Size and alignment, and the offset and the width of each field.
Laid(s, fields, off, a) ==
    /\ s.align = a /\ s.size = RoundUp(off[Len(fields)] + fields[Len(fields)][2].size, a)
    /\ DOMAIN s.offset = {fields[i][1] : i \in 1..Len(fields)}
    /\ \A i \in 1..Len(fields) : s.offset[fields[i][1]] = off[i] /\ s.width[fields[i][1]] = fields[i][2].size

\* Structure lays the fields out at their places.
LEMMA StructureIs ==
    ASSUME NEW fields, Declared(fields), Distinct(fields), NEW off, Places(fields, off),
           NEW a, Widest(fields, a)
    PROVE  Laid(Structure(fields), fields, off, a)
<1> DEFINE n == Len(fields)
           Rule(f) == f = [i \in 1..n |-> IF i = 1 THEN 0
                             ELSE RoundUp(f[i - 1] + fields[i - 1][2].size, fields[i][2].align)]
           offset == CHOOSE f : Rule(f)
           align == CHOOSE b \in {fields[i][2].align : i \in DOMAIN fields} :
                       \A i \in DOMAIN fields : fields[i][2].align <= b
           At(f) == CHOOSE i \in DOMAIN fields : fields[i][1] = f
           names == {fields[i][1] : i \in DOMAIN fields}
<1>0. DOMAIN fields = 1..n /\ n \in Nat \ {0}  BY DEF Declared
<1>1. offset = off
  <2>1. Rule(off)
    <3>1. off = [i \in 1..n |-> PlaceOf(fields, off, i)]  BY DEF Places
    <3> QED  BY <3>1 DEF PlaceOf
  <2>2. Rule(offset)
    <3> HIDE DEF Rule
    <3> QED  BY <2>1
  <2>3. offset = [i \in 1..n |-> PlaceOf(fields, offset, i)]  BY <2>2 DEF PlaceOf
  <2> HIDE DEF offset
  <2> QED  BY <2>3, PlacesUnique
<1>2. align = a
  <2>1. a \in {fields[i][2].align : i \in DOMAIN fields} /\ \A i \in DOMAIN fields : fields[i][2].align <= a
    BY <1>0 DEF Widest
  <2>2. align \in {fields[i][2].align : i \in DOMAIN fields} /\ \A i \in DOMAIN fields : fields[i][2].align <= align
    BY <2>1
  <2> HIDE DEF align
  <2>3. align <= a /\ a <= align  BY <2>1, <2>2
  <2>4. align \in Nat /\ a \in Nat  BY <1>0, <2>1, <2>2 DEF Declared
  <2> QED  BY <2>3, <2>4
<1>3. ASSUME NEW i \in 1..n PROVE At(fields[i][1]) = i
  <2>1. At(fields[i][1]) \in DOMAIN fields /\ fields[At(fields[i][1])][1] = fields[i][1]  BY <1>0
  <2> HIDE DEF At
  <2> QED  BY <1>0, <2>1 DEF Distinct
<1>4. Structure(fields) = [size |-> RoundUp(offset[n] + fields[n][2].size, align), align |-> align,
                           offset |-> [f \in names |-> offset[At(f)]],
                           width |-> [f \in names |-> fields[At(f)][2].size]]
  BY <1>0 DEF Structure
<1> HIDE DEF offset, align, At
<1>5. names = {fields[i][1] : i \in 1..n}  BY <1>0
<1> DEFINE s == Structure(fields)
<1>6. s.align = align /\ s.size = RoundUp(offset[n] + fields[n][2].size, align)
      /\ s.offset = [f \in names |-> offset[At(f)]] /\ s.width = [f \in names |-> fields[At(f)][2].size]
  BY <1>4
<1> HIDE DEF s
<1>7. ASSUME NEW i \in 1..n PROVE s.offset[fields[i][1]] = off[i] /\ s.width[fields[i][1]] = fields[i][2].size
  BY <1>1, <1>3, <1>5, <1>6
<1>8. DOMAIN s.offset = names  BY <1>6
<1> QED  BY <1>1, <1>2, <1>5, <1>6, <1>7, <1>8 DEF Laid, s

\* Two declarations that differ in the names of their fields, and in the width of
\* bytes at the end.
TwinFields(c, py, i) ==
    /\ py[i][1] = Renamed(c[i][1]) /\ py[i][2].align = c[i][2].align
    /\ py[i][2].size = c[i][2].size \/ (i = Len(c) /\ c[i][2].size \in {0, 1})
Twins(c, py, a) ==
    /\ Declared(c) /\ Distinct(c) /\ Widest(c, a)
    /\ Declared(py) /\ Distinct(py) /\ Len(py) = Len(c)
    /\ \A i \in 1..Len(c) : TwinFields(c, py, i)

LEMMA TwinsHaveSamePlaces ==
    ASSUME NEW c, NEW py, NEW a, Twins(c, py, a), NEW off, Places(c, off)
    PROVE  Places(py, off) /\ Widest(py, a)
<1>1. Widest(py, a)  BY DEF Twins, TwinFields, Widest
<1>2. ASSUME NEW i \in 1..Len(py) PROVE PlaceOf(py, off, i) = PlaceOf(c, off, i)
  <2>1. CASE i = 1  BY <2>1 DEF PlaceOf
  <2>2. CASE i # 1
    <3>0. Len(c) \in Nat /\ i \in 1..Len(c)  BY DEF Twins, Declared
    <3>1. i - 1 \in 1..Len(c) /\ i - 1 # Len(c)  BY <2>2, <3>0
    <3>2. py[i - 1][2].size = c[i - 1][2].size /\ py[i][2].align = c[i][2].align
      BY <3>0, <3>1 DEF Twins, TwinFields
    <3> QED  BY <2>2, <3>2 DEF PlaceOf
  <2> QED  BY <2>1, <2>2
<1> QED  BY <1>1, <1>2 DEF Places, Twins

\* Fields that lie at the same place, whatever other fields there are.
LEMMA SameWhenLaid ==
    ASSUME NEW s, NEW c, NEW off, NEW a, Laid(s, c, off, a),
           NEW t, NEW py, NEW there, NEW b, Laid(t, py, there, b),
           \A i \in 1..Len(c) : \E j \in 1..Len(py) :
               /\ py[j][1] = Renamed(c[i][1]) /\ there[j] = off[i]
               /\ c[i][2].size \notin {0, 1} => py[j][2].size = c[i][2].size
    PROVE  SameFields(s, t)
<1>1. ASSUME NEW f \in DOMAIN s.offset
      PROVE  /\ Renamed(f) \in DOMAIN t.offset
             /\ t.offset[Renamed(f)] = s.offset[f]
             /\ s.width[f] \notin {0, 1} => t.width[Renamed(f)] = s.width[f]
  <2>1. PICK i \in 1..Len(c) : f = c[i][1]  BY DEF Laid
  <2>2. PICK j \in 1..Len(py) : /\ py[j][1] = Renamed(f) /\ there[j] = off[i]
                                /\ c[i][2].size \notin {0, 1} => py[j][2].size = c[i][2].size
    BY <2>1
  <2>3. s.offset[f] = off[i] /\ s.width[f] = c[i][2].size  BY <2>1 DEF Laid
  <2>4. t.offset[Renamed(f)] = there[j] /\ t.width[Renamed(f)] = py[j][2].size /\ Renamed(f) \in DOMAIN t.offset
    BY <2>2 DEF Laid
  <2> QED  BY <2>2, <2>3, <2>4
<1> QED  BY <1>1 DEF SameFields

\* Structures of twin declarations have their fields at the same places.
LEMMA TwinsAgree ==
    ASSUME NEW c, NEW py, NEW a, Twins(c, py, a)
    PROVE  /\ SameFields(Structure(c), Structure(py))
           /\ c[Len(c)][1] \in DOMAIN Structure(c).offset /\ Structure(c).offset[c[Len(c)][1]] \in Nat
           /\ Structure(c).size \in Nat /\ Structure(c).size >= Structure(c).offset[c[Len(c)][1]]
<1>1. PICK off : Places(c, off)  BY PlacesExist DEF Twins
<1>2. Places(py, off) /\ Widest(py, a)  BY <1>1, TwinsHaveSamePlaces
<1> DEFINE s == Structure(c)
           t == Structure(py)
<1>3. Laid(s, c, off, a)  BY <1>1, StructureIs DEF Twins
<1>4. Laid(t, py, off, a)  BY <1>2, StructureIs DEF Twins
<1> HIDE DEF s, t
<1>5. \A i \in 1..Len(c) :
           /\ i \in 1..Len(py) /\ py[i][1] = Renamed(c[i][1])
           /\ c[i][2].size \notin {0, 1} => py[i][2].size = c[i][2].size
  BY DEF Twins, TwinFields
<1>6. SameFields(s, t)  BY <1>3, <1>4, <1>5, SameWhenLaid
<1> DEFINE n == Len(c)
<1>7. n \in 1..Len(c) /\ off[n] \in Nat /\ c[n][2].size \in Nat /\ a \in Nat \ {0}
  <2>1. n \in Nat \ {0}  BY DEF Twins, Declared
  <2>2. n \in 1..Len(c)  BY <2>1
  <2>3. c[n][2].size \in Nat /\ a \in Nat \ {0}  BY <2>2 DEF Twins, Declared, Widest
  <2> QED  BY <1>1, <2>2, <2>3 DEF Places
<1>8. c[n][1] \in DOMAIN s.offset /\ s.offset[c[n][1]] = off[n] /\ s.size = RoundUp(off[n] + c[n][2].size, a)
  BY <1>3, <1>7 DEF Laid
<1>9. off[n] + c[n][2].size \in Nat /\ off[n] + c[n][2].size >= off[n]
  <2>1. \A x, y \in Nat : x + y \in Nat /\ x + y >= x  OBVIOUS
  <2> QED  BY <1>7, <2>1, Zenon
<1>10. s.size \in Nat /\ s.size >= off[n] + c[n][2].size  BY <1>7, <1>8, <1>9, RoundsUp
<1> QED  BY <1>6, <1>7, <1>8, <1>9, <1>10 DEF s, t

-----------------------------------------------------------------------------
(* The structures that others contain, with the places of their fields.      *)

LEMMA UuidSize == UUID.size = 16 /\ UUID.align = 4
<1> DEFINE f == << <<"Data1", ULONG>>, <<"Data2", USHORT>>, <<"Data3", USHORT>>, <<"Data4", BYTES(8)>> >>
           off == <<0, 4, 6, 8>>
<1>1. Declared(f) /\ Distinct(f) /\ Widest(f, 4)
  BY DEF Declared, Distinct, Widest, ULONG, USHORT, BYTES, Primitive
<1>2. Places(f, off)  BY DEF Places, PlaceOf, RoundUp, ULONG, USHORT, BYTES, Primitive
<1>3. Laid(UUID, f, off, 4)  BY <1>1, <1>2, StructureIs DEF UUID
<1> QED  BY <1>3 DEF Laid, RoundUp, BYTES

LEMMA ClientIdSize == CLIENT_ID.size = 16 /\ CLIENT_ID.align = 8
<1> DEFINE f == << <<"UniqueProcess", LONGLONG>>, <<"UniqueThread", LONGLONG>> >>
           off == <<0, 8>>
<1>1. Declared(f) /\ Distinct(f) /\ Widest(f, 8)  BY DEF Declared, Distinct, Widest, LONGLONG, Primitive
<1>2. Places(f, off)  BY DEF Places, PlaceOf, RoundUp, LONGLONG, Primitive
<1>3. Laid(CLIENT_ID, f, off, 8)  BY <1>1, <1>2, StructureIs DEF CLIENT_ID
<1> QED  BY <1>3 DEF Laid, RoundUp, LONGLONG, Primitive

LEMMA ListEntrySize == C_LIST_ENTRY.size = 16 /\ C_LIST_ENTRY.align = 8
<1> DEFINE f == LongLongs(<<"Flink", "Blink">>)
           off == <<0, 8>>
<1>0. Len(f) = 2 /\ DOMAIN f = 1..2 /\ f[1] = <<"Flink", LONGLONG>> /\ f[2] = <<"Blink", LONGLONG>>
  BY DEF LongLongs
<1> HIDE DEF f
<1>1. Declared(f) /\ Distinct(f) /\ Widest(f, 8)
  BY <1>0 DEF Declared, Distinct, Widest, LONGLONG, Primitive
<1>2. Places(f, off)  BY <1>0 DEF Places, PlaceOf, RoundUp, LONGLONG, Primitive
<1>3. Laid(C_LIST_ENTRY, f, off, 8)  BY <1>1, <1>2, StructureIs DEF C_LIST_ENTRY, f
<1> QED  BY <1>0, <1>3 DEF Laid, RoundUp, LONGLONG, Primitive

\* The service declares the list entry as sixteen bytes, the driver as two pointers:
\* it lies at a multiple of eight in both.
LEMMA HeadersAgree ==
    /\ C_PROBE_DATA_HEADER.size = 48 /\ C_PROBE_DATA_HEADER.align = 8
    /\ SensorDataHeader.size = 48 /\ SensorDataHeader.align = 8
    /\ SameFields(C_PROBE_DATA_HEADER, SensorDataHeader)
<1> DEFINE c == << <<"probe_id", UUID>>, <<"probe_type", USHORT>>, <<"data_sz", USHORT>>,
                   <<"current_gmt", LONGLONG>>, <<"ListEntry", C_LIST_ENTRY>> >>
           py == << <<"sensor_id", UUID>>, <<"sensor_type", USHORT>>, <<"DataSz", USHORT>>,
                    <<"CurrentGMT", LONGLONG>>, <<"ListEntry", LIST_ENTRY>> >>
           off == <<0, 16, 18, 24, 32>>
<1>1. Declared(c) /\ Distinct(c) /\ Widest(c, 8)
  BY UuidSize, ListEntrySize DEF Declared, Distinct, Widest, USHORT, LONGLONG, Primitive
<1>2. Declared(py) /\ Distinct(py) /\ Widest(py, 8)
  BY UuidSize DEF Declared, Distinct, Widest, USHORT, LONGLONG, LIST_ENTRY, BYTES, Primitive
<1>3. Places(c, off)
  BY UuidSize, ListEntrySize DEF Places, PlaceOf, RoundUp, USHORT, LONGLONG, Primitive
<1>4. Places(py, off)
  BY UuidSize DEF Places, PlaceOf, RoundUp, USHORT, LONGLONG, LIST_ENTRY, BYTES, Primitive
<1>5. Laid(C_PROBE_DATA_HEADER, c, off, 8)  BY <1>1, <1>3, StructureIs DEF C_PROBE_DATA_HEADER
<1>6. Laid(SensorDataHeader, py, off, 8)  BY <1>2, <1>4, StructureIs DEF SensorDataHeader
<1>7. \A i \in 1..Len(c) :
          /\ i \in 1..Len(py) /\ py[i][1] = Renamed(c[i][1])
          /\ c[i][2].size \notin {0, 1} => py[i][2].size = c[i][2].size
  BY ListEntrySize DEF Renamed, LIST_ENTRY, BYTES
<1>8. SameFields(C_PROBE_DATA_HEADER, SensorDataHeader)
  <2> HIDE DEF c, py, off
  <2> QED  BY <1>5, <1>6, <1>7, SameWhenLaid
<1>9. C_PROBE_DATA_HEADER.size = 48 /\ C_PROBE_DATA_HEADER.align = 8
  BY <1>5, ListEntrySize DEF Laid, RoundUp
<1>10. SensorDataHeader.size = 48 /\ SensorDataHeader.align = 8
  BY <1>6 DEF Laid, RoundUp, LIST_ENTRY, BYTES
<1> QED  BY <1>8, <1>9, <1>10

LEMMA HeaderSizes ==
    /\ C_PROBE_DATA_HEADER.size = 48 /\ C_PROBE_DATA_HEADER.align = 8
    /\ SensorDataHeader.size = 48 /\ SensorDataHeader.align = 8
BY HeadersAgree

-----------------------------------------------------------------------------
(* The events.                                                               *)

LEMMA TypeSizes ==
    /\ BYTE.size = 1 /\ BYTE.align = 1 /\ USHORT.size = 2 /\ USHORT.align = 2
    /\ ULONG.size = 4 /\ ULONG.align = 4 /\ LONGLONG.size = 8 /\ LONGLONG.align = 8
    /\ OPEN.size = 0 /\ OPEN.align = 1
BY DEF BYTE, USHORT, ULONG, LONGLONG, OPEN, BYTES, Primitive

CHeader == <<"ProbeDataHeader", C_PROBE_DATA_HEADER>>
PyHeader == <<"Header", SensorDataHeader>>

\* The name of an event comes last, and no field is after its beginning.
NameIsLast(layout, name) ==
    /\ name \in DOMAIN layout.offset /\ layout.offset[name] \in Nat
    /\ layout.size \in Nat /\ layout.size >= layout.offset[name]

LEMMA RegCreateKeyInfoAgrees ==
    /\ SameFields(C_RegCreateKeyInfo, RegCreateKeyInfo.layout)
    /\ NameIsLast(C_RegCreateKeyInfo, "CompleteName")
<1> DEFINE F(h, z) ==
             << h >> \o (LongLongs(<<"ProcessId", "EProcess", "RootObject">>)
                    \o << <<"Options", ULONG>>, <<"SecurityDescriptor", LONGLONG>>,
                          <<"SecurityQualityOfService", LONGLONG>>,
                          <<"DesiredAccess", ULONG>>, <<"GrantedAccess", ULONG>>,
                          <<"Version", LONGLONG>>, <<"Wow64Flags", ULONG>>,
                          <<"Attributes", ULONG>>, <<"CheckAccessMode", BYTE>>,
                          <<"CompleteNameSz", USHORT>>, <<"CompleteName", z>> >>)
           c == F(CHeader, BYTE)
           py == F(PyHeader, BYTE)
<1>1. Len(c) = 15 /\ DOMAIN c = 1..15 /\ Len(py) = 15 /\ DOMAIN py = 1..15  BY DEF LongLongs
<1>2. Declared(c) /\ Declared(py) /\ Widest(c, 8)
  <2>1. Declared(c)  BY <1>1, HeaderSizes, TypeSizes DEF Declared, LongLongs, CHeader
  <2>2. Declared(py)  BY <1>1, HeaderSizes, TypeSizes DEF Declared, LongLongs, PyHeader
  <2>3. Widest(c, 8)  BY <1>1, HeaderSizes, TypeSizes DEF Widest, LongLongs, CHeader
  <2> QED  BY <2>1, <2>2, <2>3
<1>3. Distinct(c)  BY <1>1 DEF Distinct, LongLongs, CHeader
<1>4. Distinct(py)  BY <1>1 DEF Distinct, LongLongs, PyHeader
<1>5. Twins(c, py, 8)
  <2>1. ASSUME NEW i \in 1..15 PROVE TwinFields(c, py, i)
    <3>1. c[1] = CHeader /\ py[1] = PyHeader  OBVIOUS
    <3>2. CASE i = 1  BY <3>1, <3>2, HeaderSizes DEF TwinFields, Renamed, CHeader, PyHeader
    <3>3. CASE i # 1
      <4>1. py[i] = c[i]  BY <3>3 DEF LongLongs
      <4>2. c[i][1] \in {"ProcessId", "EProcess", "RootObject", "Options", "SecurityDescriptor",
                         "SecurityQualityOfService", "DesiredAccess", "GrantedAccess", "Version",
                         "Wow64Flags", "Attributes", "CheckAccessMode", "CompleteNameSz", "CompleteName"}
        BY <3>3 DEF LongLongs
      <4> HIDE DEF c, py
      <4>3. Renamed(c[i][1]) = c[i][1]  BY <4>2 DEF Renamed
      <4> QED  BY <4>1, <4>3 DEF TwinFields
    <3> QED  BY <3>2, <3>3
  <2> QED  BY <1>1, <1>2, <1>3, <1>4, <2>1 DEF Twins
<1>6. C_RegCreateKeyInfo = Structure(c) /\ RegCreateKeyInfo.layout = Structure(py)
  BY DEF C_RegCreateKeyInfo, C_Event, RegCreateKeyInfo, Event, CHeader, PyHeader
<1>7. c[15][1] = "CompleteName"  BY DEF LongLongs
<1> HIDE DEF c, py
<1> QED  BY <1>1, <1>5, <1>6, <1>7, TwinsAgree DEF NameIsLast

LEMMA RegRenameKeyInfoAgrees ==
    SameFields(C_RegRenameKeyInfo, RegRenameKeyInfo.layout) /\ NameIsLast(C_RegRenameKeyInfo, "NewName")
<1> DEFINE F(h, z) ==
             << h >> \o (LongLongs(<<"ProcessId", "EProcess", "Object">>)
                    \o << <<"NewNameLength", USHORT>>, <<"NewName", z>> >>)
           c == F(CHeader, OPEN)
           py == F(PyHeader, BYTE)
<1>1. Len(c) = 6 /\ DOMAIN c = 1..6 /\ Len(py) = 6 /\ DOMAIN py = 1..6  BY DEF LongLongs
<1>2. Declared(c) /\ Declared(py) /\ Widest(c, 8)
  <2>1. Declared(c)  BY <1>1, HeaderSizes, TypeSizes DEF Declared, LongLongs, CHeader
  <2>2. Declared(py)  BY <1>1, HeaderSizes, TypeSizes DEF Declared, LongLongs, PyHeader
  <2>3. Widest(c, 8)  BY <1>1, HeaderSizes, TypeSizes DEF Widest, LongLongs, CHeader
  <2> QED  BY <2>1, <2>2, <2>3
<1>3. Distinct(c)  BY <1>1 DEF Distinct, LongLongs, CHeader
<1>4. Distinct(py)  BY <1>1 DEF Distinct, LongLongs, PyHeader
<1>5. Twins(c, py, 8)
  <2>1. ASSUME NEW i \in 1..6 PROVE TwinFields(c, py, i)
    BY <1>1, HeaderSizes, TypeSizes DEF TwinFields, LongLongs, Renamed, CHeader, PyHeader
  <2> QED  BY <1>1, <1>2, <1>3, <1>4, <2>1 DEF Twins
<1>6. C_RegRenameKeyInfo = Structure(c) /\ RegRenameKeyInfo.layout = Structure(py)
  BY DEF C_RegRenameKeyInfo, C_Event, RegRenameKeyInfo, Event, CHeader, PyHeader
<1>7. c[6][1] = "NewName"  BY DEF LongLongs
<1> HIDE DEF c, py
<1> QED  BY <1>1, <1>5, <1>6, <1>7, TwinsAgree DEF NameIsLast

LEMMA RegPostOperationInfoAgrees ==
    SameFields(C_RegPostOperationInfo, RegPostOperationInfo.layout)
<1> DEFINE F(h) ==
             << h >> \o (LongLongs(<<"ProcessId", "EProcess", "Object">>)
                    \o << <<"Status", ULONG>>, <<"PreInformation", LONGLONG>>,
                          <<"ReturnStatus", ULONG>> >>)
           c == F(CHeader)
           py == F(PyHeader)
<1>1. Len(c) = 7 /\ DOMAIN c = 1..7 /\ Len(py) = 7 /\ DOMAIN py = 1..7  BY DEF LongLongs
<1>2. Declared(c) /\ Declared(py) /\ Widest(c, 8)
  <2>1. Declared(c)  BY <1>1, HeaderSizes, TypeSizes DEF Declared, LongLongs, CHeader
  <2>2. Declared(py)  BY <1>1, HeaderSizes, TypeSizes DEF Declared, LongLongs, PyHeader
  <2>3. Widest(c, 8)  BY <1>1, HeaderSizes, TypeSizes DEF Widest, LongLongs, CHeader
  <2> QED  BY <2>1, <2>2, <2>3
<1>3. Distinct(c)  BY <1>1 DEF Distinct, LongLongs, CHeader
<1>4. Distinct(py)  BY <1>1 DEF Distinct, LongLongs, PyHeader
<1>5. Twins(c, py, 8)
  <2>1. ASSUME NEW i \in 1..7 PROVE TwinFields(c, py, i)
    BY <1>1, HeaderSizes, TypeSizes DEF TwinFields, LongLongs, Renamed, CHeader, PyHeader
  <2> QED  BY <1>1, <1>2, <1>3, <1>4, <2>1 DEF Twins
<1>6. C_RegPostOperationInfo = Structure(c) /\ RegPostOperationInfo.layout = Structure(py)
  BY DEF C_RegPostOperationInfo, C_Event, RegPostOperationInfo, Event, CHeader, PyHeader
<1> HIDE DEF c, py
<1> QED  BY <1>1, <1>5, <1>6, TwinsAgree

LEMMA RegDeleteValueKeyInfoAgrees ==
    /\ SameFields(C_RegDeleteValueKeyInfo, RegDeleteValueKeyInfo.layout)
    /\ NameIsLast(C_RegDeleteValueKeyInfo, "ValueName")
<1> DEFINE F(h, z) ==
             << h >> \o (LongLongs(<<"ProcessId", "EProcess", "Object">>)
                    \o << <<"ValueNameLength", USHORT>>, <<"ValueName", z>> >>)
           c == F(CHeader, OPEN)
           py == F(PyHeader, BYTE)
<1>1. Len(c) = 6 /\ DOMAIN c = 1..6 /\ Len(py) = 6 /\ DOMAIN py = 1..6  BY DEF LongLongs
<1>2. Declared(c) /\ Declared(py) /\ Widest(c, 8)
  <2>1. Declared(c)  BY <1>1, HeaderSizes, TypeSizes DEF Declared, LongLongs, CHeader
  <2>2. Declared(py)  BY <1>1, HeaderSizes, TypeSizes DEF Declared, LongLongs, PyHeader
  <2>3. Widest(c, 8)  BY <1>1, HeaderSizes, TypeSizes DEF Widest, LongLongs, CHeader
  <2> QED  BY <2>1, <2>2, <2>3
<1>3. Distinct(c)  BY <1>1 DEF Distinct, LongLongs, CHeader
<1>4. Distinct(py)  BY <1>1 DEF Distinct, LongLongs, PyHeader
<1>5. Twins(c, py, 8)
  <2>1. ASSUME NEW i \in 1..6 PROVE TwinFields(c, py, i)
    BY <1>1, HeaderSizes, TypeSizes DEF TwinFields, LongLongs, Renamed, CHeader, PyHeader
  <2> QED  BY <1>1, <1>2, <1>3, <1>4, <2>1 DEF Twins
<1>6. C_RegDeleteValueKeyInfo = Structure(c) /\ RegDeleteValueKeyInfo.layout = Structure(py)
  BY DEF C_RegDeleteValueKeyInfo, C_Event, RegDeleteValueKeyInfo, Event, CHeader, PyHeader
<1>7. c[6][1] = "ValueName"  BY DEF LongLongs
<1> HIDE DEF c, py
<1> QED  BY <1>1, <1>5, <1>6, <1>7, TwinsAgree DEF NameIsLast

LEMMA RegSetValueKeyInfoAgrees ==
    /\ SameFields(C_RegSetValueKeyInfo, RegSetValueKeyInfo.layout)
    /\ NameIsLast(C_RegSetValueKeyInfo, "ValueName")
<1> DEFINE F(h, z) ==
             << h >> \o (LongLongs(<<"ProcessId", "EProcess", "Object">>)
                    \o << <<"Type", ULONG>>, <<"ValueNameLength", USHORT>>,
                          <<"ValueName", z>> >>)
           c == F(CHeader, OPEN)
           py == F(PyHeader, BYTE)
<1>1. Len(c) = 7 /\ DOMAIN c = 1..7 /\ Len(py) = 7 /\ DOMAIN py = 1..7  BY DEF LongLongs
<1>2. Declared(c) /\ Declared(py) /\ Widest(c, 8)
  <2>1. Declared(c)  BY <1>1, HeaderSizes, TypeSizes DEF Declared, LongLongs, CHeader
  <2>2. Declared(py)  BY <1>1, HeaderSizes, TypeSizes DEF Declared, LongLongs, PyHeader
  <2>3. Widest(c, 8)  BY <1>1, HeaderSizes, TypeSizes DEF Widest, LongLongs, CHeader
  <2> QED  BY <2>1, <2>2, <2>3
<1>3. Distinct(c)  BY <1>1 DEF Distinct, LongLongs, CHeader
<1>4. Distinct(py)  BY <1>1 DEF Distinct, LongLongs, PyHeader
<1>5. Twins(c, py, 8)
  <2>1. ASSUME NEW i \in 1..7 PROVE TwinFields(c, py, i)
    BY <1>1, HeaderSizes, TypeSizes DEF TwinFields, LongLongs, Renamed, CHeader, PyHeader
  <2> QED  BY <1>1, <1>2, <1>3, <1>4, <2>1 DEF Twins
<1>6. C_RegSetValueKeyInfo = Structure(c) /\ RegSetValueKeyInfo.layout = Structure(py)
  BY DEF C_RegSetValueKeyInfo, C_Event, RegSetValueKeyInfo, Event, CHeader, PyHeader
<1>7. c[7][1] = "ValueName"  BY DEF LongLongs
<1> HIDE DEF c, py
<1> QED  BY <1>1, <1>5, <1>6, <1>7, TwinsAgree DEF NameIsLast

LEMMA ProcessListValidationFailedAgrees ==
    SameFields(C_ProcessListValidationFailed, ProcessListValidationFailed.layout)
<1> DEFINE F(h) ==
             << h >> \o (<< <<"Status", ULONG>> >> \o LongLongs(<<"ProcessId", "EProcess">>))
           c == F(CHeader)
           py == F(PyHeader)
<1>1. Len(c) = 4 /\ DOMAIN c = 1..4 /\ Len(py) = 4 /\ DOMAIN py = 1..4  BY DEF LongLongs
<1>2. Declared(c) /\ Declared(py) /\ Widest(c, 8)
  <2>1. Declared(c)  BY <1>1, HeaderSizes, TypeSizes DEF Declared, LongLongs, CHeader
  <2>2. Declared(py)  BY <1>1, HeaderSizes, TypeSizes DEF Declared, LongLongs, PyHeader
  <2>3. Widest(c, 8)  BY <1>1, HeaderSizes, TypeSizes DEF Widest, LongLongs, CHeader
  <2> QED  BY <2>1, <2>2, <2>3
<1>3. Distinct(c)  BY <1>1 DEF Distinct, LongLongs, CHeader
<1>4. Distinct(py)  BY <1>1 DEF Distinct, LongLongs, PyHeader
<1>5. Twins(c, py, 8)
  <2>1. ASSUME NEW i \in 1..4 PROVE TwinFields(c, py, i)
    BY <1>1, HeaderSizes, TypeSizes DEF TwinFields, LongLongs, Renamed, CHeader, PyHeader
  <2> QED  BY <1>1, <1>2, <1>3, <1>4, <2>1 DEF Twins
<1>6. C_ProcessListValidationFailed = Structure(c) /\ ProcessListValidationFailed.layout = Structure(py)
  BY DEF C_ProcessListValidationFailed, C_Event, ProcessListValidationFailed, Event, CHeader, PyHeader
<1> HIDE DEF c, py
<1> QED  BY <1>1, <1>5, <1>6, TwinsAgree

LEMMA ImageLoadInfoAgrees ==
    /\ SameFields(C_LoadedImageInfo, ImageLoadInfo.layout)
    /\ NameIsLast(C_LoadedImageInfo, "FullImageName")
<1> DEFINE F(h, z) ==
             << h >> \o (LongLongs(<<"ProcessId", "EProcess", "ImageBase", "ImageSize">>)
                    \o << <<"FullImageNameSz", USHORT>>, <<"FullImageName", z>> >>)
           c == F(CHeader, BYTE)
           py == F(PyHeader, BYTE)
<1>1. Len(c) = 7 /\ DOMAIN c = 1..7 /\ Len(py) = 7 /\ DOMAIN py = 1..7  BY DEF LongLongs
<1>2. Declared(c) /\ Declared(py) /\ Widest(c, 8)
  <2>1. Declared(c)  BY <1>1, HeaderSizes, TypeSizes DEF Declared, LongLongs, CHeader
  <2>2. Declared(py)  BY <1>1, HeaderSizes, TypeSizes DEF Declared, LongLongs, PyHeader
  <2>3. Widest(c, 8)  BY <1>1, HeaderSizes, TypeSizes DEF Widest, LongLongs, CHeader
  <2> QED  BY <2>1, <2>2, <2>3
<1>3. Distinct(c)  BY <1>1 DEF Distinct, LongLongs, CHeader
<1>4. Distinct(py)  BY <1>1 DEF Distinct, LongLongs, PyHeader
<1>5. Twins(c, py, 8)
  <2>1. ASSUME NEW i \in 1..7 PROVE TwinFields(c, py, i)
    BY <1>1, HeaderSizes, TypeSizes DEF TwinFields, LongLongs, Renamed, CHeader, PyHeader
  <2> QED  BY <1>1, <1>2, <1>3, <1>4, <2>1 DEF Twins
<1>6. C_LoadedImageInfo = Structure(c) /\ ImageLoadInfo.layout = Structure(py)
  BY DEF C_LoadedImageInfo, C_Event, ImageLoadInfo, Event, CHeader, PyHeader
<1>7. c[7][1] = "FullImageName"  BY DEF LongLongs
<1> HIDE DEF c, py
<1> QED  BY <1>1, <1>5, <1>6, <1>7, TwinsAgree DEF NameIsLast

LEMMA ThreadCreateInfoAgrees ==
    SameFields(C_ThreadCreateInfo, ThreadCreateInfo.layout)
<1> DEFINE F(h) ==
             << h >> \o (LongLongs(<<"ProcessId", "ThreadId", "Win32StartAddress", "StartAddress">>)
                    \o << <<"IsStartAddressValid", BYTE>> >>)
           c == F(CHeader)
           py == F(PyHeader)
<1>1. Len(c) = 6 /\ DOMAIN c = 1..6 /\ Len(py) = 6 /\ DOMAIN py = 1..6  BY DEF LongLongs
<1>2. Declared(c) /\ Declared(py) /\ Widest(c, 8)
  <2>1. Declared(c)  BY <1>1, HeaderSizes, TypeSizes DEF Declared, LongLongs, CHeader
  <2>2. Declared(py)  BY <1>1, HeaderSizes, TypeSizes DEF Declared, LongLongs, PyHeader
  <2>3. Widest(c, 8)  BY <1>1, HeaderSizes, TypeSizes DEF Widest, LongLongs, CHeader
  <2> QED  BY <2>1, <2>2, <2>3
<1>3. Distinct(c)  BY <1>1 DEF Distinct, LongLongs, CHeader
<1>4. Distinct(py)  BY <1>1 DEF Distinct, LongLongs, PyHeader
<1>5. Twins(c, py, 8)
  <2>1. ASSUME NEW i \in 1..6 PROVE TwinFields(c, py, i)
    BY <1>1, HeaderSizes, TypeSizes DEF TwinFields, LongLongs, Renamed, CHeader, PyHeader
  <2> QED  BY <1>1, <1>2, <1>3, <1>4, <2>1 DEF Twins
<1>6. C_ThreadCreateInfo = Structure(c) /\ ThreadCreateInfo.layout = Structure(py)
  BY DEF C_ThreadCreateInfo, C_Event, ThreadCreateInfo, Event, CHeader, PyHeader
<1> HIDE DEF c, py
<1> QED  BY <1>1, <1>5, <1>6, TwinsAgree

LEMMA ThreadDestroyInfoAgrees ==
    SameFields(C_ThreadDestroyInfo, ThreadDestroyInfo.layout)
<1> DEFINE F(h) ==
             << h >> \o LongLongs(<<"ProcessId", "ThreadId">>)
           c == F(CHeader)
           py == F(PyHeader)
<1>1. Len(c) = 3 /\ DOMAIN c = 1..3 /\ Len(py) = 3 /\ DOMAIN py = 1..3  BY DEF LongLongs
<1>2. Declared(c) /\ Declared(py) /\ Widest(c, 8)
  <2>1. Declared(c)  BY <1>1, HeaderSizes, TypeSizes DEF Declared, LongLongs, CHeader
  <2>2. Declared(py)  BY <1>1, HeaderSizes, TypeSizes DEF Declared, LongLongs, PyHeader
  <2>3. Widest(c, 8)  BY <1>1, HeaderSizes, TypeSizes DEF Widest, LongLongs, CHeader
  <2> QED  BY <2>1, <2>2, <2>3
<1>3. Distinct(c)  BY <1>1 DEF Distinct, LongLongs, CHeader
<1>4. Distinct(py)  BY <1>1 DEF Distinct, LongLongs, PyHeader
<1>5. Twins(c, py, 8)
  <2>1. ASSUME NEW i \in 1..3 PROVE TwinFields(c, py, i)
    BY <1>1, HeaderSizes, TypeSizes DEF TwinFields, LongLongs, Renamed, CHeader, PyHeader
  <2> QED  BY <1>1, <1>2, <1>3, <1>4, <2>1 DEF Twins
<1>6. C_ThreadDestroyInfo = Structure(c) /\ ThreadDestroyInfo.layout = Structure(py)
  BY DEF C_ThreadDestroyInfo, C_Event, ThreadDestroyInfo, Event, CHeader, PyHeader
<1> HIDE DEF c, py
<1> QED  BY <1>1, <1>5, <1>6, TwinsAgree

LEMMA ProcessCreateInfoAgrees ==
    /\ SameFields(C_ProcessCreateInfo, ProcessCreateInfo.layout)
    /\ NameIsLast(C_ProcessCreateInfo, "CommandLine")
<1> DEFINE F(h, z) ==
             << h >> \o (LongLongs(<<"ParentProcessId", "ProcessId", "EProcess">>)
                    \o << <<"CreatingThreadId", CLIENT_ID>>, <<"FileObject", LONGLONG>>,
                          <<"CreationStatus", ULONG>>, <<"CommandLineSz", USHORT>>,
                          <<"CommandLine", z>> >>)
           c == F(CHeader, BYTE)
           py == F(PyHeader, BYTE)
<1>1. Len(c) = 9 /\ DOMAIN c = 1..9 /\ Len(py) = 9 /\ DOMAIN py = 1..9  BY DEF LongLongs
<1>2. Declared(c) /\ Declared(py) /\ Widest(c, 8)
  <2>1. Declared(c)  BY <1>1, HeaderSizes, TypeSizes, ClientIdSize DEF Declared, LongLongs, CHeader
  <2>2. Declared(py)  BY <1>1, HeaderSizes, TypeSizes, ClientIdSize DEF Declared, LongLongs, PyHeader
  <2>3. Widest(c, 8)  BY <1>1, HeaderSizes, TypeSizes, ClientIdSize DEF Widest, LongLongs, CHeader
  <2> QED  BY <2>1, <2>2, <2>3
<1>3. Distinct(c)  BY <1>1 DEF Distinct, LongLongs, CHeader
<1>4. Distinct(py)  BY <1>1 DEF Distinct, LongLongs, PyHeader
<1>5. Twins(c, py, 8)
  <2>1. ASSUME NEW i \in 1..9 PROVE TwinFields(c, py, i)
    BY <1>1, HeaderSizes, TypeSizes DEF TwinFields, LongLongs, Renamed, CHeader, PyHeader
  <2> QED  BY <1>1, <1>2, <1>3, <1>4, <2>1 DEF Twins
<1>6. C_ProcessCreateInfo = Structure(c) /\ ProcessCreateInfo.layout = Structure(py)
  BY DEF C_ProcessCreateInfo, C_Event, ProcessCreateInfo, Event, CHeader, PyHeader
<1>7. c[9][1] = "CommandLine"  BY DEF LongLongs
<1> HIDE DEF c, py
<1> QED  BY <1>1, <1>5, <1>6, <1>7, TwinsAgree DEF NameIsLast

LEMMA ProcessDestroyInfoAgrees ==
    SameFields(C_ProcessDestroyInfo, ProcessDestroyInfo.layout)
<1> DEFINE F(h) ==
             << h >> \o LongLongs(<<"ProcessId", "EProcess">>)
           c == F(CHeader)
           py == F(PyHeader)
<1>1. Len(c) = 3 /\ DOMAIN c = 1..3 /\ Len(py) = 3 /\ DOMAIN py = 1..3  BY DEF LongLongs
<1>2. Declared(c) /\ Declared(py) /\ Widest(c, 8)
  <2>1. Declared(c)  BY <1>1, HeaderSizes, TypeSizes DEF Declared, LongLongs, CHeader
  <2>2. Declared(py)  BY <1>1, HeaderSizes, TypeSizes DEF Declared, LongLongs, PyHeader
  <2>3. Widest(c, 8)  BY <1>1, HeaderSizes, TypeSizes DEF Widest, LongLongs, CHeader
  <2> QED  BY <2>1, <2>2, <2>3
<1>3. Distinct(c)  BY <1>1 DEF Distinct, LongLongs, CHeader
<1>4. Distinct(py)  BY <1>1 DEF Distinct, LongLongs, PyHeader
<1>5. Twins(c, py, 8)
  <2>1. ASSUME NEW i \in 1..3 PROVE TwinFields(c, py, i)
    BY <1>1, HeaderSizes, TypeSizes DEF TwinFields, LongLongs, Renamed, CHeader, PyHeader
  <2> QED  BY <1>1, <1>2, <1>3, <1>4, <2>1 DEF Twins
<1>6. C_ProcessDestroyInfo = Structure(c) /\ ProcessDestroyInfo.layout = Structure(py)
  BY DEF C_ProcessDestroyInfo, C_Event, ProcessDestroyInfo, Event, CHeader, PyHeader
<1> HIDE DEF c, py
<1> QED  BY <1>1, <1>5, <1>6, TwinsAgree

\* The service declares the padding before Object as a field.
LEMMA RegQueryValueKeyInfoAgrees ==
    SameFields(C_RegQueryValueKeyInfo, RegQueryValueKeyInfo.layout)
    /\ NameIsLast(C_RegQueryValueKeyInfo, "ValueName")
<1> DEFINE c == << CHeader >> \o (LongLongs(<<"ProcessId", "EProcess">>)
                  \o << <<"Class", ULONG>>, <<"Object", LONGLONG>>, <<"KeyValueInformationClass", ULONG>>,
                        <<"ValueNameLength", USHORT>>, <<"ValueName", OPEN>> >>)
           py == << PyHeader >> \o (LongLongs(<<"ProcessId", "EProcess">>)
                  \o << <<"Class", ULONG>>, <<"_blank", ULONG>>, <<"Object", LONGLONG>>,
                        <<"KeyValueInformationClass", ULONG>>, <<"ValueNameLength", USHORT>>,
                        <<"ValueName", BYTE>> >>)
           off == <<0, 48, 56, 64, 72, 80, 84, 86>>
           there == <<0, 48, 56, 64, 68, 72, 80, 84, 86>>
           at == <<1, 2, 3, 4, 6, 7, 8, 9>>
<1>1. Len(c) = 8 /\ DOMAIN c = 1..8 /\ Len(py) = 9 /\ DOMAIN py = 1..9  BY DEF LongLongs
<1>2. Declared(c) /\ Widest(c, 8)
  <2>1. Declared(c)
    BY <1>1, HeaderSizes, TypeSizes DEF Declared, LongLongs, CHeader
  <2>2. Widest(c, 8)
    BY <1>1, HeaderSizes, TypeSizes DEF Widest, LongLongs, CHeader
  <2> QED  BY <2>1, <2>2
<1>3. Declared(py) /\ Widest(py, 8)
  <2>1. Declared(py)
    BY <1>1, HeaderSizes, TypeSizes DEF Declared, LongLongs, PyHeader
  <2>2. Widest(py, 8)
    BY <1>1, HeaderSizes, TypeSizes DEF Widest, LongLongs, PyHeader
  <2> QED  BY <2>1, <2>2
<1>4. Distinct(c)  BY <1>1 DEF Distinct, LongLongs, CHeader
<1>5. Distinct(py)  BY <1>1 DEF Distinct, LongLongs, PyHeader
<1>6. Places(c, off)
  BY <1>1, HeaderSizes, TypeSizes
  DEF Places, PlaceOf, RoundUp, LongLongs, CHeader
<1>7. Places(py, there)
  BY <1>1, HeaderSizes, TypeSizes, SMTT(30) DEF Places, PlaceOf, RoundUp, LongLongs, PyHeader
<1>8. C_RegQueryValueKeyInfo = Structure(c) /\ RegQueryValueKeyInfo.layout = Structure(py)
  BY DEF C_RegQueryValueKeyInfo, C_Event, RegQueryValueKeyInfo, Event, CHeader, PyHeader
<1>9. ASSUME NEW i \in 1..8
      PROVE  /\ at[i] \in 1..9 /\ py[at[i]][1] = Renamed(c[i][1]) /\ there[at[i]] = off[i]
             /\ c[i][2].size \notin {0, 1} => py[at[i]][2].size = c[i][2].size
  <2>1. at[i] \in 1..9 /\ there[at[i]] = off[i]  OBVIOUS
  <2>2. CASE i = 1
    <3>1. c[1] = CHeader /\ py[1] = PyHeader /\ at[1] = 1  OBVIOUS
    <3> HIDE DEF c, py, off, there, at
    <3> QED  BY <2>1, <2>2, <3>1, HeaderSizes DEF Renamed, CHeader, PyHeader
  <2>3. CASE i \in 2..7
    <3>1. py[at[i]] = c[i]  BY <2>3 DEF LongLongs
    <3>2. c[i][1] \in {"ProcessId", "EProcess", "Class", "Object",
                       "KeyValueInformationClass", "ValueNameLength"}
      BY <2>3 DEF LongLongs
    <3> HIDE DEF c, py, off, there, at
    <3>3. Renamed(c[i][1]) = c[i][1]  BY <3>2 DEF Renamed
    <3> QED  BY <2>1, <3>1, <3>3
  <2>4. CASE i = 8
    <3>1. c[8] = <<"ValueName", OPEN>> /\ py[9] = <<"ValueName", BYTE>> /\ at[8] = 9
      BY DEF LongLongs
    <3> HIDE DEF c, py, off, there, at
    <3> QED  BY <2>1, <2>4, <3>1, TypeSizes DEF Renamed
  <2>5. i = 1 \/ i \in 2..7 \/ i = 8  OBVIOUS
  <2> HIDE DEF c, py, off, there, at
  <2> QED  BY <2>2, <2>3, <2>4, <2>5, Zenon
<1>10. c[8][1] = "ValueName" /\ c[8][2].size = 0  BY DEF LongLongs, OPEN, BYTES
<1>11. off[8] = 86  OBVIOUS
<1> HIDE DEF c, py, off, there, at
<1>12. Laid(Structure(c), c, off, 8)  BY <1>2, <1>4, <1>6, StructureIs
<1>13. Laid(Structure(py), py, there, 8)  BY <1>3, <1>5, <1>7, StructureIs
<1>14. SameFields(Structure(c), Structure(py))
  <2>1. \A i \in 1..Len(c) : \E j \in 1..Len(py) :
            /\ py[j][1] = Renamed(c[i][1]) /\ there[j] = off[i]
            /\ c[i][2].size \notin {0, 1} => py[j][2].size = c[i][2].size
    BY <1>1, <1>9
  <2> QED  BY <1>12, <1>13, <2>1, SameWhenLaid
<1>15. "ValueName" \in DOMAIN Structure(c).offset /\ Structure(c).offset["ValueName"] = 86 /\ Structure(c).size = 88
  BY <1>1, <1>10, <1>11, <1>12 DEF Laid, RoundUp
<1> QED  BY <1>8, <1>14, <1>15 DEF NameIsLast

-----------------------------------------------------------------------------
(* A name in a packet.                                                       *)

\* build() cuts out the name that the driver put at the same place.
LEMMA NameIsRead ==
    ASSUME NEW p, NEW e, e = _packet_decode_header(p.type),
           e.name = p.name, NameIsLast(p.layout, p.name),
           e.layout.offset[p.name] = p.layout.offset[p.name],
           p.round \in Nat \ {0}, e.length = "DataSz" => p.name = "CommandLine",
           NEW units \in Nat, NEW name \in [1..units -> Nat]
    PROVE  NameAgrees(p, name)
<1> DEFINE o == p.layout.offset[p.name]
           length == IF e.length = "DataSz" THEN data_sz(p, Len(name)) - o ELSE 2 * Len(name)
           unit(k) == UnitAt(p, name, o + 2 * k - 2)
           got == [k \in 1..(length \div 2) |-> IF p.name = "FullImageName" THEN unit(k) % 256 ELSE unit(k)]
<1>1. Len(name) = units /\ o \in Nat /\ p.layout.size \in Nat /\ p.layout.size >= o
  BY DEF NameIsLast
<1>2. got = NameIn(p, name)  BY DEF NameIn
<1>3. length \in Nat /\ length \div 2 \in Nat /\ length \div 2 >= units
      /\ (e.length # "DataSz" => length \div 2 = units)
  <2>1. CASE e.length = "DataSz"
    <3>1. p.layout.size + 2 * units \in Nat  BY <1>1
    <3>2. data_sz(p, units) \in Nat /\ data_sz(p, units) >= p.layout.size + 2 * units
      BY <3>1, RoundsUp DEF data_sz
    <3>3. length = data_sz(p, units) - o  BY <1>1, <2>1
    <3> HIDE DEF length, o
    <3> QED  BY <1>1, <2>1, <3>2, <3>3
  <2>2. CASE e.length # "DataSz"
    <3>1. length = 2 * units  BY <1>1, <2>2
    <3> HIDE DEF length
    <3> QED  BY <2>2, <3>1
  <2> QED  BY <2>1, <2>2
<1>4. ASSUME NEW k \in 1..(length \div 2) PROVE unit(k) = IF k > units THEN 0 ELSE name[k]
  <2>1. k \in Nat \ {0}  BY <1>3
  <2>2. (o + 2 * k - 2) - o = 2 * (k - 1) /\ (2 * (k - 1)) \div 2 = k - 1 /\ o + 2 * k - 2 >= o
    <3>1. \A x \in Nat, y \in Nat \ {0} :
              (x + 2 * y - 2) - x = 2 * (y - 1) /\ (2 * (y - 1)) \div 2 = y - 1 /\ x + 2 * y - 2 >= x
      OBVIOUS
    <3> HIDE DEF o, length, got
    <3> QED  BY <1>1, <2>1, <3>1, Zenon
  <2>3. unit(k) = IF k - 1 < units THEN name[(k - 1) + 1] ELSE 0  BY <1>1, <2>2 DEF UnitAt
  <2>4. (k - 1) + 1 = k /\ (k - 1 < units <=> ~(k > units))  BY <2>1
  <2> QED  BY <2>3, <2>4
<1> HIDE DEF length, unit, o
<1>5. Len(got) = length \div 2  BY <1>3
<1>6. ASSUME NEW k \in 1..Len(got)
      PROVE  got[k] = IF k > Len(name) THEN 0 ELSE IF p.name = "FullImageName" THEN name[k] % 256 ELSE name[k]
  <2>1. k \in 1..(length \div 2)  BY <1>5, <1>6
  <2>2. got[k] = IF p.name = "FullImageName" THEN unit(k) % 256 ELSE unit(k)  BY <2>1
  <2>3. unit(k) = IF k > units THEN 0 ELSE name[k]  BY <1>4, <2>1
  <2>4. 0 % 256 = 0  OBVIOUS
  <2> HIDE DEF got
  <2>5. CASE k > units  BY <1>1, <2>2, <2>3, <2>4, <2>5
  <2>6. CASE ~(k > units)  BY <1>1, <2>2, <2>3, <2>6
  <2> QED  BY <2>5, <2>6
<1>7. Len(got) >= Len(name) /\ (p.name # "CommandLine" => Len(got) = Len(name))
  BY <1>1, <1>3, <1>5
<1> HIDE DEF got
<1> QED  BY <1>2, <1>6, <1>7 DEF NameAgrees

-----------------------------------------------------------------------------
(* Events.                                                                   *)

\* The enumerations that the service decodes have every value the driver sends.
LEMMA ValuesAccepted ==
    /\ \A f \in DOMAIN C_Values : C_Values[f] \subseteq Accepted[f]
    /\ C_RegObjectType \subseteq RegObjectType
BY DEF C_Values, Accepted, RegNotifyClass, KeyValueInformationClass, KPROCESSOR_MODE, C_RegObjectType, RegObjectType

\* What makes the packets of one kind be read.
Read(p, name) == PacketAgrees(p) /\ NameAgrees(p, name)
LEMMA PacketIsRead ==
    ASSUME NEW p, NEW e, e = _packet_decode_header(p.type), SameFields(p.layout, e.layout),
           e.name = p.name, e.length \in {p.length, "DataSz"}, p.round \in Nat \ {0},
           p.name # None => NameIsLast(p.layout, p.name) /\ Renamed(p.name) = p.name,
           e.length = "DataSz" => p.name = "CommandLine",
           NEW name \in Names
    PROVE  Read(p, name)
<1>1. PacketAgrees(p)  BY HeadersAgree, ValuesAccepted DEF PacketAgrees
<1>2. PICK units \in Nat : name \in [1..units -> Nat]
  <2>1. PICK n \in 0..MaxName : name \in [1..n -> NameUnits]  BY DEF Names
  <2>2. n \in Nat /\ NameUnits \subseteq Nat  BY WinEventsAssumption
  <2>3. name \in [1..n -> Nat]  BY <2>1, <2>2
  <2> QED  BY <2>2, <2>3
<1>3. CASE p.name = None  BY <1>1, <1>3 DEF Read, NameAgrees
<1>4. CASE p.name # None
  <2>1. e.layout.offset[p.name] = p.layout.offset[p.name]  BY <1>4 DEF SameFields, NameIsLast
  <2>2. NameAgrees(p, name)  BY <1>2, <1>4, <2>1, NameIsRead
  <2> QED  BY <1>1, <2>2 DEF Read
<1> QED  BY <1>3, <1>4

\* Every packet that a probe emits.
LEMMA EventIsRead ==
    ASSUME NEW p \in Emitted, NEW name \in Names
    PROVE  PacketAgrees(p) /\ NameAgrees(p, name)
<1>1. CASE p = C_Packet(1, C_LoadedImageInfo, "FullImageName", "FullImageNameSz", 16)
  <2>1. _packet_decode_header(p.type) = ImageLoadInfo
    BY <1>1 DEF C_Packet, _packet_decode_header, SensorType, ClassOf
  <2>2. ImageLoadInfo.name = "FullImageName" /\ ImageLoadInfo.length = "FullImageNameSz"
    BY DEF ImageLoadInfo, Event
  <2>3. p.layout = C_LoadedImageInfo /\ p.name = "FullImageName" /\ p.length = "FullImageNameSz" /\ p.round = 16
    BY <1>1 DEF C_Packet
  <2>4. SameFields(C_LoadedImageInfo, ImageLoadInfo.layout) /\ NameIsLast(C_LoadedImageInfo, "FullImageName")
    BY ImageLoadInfoAgrees
  <2>5. Read(p, name)  BY <2>1, <2>2, <2>3, <2>4, PacketIsRead DEF Renamed, None
  <2> QED  BY <2>5 DEF Read
<1>2. CASE p = C_Packet(2, C_ProcessCreateInfo, "CommandLine", "CommandLineSz", 16)
  <2>1. _packet_decode_header(p.type) = ProcessCreateInfo
    BY <1>2 DEF C_Packet, _packet_decode_header, SensorType, ClassOf
  <2>2. ProcessCreateInfo.name = "CommandLine" /\ ProcessCreateInfo.length = "DataSz"
    BY DEF ProcessCreateInfo, Event
  <2>3. p.layout = C_ProcessCreateInfo /\ p.name = "CommandLine" /\ p.length = "CommandLineSz" /\ p.round = 16
    BY <1>2 DEF C_Packet
  <2>4. SameFields(C_ProcessCreateInfo, ProcessCreateInfo.layout) /\ NameIsLast(C_ProcessCreateInfo, "CommandLine")
    BY ProcessCreateInfoAgrees
  <2>5. Read(p, name)  BY <2>1, <2>2, <2>3, <2>4, PacketIsRead DEF Renamed, None
  <2> QED  BY <2>5 DEF Read
<1>3. CASE p = C_Packet(3, C_ProcessDestroyInfo, None, None, 16)
  <2>1. _packet_decode_header(p.type) = ProcessDestroyInfo
    BY <1>3 DEF C_Packet, _packet_decode_header, SensorType, ClassOf
  <2>2. ProcessDestroyInfo.name = None /\ ProcessDestroyInfo.length = None
    BY DEF ProcessDestroyInfo, Event
  <2>3. p.layout = C_ProcessDestroyInfo /\ p.name = None /\ p.length = None /\ p.round = 16
    BY <1>3 DEF C_Packet
  <2>4. SameFields(C_ProcessDestroyInfo, ProcessDestroyInfo.layout)  BY ProcessDestroyInfoAgrees
  <2>5. Read(p, name)  BY <2>1, <2>2, <2>3, <2>4, PacketIsRead DEF None
  <2> QED  BY <2>5 DEF Read
<1>4. CASE p = C_Packet(4, C_ThreadCreateInfo, None, None, 1)
  <2>1. _packet_decode_header(p.type) = ThreadCreateInfo
    BY <1>4 DEF C_Packet, _packet_decode_header, SensorType, ClassOf
  <2>2. ThreadCreateInfo.name = None /\ ThreadCreateInfo.length = None  BY DEF ThreadCreateInfo, Event
  <2>3. p.layout = C_ThreadCreateInfo /\ p.name = None /\ p.length = None /\ p.round = 1
    BY <1>4 DEF C_Packet
  <2>4. SameFields(C_ThreadCreateInfo, ThreadCreateInfo.layout)  BY ThreadCreateInfoAgrees
  <2>5. Read(p, name)  BY <2>1, <2>2, <2>3, <2>4, PacketIsRead DEF None
  <2> QED  BY <2>5 DEF Read
<1>5. CASE p = C_Packet(5, C_ThreadDestroyInfo, None, None, 1)
  <2>1. _packet_decode_header(p.type) = ThreadDestroyInfo
    BY <1>5 DEF C_Packet, _packet_decode_header, SensorType, ClassOf
  <2>2. ThreadDestroyInfo.name = None /\ ThreadDestroyInfo.length = None
    BY DEF ThreadDestroyInfo, Event
  <2>3. p.layout = C_ThreadDestroyInfo /\ p.name = None /\ p.length = None /\ p.round = 1
    BY <1>5 DEF C_Packet
  <2>4. SameFields(C_ThreadDestroyInfo, ThreadDestroyInfo.layout)  BY ThreadDestroyInfoAgrees
  <2>5. Read(p, name)  BY <2>1, <2>2, <2>3, <2>4, PacketIsRead DEF None
  <2> QED  BY <2>5 DEF Read
<1>6. CASE p = C_Packet(6, C_ProcessListValidationFailed, None, None, 1)
  <2>1. _packet_decode_header(p.type) = ProcessListValidationFailed
    BY <1>6 DEF C_Packet, _packet_decode_header, SensorType, ClassOf
  <2>2. ProcessListValidationFailed.name = None /\ ProcessListValidationFailed.length = None
    BY DEF ProcessListValidationFailed, Event
  <2>3. p.layout = C_ProcessListValidationFailed /\ p.name = None /\ p.length = None /\ p.round = 1
    BY <1>6 DEF C_Packet
  <2>4. SameFields(C_ProcessListValidationFailed, ProcessListValidationFailed.layout)
    BY ProcessListValidationFailedAgrees
  <2>5. Read(p, name)  BY <2>1, <2>2, <2>3, <2>4, PacketIsRead DEF None
  <2> QED  BY <2>5 DEF Read
<1>7. CASE p = C_Packet(7, C_RegQueryValueKeyInfo, "ValueName", "ValueNameLength", 1)
  <2>1. _packet_decode_header(p.type) = RegQueryValueKeyInfo
    BY <1>7 DEF C_Packet, _packet_decode_header, SensorType, ClassOf
  <2>2. RegQueryValueKeyInfo.name = "ValueName" /\ RegQueryValueKeyInfo.length = "ValueNameLength"
    BY DEF RegQueryValueKeyInfo, Event
  <2>3. p.layout = C_RegQueryValueKeyInfo /\ p.name = "ValueName" /\ p.length = "ValueNameLength" /\ p.round = 1
    BY <1>7 DEF C_Packet
  <2>4. SameFields(C_RegQueryValueKeyInfo, RegQueryValueKeyInfo.layout) /\ NameIsLast(C_RegQueryValueKeyInfo, "ValueName")
    BY RegQueryValueKeyInfoAgrees
  <2>5. Read(p, name)  BY <2>1, <2>2, <2>3, <2>4, PacketIsRead DEF Renamed, None
  <2> QED  BY <2>5 DEF Read
<1>8. CASE p = C_Packet(8, C_RegCreateKeyInfo, "CompleteName", "CompleteNameSz", 1)
  <2>1. _packet_decode_header(p.type) = RegCreateKeyInfo
    BY <1>8 DEF C_Packet, _packet_decode_header, SensorType, ClassOf
  <2>2. RegCreateKeyInfo.name = "CompleteName" /\ RegCreateKeyInfo.length = "CompleteNameSz"
    BY DEF RegCreateKeyInfo, Event
  <2>3. p.layout = C_RegCreateKeyInfo /\ p.name = "CompleteName" /\ p.length = "CompleteNameSz" /\ p.round = 1
    BY <1>8 DEF C_Packet
  <2>4. SameFields(C_RegCreateKeyInfo, RegCreateKeyInfo.layout) /\ NameIsLast(C_RegCreateKeyInfo, "CompleteName")
    BY RegCreateKeyInfoAgrees
  <2>5. Read(p, name)  BY <2>1, <2>2, <2>3, <2>4, PacketIsRead DEF Renamed, None
  <2> QED  BY <2>5 DEF Read
<1>9. CASE p = C_Packet(9, C_RegSetValueKeyInfo, "ValueName", "ValueNameLength", 1)
  <2>1. _packet_decode_header(p.type) = RegSetValueKeyInfo
    BY <1>9 DEF C_Packet, _packet_decode_header, SensorType, ClassOf
  <2>2. RegSetValueKeyInfo.name = "ValueName" /\ RegSetValueKeyInfo.length = "ValueNameLength"
    BY DEF RegSetValueKeyInfo, Event
  <2>3. p.layout = C_RegSetValueKeyInfo /\ p.name = "ValueName" /\ p.length = "ValueNameLength" /\ p.round = 1
    BY <1>9 DEF C_Packet
  <2>4. SameFields(C_RegSetValueKeyInfo, RegSetValueKeyInfo.layout) /\ NameIsLast(C_RegSetValueKeyInfo, "ValueName")
    BY RegSetValueKeyInfoAgrees
  <2>5. Read(p, name)  BY <2>1, <2>2, <2>3, <2>4, PacketIsRead DEF Renamed, None
  <2> QED  BY <2>5 DEF Read
<1>10. CASE p = C_Packet(10, C_RegCreateKeyInfo, "CompleteName", "CompleteNameSz", 1)
  <2>1. _packet_decode_header(p.type) = RegCreateKeyInfo
    BY <1>10 DEF C_Packet, _packet_decode_header, SensorType, ClassOf
  <2>2. RegCreateKeyInfo.name = "CompleteName" /\ RegCreateKeyInfo.length = "CompleteNameSz"
    BY DEF RegCreateKeyInfo, Event
  <2>3. p.layout = C_RegCreateKeyInfo /\ p.name = "CompleteName" /\ p.length = "CompleteNameSz" /\ p.round = 1
    BY <1>10 DEF C_Packet
  <2>4. SameFields(C_RegCreateKeyInfo, RegCreateKeyInfo.layout) /\ NameIsLast(C_RegCreateKeyInfo, "CompleteName")
    BY RegCreateKeyInfoAgrees
  <2>5. Read(p, name)  BY <2>1, <2>2, <2>3, <2>4, PacketIsRead DEF Renamed, None
  <2> QED  BY <2>5 DEF Read
<1>11. CASE p = C_Packet(11, C_RegDeleteValueKeyInfo, "ValueName", "ValueNameLength", 1)
  <2>1. _packet_decode_header(p.type) = RegDeleteValueKeyInfo
    BY <1>11 DEF C_Packet, _packet_decode_header, SensorType, ClassOf
  <2>2. RegDeleteValueKeyInfo.name = "ValueName" /\ RegDeleteValueKeyInfo.length = "ValueNameLength"
    BY DEF RegDeleteValueKeyInfo, Event
  <2>3. p.layout = C_RegDeleteValueKeyInfo /\ p.name = "ValueName" /\ p.length = "ValueNameLength" /\ p.round = 1
    BY <1>11 DEF C_Packet
  <2>4. SameFields(C_RegDeleteValueKeyInfo, RegDeleteValueKeyInfo.layout) /\ NameIsLast(C_RegDeleteValueKeyInfo, "ValueName")
    BY RegDeleteValueKeyInfoAgrees
  <2>5. Read(p, name)  BY <2>1, <2>2, <2>3, <2>4, PacketIsRead DEF Renamed, None
  <2> QED  BY <2>5 DEF Read
<1>12. CASE p = C_Packet(12, C_RegRenameKeyInfo, "NewName", "NewNameLength", 1)
  <2>1. _packet_decode_header(p.type) = RegRenameKeyInfo
    BY <1>12 DEF C_Packet, _packet_decode_header, SensorType, ClassOf
  <2>2. RegRenameKeyInfo.name = "NewName" /\ RegRenameKeyInfo.length = "NewNameLength"
    BY DEF RegRenameKeyInfo, Event
  <2>3. p.layout = C_RegRenameKeyInfo /\ p.name = "NewName" /\ p.length = "NewNameLength" /\ p.round = 1
    BY <1>12 DEF C_Packet
  <2>4. SameFields(C_RegRenameKeyInfo, RegRenameKeyInfo.layout) /\ NameIsLast(C_RegRenameKeyInfo, "NewName")
    BY RegRenameKeyInfoAgrees
  <2>5. Read(p, name)  BY <2>1, <2>2, <2>3, <2>4, PacketIsRead DEF Renamed, None
  <2> QED  BY <2>5 DEF Read
<1>13. CASE p = C_Packet(4097, C_RegPostOperationInfo, None, None, 1)
  <2>1. _packet_decode_header(p.type) = RegPostOperationInfo
    BY <1>13 DEF C_Packet, _packet_decode_header, SensorType, ClassOf
  <2>2. RegPostOperationInfo.name = None /\ RegPostOperationInfo.length = None
    BY DEF RegPostOperationInfo, Event
  <2>3. p.layout = C_RegPostOperationInfo /\ p.name = None /\ p.length = None /\ p.round = 1
    BY <1>13 DEF C_Packet
  <2>4. SameFields(C_RegPostOperationInfo, RegPostOperationInfo.layout)  BY RegPostOperationInfoAgrees
  <2>5. Read(p, name)  BY <2>1, <2>2, <2>3, <2>4, PacketIsRead DEF None
  <2> QED  BY <2>5 DEF Read
<1> QED  BY <1>1, <1>2, <1>3, <1>4, <1>5, <1>6, <1>7, <1>8, <1>9, <1>10, <1>11, <1>12, <1>13 DEF Emitted

\* A kernel address is reported as it is.
LEMMA PointerIsRead ==
    ASSUME NEW word \in 1..(2 * SignBit - 1)
    PROVE  PointerAgrees(word)
BY WinEventsAssumption DEF PointerAgrees, LongLongToHex, Signed, Abs

-----------------------------------------------------------------------------
(* Commands.                                                                 *)

LEMMA CommandMessagesAgree ==
    /\ SameFields(C_COMMAND_MESSAGE, COMMAND_MESSAGE)
    /\ COMMAND_MESSAGE.offset["Data"] = 32 /\ COMMAND_MESSAGE.size = 40
<1> DEFINE F(name) == << <<"Command", ULONG>>, <<name, UUID>>, <<"DataSz", LONGLONG>>, <<"Data", BYTE>> >>
           c == F("ProbeId")
           py == F("sensor_id")
           off == <<0, 4, 24, 32>>
<1>1. Declared(c) /\ Distinct(c) /\ Widest(c, 8)
  BY UuidSize DEF Declared, Distinct, Widest, ULONG, LONGLONG, BYTE, Primitive
<1>2. Declared(py) /\ Distinct(py) /\ Widest(py, 8)
  BY UuidSize DEF Declared, Distinct, Widest, ULONG, LONGLONG, BYTE, Primitive
<1>3. Twins(c, py, 8)  BY <1>1, <1>2 DEF Twins, TwinFields, Renamed
<1>4. Places(py, off)  BY UuidSize DEF Places, PlaceOf, RoundUp, ULONG, LONGLONG, BYTE, Primitive
<1>5. Laid(COMMAND_MESSAGE, py, off, 8)  BY <1>2, <1>4, StructureIs DEF COMMAND_MESSAGE
<1>6. COMMAND_MESSAGE.offset["Data"] = 32 /\ COMMAND_MESSAGE.size = 40
  BY <1>5 DEF Laid, RoundUp, BYTE, Primitive
<1>7. SameFields(C_COMMAND_MESSAGE, COMMAND_MESSAGE)
  BY <1>3, TwinsAgree DEF C_COMMAND_MESSAGE, COMMAND_MESSAGE
<1> QED  BY <1>6, <1>7

LEMMA ResponseMessagesAgree == SameFields(C_RESPONSE_MESSAGE, RESPONSE_MESSAGE)
<1> DEFINE f == << <<"Response", ULONG>>, <<"Status", ULONG>>, <<"DataSz", LONGLONG>>, <<"Data", BYTE>> >>
<1>1. Declared(f) /\ Distinct(f) /\ Widest(f, 8)
  BY DEF Declared, Distinct, Widest, ULONG, LONGLONG, BYTE, Primitive
<1>2. Twins(f, f, 8)  BY <1>1 DEF Twins, TwinFields, Renamed
<1> QED  BY <1>2, TwinsAgree DEF C_RESPONSE_MESSAGE, RESPONSE_MESSAGE

\* A text of single bytes is as long in UTF-8.
LEMMA AsciiLength ==
    ASSUME NEW n \in Nat, NEW widths \in [1..n -> {1, 2}], \A i \in 1..n : widths[i] = 1
    PROVE  Utf8(widths) = n
<1> DEFINE Rule(f) == f = [i \in 0..n |-> IF i = 0 THEN 0 ELSE f[i - 1] + widths[i]]
           sum == CHOOSE f : Rule(f)
           count == [i \in 0..n |-> i]
<1>1. Len(widths) = n  OBVIOUS
<1>2. Rule(count)
  <2>1. ASSUME NEW i \in 0..n PROVE count[i] = IF i = 0 THEN 0 ELSE count[i - 1] + widths[i]  OBVIOUS
  <2> QED  BY <2>1
<1>3. Rule(sum)
  <2> HIDE DEF Rule
  <2> QED  BY <1>2
<1>4. Utf8(widths) = sum[n]  BY <1>1 DEF Utf8
<1> HIDE DEF sum
<1> DEFINE Right == {i \in 1..n : sum[i] = i}
<1>5. sum[0] = 0  BY <1>3
<1>6. ASSUME NEW i \in 1..n PROVE sum[i] = sum[i - 1] + 1  BY <1>3
<1>7. n >= 1 => 1 \in Right  BY <1>5, <1>6
<1>8. \A i \in 1..n : i > 1 /\ i - 1 \in Right => i \in Right  BY <1>6
<1>9. \A i \in 1..n : i \in Right
  <2> HIDE DEF Right
  <2> QED  BY <1>7, <1>8, UpTo
<1> QED  BY <1>4, <1>5, <1>9

LEMMA SameCommandNumbers ==
    {WVU_COMMAND[c] : c \in DOMAIN WVU_COMMAND} = {C_WVU_COMMAND[c] : c \in DOMAIN C_WVU_COMMAND}
<1>1. {WVU_COMMAND[c] : c \in DOMAIN WVU_COMMAND} = {0, 1, 2, 3, 4, 5, 6, 7}  BY DEF WVU_COMMAND
<1>2. {C_WVU_COMMAND[c] : c \in DOMAIN C_WVU_COMMAND} = {0, 1, 2, 3, 4, 5, 6, 7}  BY DEF C_WVU_COMMAND
<1> QED  BY <1>1, <1>2

\* The buffer of a command holds its data, all of them copied.
Fits(m) == COMMAND_MESSAGE.offset["Data"] + m.DataSz <= m.buffer /\ m.copied = m.DataSz
LEMMA CommandFits ==
    ASSUME NEW name, NEW id, NEW n \in Nat
    PROVE  Fits(Command(name, id, n, n))
BY CommandMessagesAgree DEF Fits, Command

LEMMA CommandIsRead ==
    ASSUME NEW widths \in Widths, NEW id \in 0..2
    PROVE  CommandAgrees(widths, id)
<1>1. PICK n \in Nat : widths \in [1..n -> {1, 2}] /\ Len(widths) = n
  <2>1. PICK n \in 0..MaxData : widths \in [1..n -> {1, 2}]  BY DEF Widths
  <2>2. n \in Nat  BY WinDecodersAssumption
  <2> QED  BY <2>1, <2>2
<1> DEFINE kill == OneShotKill(n)
           configure == Command("ConfigureSensor", id, n, n)
<1>2. Sent(widths, id) \subseteq {Echo, EnableUnload, DisableUnload, EnableProbe(id), DisableProbe(id), kill, configure}
      /\ ConfigureSensor(widths, id) \subseteq {configure}
  BY <1>1 DEF Sent, ConfigureSensor
<1>3. \A m \in {Echo, EnableUnload, DisableUnload, EnableProbe(id), DisableProbe(id), kill, configure} : Fits(m)
  BY CommandFits, <1>1 DEF Echo, EnableUnload, DisableUnload, EnableProbe, DisableProbe, OneShotKill
<1>4. \A m \in {EnableProbe(id), DisableProbe(id), configure} :
          OnCommandMessage(m, ProbeIds) = IF id = ZEROGUID THEN ProbeIds ELSE {id}
  <2> SUFFICES ASSUME NEW m \in {EnableProbe(id), DisableProbe(id), configure}
               PROVE  OnCommandMessage(m, ProbeIds) = IF id = ZEROGUID THEN ProbeIds ELSE {id}
    OBVIOUS
  <2>1. m.sensor_id = id /\ m.Command \in {1, 2, 6}
    BY DEF EnableProbe, DisableProbe, Command, WVU_COMMAND
  <2>2. OnCommandMessage(m, ProbeIds) = IF id = ZEROGUID THEN ProbeIds ELSE ProbeIds \cap {id}
    BY <2>1 DEF OnCommandMessage, C_WVU_COMMAND
  <2>3. id # ZEROGUID => id \in ProbeIds  BY DEF ProbeIds, ZEROGUID
  <2> QED  BY <2>2, <2>3
<1>5. OnCommandMessage(kill, ProbeIds) = {KillProbe}
  BY DEF OneShotKill, Command, WVU_COMMAND, C_WVU_COMMAND, OnCommandMessage
<1>6. \A m \in {Echo, EnableUnload, DisableUnload} : OnCommandMessage(m, ProbeIds) = {}
  BY DEF Echo, EnableUnload, DisableUnload, Command, WVU_COMMAND, C_WVU_COMMAND, OnCommandMessage
<1>7. (\A i \in DOMAIN widths : widths[i] = 1) => configure.copied = Utf8(widths)
  BY <1>1, AsciiLength DEF Command
<1> HIDE DEF kill, configure
<1>8. \A m \in Sent(widths, id) : Fits(m)  BY <1>2, <1>3
<1>9. \A m \in Sent(widths, id) : id # ZEROGUID => OnCommandMessage(m, ProbeIds) \subseteq {id, KillProbe}
  BY <1>2, <1>4, <1>5, <1>6
<1>10. \A m \in {EnableProbe(id), DisableProbe(id)} \cup ConfigureSensor(widths, id) :
          OnCommandMessage(m, ProbeIds) = IF id = ZEROGUID THEN ProbeIds ELSE {id}
  BY <1>2, <1>4
<1>11. (\A i \in DOMAIN widths : widths[i] = 1) =>
          \A m \in ConfigureSensor(widths, id) : m.copied = Utf8(widths)
  BY <1>2, <1>7
<1>12. OnCommandMessage(OneShotKill(Len(widths)), ProbeIds) = {KillProbe}  BY <1>1, <1>5 DEF kill
<1> QED

    BY <1>6, <1>8, <1>9, <1>10, <1>11, <1>12, CommandMessagesAgree, ResponseMessagesAgree, SameCommandNumbers
  DEF CommandAgrees, Fits

-----------------------------------------------------------------------------
(* The listing of the probes.                                                *)

LEMMA StatusHeadersAgree == SensorStatusHeader.size = 4 /\ C_ProbeStatusHeader.size = 4
<1> DEFINE f == << <<"NumberOfEntries", ULONG>> >>
           off == <<0>>
<1>1. Declared(f) /\ Distinct(f) /\ Widest(f, 4)  BY DEF Declared, Distinct, Widest, ULONG, Primitive
<1>2. Places(f, off)  BY DEF Places, PlaceOf
<1>3. Laid(SensorStatusHeader, f, off, 4) /\ Laid(C_ProbeStatusHeader, f, off, 4)
  BY <1>1, <1>2, StructureIs DEF SensorStatusHeader, C_ProbeStatusHeader
<1> QED  BY <1>3 DEF Laid, RoundUp, ULONG, Primitive

LEMMA StatusesAgree ==
    SameFields(C_ProbeStatus, SensorStatus) /\ SensorStatus.size = 104 /\ C_ProbeStatus.size = 104
<1> DEFINE F(id, name) ==
               << <<id, UUID>>, <<"LastRunTime", LONGLONG>>, <<"RunInterval", LONGLONG>>,
                  <<"OperationCount", ULONG>>, <<"Attributes", USHORT>>, <<"Enabled", BYTE>>, <<name, BYTES(64)>> >>
           c == F("ProbeId", "ProbeName")
           py == F("sensor_id", "SensorName")
           off == <<0, 16, 24, 32, 36, 38, 39>>
<1>1. Declared(c) /\ Distinct(c) /\ Widest(c, 8)
  BY UuidSize DEF Declared, Distinct, Widest, ULONG, LONGLONG, USHORT, BYTE, BYTES, Primitive
<1>2. Declared(py) /\ Distinct(py) /\ Widest(py, 8)
  BY UuidSize DEF Declared, Distinct, Widest, ULONG, LONGLONG, USHORT, BYTE, BYTES, Primitive
<1>3. Twins(c, py, 8)  BY <1>1, <1>2 DEF Twins, TwinFields, Renamed
<1>4. Places(c, off) /\ Places(py, off)
  BY UuidSize DEF Places, PlaceOf, RoundUp, ULONG, LONGLONG, USHORT, BYTE, BYTES, Primitive
<1>5. Laid(C_ProbeStatus, c, off, 8)  BY <1>1, <1>4, StructureIs DEF C_ProbeStatus
<1>6. Laid(SensorStatus, py, off, 8)  BY <1>2, <1>4, StructureIs DEF SensorStatus, MAXSENSORNAMESZ
<1>7. SensorStatus.size = 104 /\ C_ProbeStatus.size = 104  BY <1>5, <1>6 DEF Laid, RoundUp, BYTES
<1>8. SameFields(C_ProbeStatus, SensorStatus)
  BY <1>3, TwinsAgree DEF C_ProbeStatus, SensorStatus, MAXSENSORNAMESZ
<1> QED  BY <1>7, <1>8

\* The entries of up to 39 probes are found, and fit the response.
LEMMA ListingIsRead ==
    ASSUME NEW count \in 0..MaxProbes
    PROVE  ListingAgrees(count)
<1>1. count \in 0..39  BY WinDecodersAssumption
<1>2. \A ndx : EntryAt(ndx) = C_ProbeStatusHeader.size + ndx * C_ProbeStatus.size
  BY StatusHeadersAgree, StatusesAgree DEF EntryAt
<1>3. EnumerateSensors(count) = {C_ProbeStatusHeader.size + ndx * C_ProbeStatus.size : ndx \in 0..(count - 1)}
  BY <1>2 DEF EnumerateSensors
<1>4. ASSUME NEW ndx \in 0..(count - 1)
      PROVE  EntryAt(ndx) + SensorStatus.size
                 <= FilterSendMessage(C_ProbeStatusHeader.size + count * C_ProbeStatus.size)
  <2>1. EntryAt(ndx) = 4 + ndx * 104 /\ C_ProbeStatusHeader.size + count * C_ProbeStatus.size = 4 + count * 104
    BY StatusHeadersAgree, StatusesAgree DEF EntryAt
  <2>2. 4 + count * 104 < 4096 /\ 4 + ndx * 104 + 104 <= 4 + count * 104  BY <1>1
  <2> QED  BY <2>1, <2>2, StatusesAgree DEF FilterSendMessage, MAXRSPSZ
<1>5. \A at \in EnumerateSensors(count) :
          at + SensorStatus.size <= FilterSendMessage(C_ProbeStatusHeader.size + count * C_ProbeStatus.size)
  BY <1>4 DEF EnumerateSensors
<1>6. C_ProbeAttributes \subseteq SensorAttributeFlags
  <2>1. 0 = 2 * 0 /\ 2 = 2 * 1 /\ 4 = 2 * 2 /\ 8 = 2 * 4 /\ 16 = 2 * 8  OBVIOUS
  <2> QED  BY <2>1 DEF C_ProbeAttributes, SensorAttributeFlags
<1> QED  BY <1>3, <1>5, <1>6, StatusesAgree DEF ListingAgrees

-----------------------------------------------------------------------------
(* The theorems.                                                             *)

\* The input is one of those there are, and never changes.
LEMMA InputsStay == Spec => []Init
<1>1. Init /\ [Next]_input => Init'  BY DEF Init, Next
<1> QED  BY <1>1, PTL DEF Spec

LEMMA InputsAreRead == Init => EventsAreRead /\ CommandsAreRead
<1> SUFFICES ASSUME Init PROVE EventsAreRead /\ CommandsAreRead  OBVIOUS
<1>1. CASE input \in Input("event", Emitted \X Names)
  <2>1. input.kind = "event" /\ input.value[1] \in Emitted /\ input.value[2] \in Names
    BY <1>1 DEF Input
  <2> QED  BY <2>1, EventIsRead DEF EventsAreRead, CommandsAreRead
<1>2. CASE input \in Input("command", Widths \X (0..2))
  <2>1. input.kind = "command" /\ input.value[1] \in Widths /\ input.value[2] \in 0..2
    BY <1>2 DEF Input
  <2> QED  BY <2>1, CommandIsRead DEF EventsAreRead, CommandsAreRead
<1>3. CASE input \in Input("listing", 0..MaxProbes)
  <2>1. input.kind = "listing" /\ input.value \in 0..MaxProbes  BY <1>3 DEF Input
  <2> QED  BY <2>1, ListingIsRead DEF EventsAreRead, CommandsAreRead
<1>4. CASE input \in Input("pointer", 1..(2 * SignBit - 1))
  <2>1. input.kind = "pointer" /\ input.value \in 1..(2 * SignBit - 1)  BY <1>4 DEF Input
  <2> QED  BY <2>1, PointerIsRead DEF EventsAreRead, CommandsAreRead
<1> QED  BY <1>1, <1>2, <1>3, <1>4 DEF Init

\* Every packet the driver emits is decoded field by field and its name read whole, whatever
\* the name, and every kernel address is reported as it is (_packet_decode_header, build,
\* LongLongToHex).
THEOREM EventsCorrect == Spec => []EventsAreRead
<1>1. Init => EventsAreRead  BY InputsAreRead
<1> QED  BY <1>1, InputsStay, PTL

\* Every command is read by the driver as the service meant it, whatever its data, and the
\* listing of as many probes as a response has room for is read entry by entry.
THEOREM CommandsCorrect == Spec => []CommandsAreRead
<1>1. Init => CommandsAreRead  BY InputsAreRead
<1> QED  BY <1>1, InputsStay, PTL
=============================================================================
