-------------------------- MODULE NfsMonitor_proofs --------------------------
(***************************************************************************)
(* Proofs about the NFS sensor: the paths it has for handles are true,     *)
(* which replies end it, and what stays in the table of reply classes.     *)
(***************************************************************************)
EXTENDS NfsMonitor, SequenceTheorems, FiniteSetTheorems, TLAPS

Component == Mounts \cup Names \cup {Unknown, "dir_op_args"}
CallSet ==
    {call \in [client : Clients, xid : Nat, proc : Procs, h : Handles \cup {None}, n : Names \cup {None},
               h2 : Handles \cup {None}, n2 : Names \cup {None}, m : Mounts \cup {None}] :
        /\ call.proc \in DirArg => call.h \notin Files /\ call.n \in Names
        /\ call.proc \in {"RENAME", "LINK"} => call.n2 \in Names
        /\ call.proc = "MNT" => call.m \in Mounts}
PacketSet ==
    [dir : {"call"}, call : CallSet]
    \cup [dir : {"reply"}, call : CallSet, accept : {"SUCCESS", "PROG_MISMATCH", "PROC_UNAVAIL"},
          ok : BOOLEAN, h : Handles \cup {None}, last : BOOLEAN]

OnWire == {wire[i] : i \in 1..Len(wire)}
Replies == {p \in OnWire : p.dir = "reply"}
Reports == sent \cup {log_messages[i] : i \in 1..Len(log_messages)}

NfsTypes ==
    /\ \A p \in DOMAIN fs : p \in Seq(Component) /\ p # <<>> /\ fs[p] \in Handles
    /\ \A e \in ever : e = <<e[1], e[2]>>
    /\ calls \in Nat /\ pending \subseteq CallSet /\ wire \in Seq(PacketSet)
    /\ \A x \in DOMAIN xid_call_map : xid_call_map[x] \in CallSet /\ xid_call_map[x].xid = x
    /\ maps = [handle_name |-> maps.handle_name, name_handle |-> maps.name_handle, active_mount |-> maps.active_mount]
    /\ \A h \in DOMAIN maps.handle_name : maps.handle_name[h] \in Seq(Component) /\ maps.handle_name[h] # <<>>
    /\ \E S : log_messages \in Seq(S)

\* The server: a handle has had every path that is in the tree, and one that is
\* not a file's has had one only.
Located == \A p \in DOMAIN fs : <<fs[p], p>> \in ever
Fixed == \A e, f \in ever : e[1] = f[1] /\ e[1] \notin Files => e[2] = f[2]

\* What a reply that says yes tells about the tree.
Entries == {"LOOKUP", "CREATE", "MKDIR", "SYMLINK"}
Truthful(p, pairs) ==
    p.ok =>
        /\ p.call.proc = "MNT" => p.h = p.call.m
        /\ p.call.proc \in Entries /\ (p.call.proc = "LOOKUP" \/ p.h # None) =>
               \E e \in pairs : e[1] = p.call.h /\ <<p.h, Append(e[2], p.call.n)>> \in pairs
TreeInv ==
    /\ \A m \in Mounts : <<m, <<m>>>> \in ever
    /\ Located /\ Fixed
    /\ \A p \in Replies : Truthful(p, ever)
    /\ PathsWereTrue

\* An XID tells a call, and the reply to it.
AllCalls == pending \cup {p.call : p \in OnWire} \cup {xid_call_map[x] : x \in DOMAIN xid_call_map}
XidInv ==
    /\ \A a \in AllCalls : a.xid \in 1..calls
    /\ \A a, b \in AllCalls : a.xid = b.xid => a = b
    /\ \A p, q \in Replies : p.call.xid = q.call.xid => p = q
    /\ \A p \in Replies, call \in pending : p.call.xid # call.xid

\* The sniffer has a call in both tables until a part of the reply has come.
TableInv ==
    \A x \in DOMAIN xid_call_map :
        IF x \in DOMAIN xid_reply_map THEN xid_reply_map[x] = xid_call_map[x].proc
        ELSE /\ \A call \in pending : call.xid # x
             /\ \A p \in Replies : p.call.xid = x => ~p.last

\* A call is received once, and before it is reported.
OnceInv ==
    /\ \A i, j \in 1..Len(wire) :
           i # j /\ wire[i].dir = "call" /\ wire[j].dir = "call" => wire[i].call.xid # wire[j].call.xid
    /\ \A p \in OnWire : p.dir = "call" =>
           p.call.xid \notin DOMAIN xid_call_map /\ \A m \in Reports : m.of.xid # p.call.xid
    /\ \A m \in Reports : m.of.xid \in 1..calls
    /\ \A m \in Reports : m.of.xid \in DOMAIN xid_reply_map => m.of.proc \in {"NULL", "UMNT", "UMNTALL", "MNT"}

NfsInv == TreeInv /\ XidInv /\ TableInv /\ OnceInv

-----------------------------------------------------------------------------
(* Sequences and tables.                                                   *)

LEMMA SeqOfMore ==
    ASSUME NEW S, NEW T, S \subseteq T, NEW s \in Seq(S)
    PROVE  s \in Seq(T)
<1>1. s \in [1..Len(s) -> S] /\ Len(s) \in Nat  BY LenProperties
<1>2. s \in [1..Len(s) -> T]  BY <1>1
<1> QED  BY <1>1, <1>2, SeqDef

\* The elements of a set of at most one element, as a sequence.
LEMMA SetToSeqOfOne ==
    ASSUME NEW S, S = {} \/ \E x : S = {x}
    PROVE  SetToSeq(S) \in Seq(S)
<1>1. CASE S = {}
  <2>1. Cardinality(S) = 0  BY <1>1, FS_EmptySet
  <2> DEFINE e == [i \in 1..0 |-> i]
  <2>2. e \in [1..Cardinality(S) -> S] /\ IsInjective(e)  BY <1>1, <2>1 DEF IsInjective
  <2>3. SetToSeq(S) \in [1..Cardinality(S) -> S]  BY <2>2, Zenon DEF SetToSeq
  <2> QED  BY <2>1, <2>3, SeqDef
<1>2. CASE \E x : S = {x}
  <2>1. PICK x : S = {x}  BY <1>2
  <2>2. Cardinality(S) = 1  BY <2>1, FS_Singleton
  <2> DEFINE e == [i \in 1..1 |-> x]
  <2>3. e \in [1..Cardinality(S) -> S] /\ IsInjective(e)  BY <2>1, <2>2 DEF IsInjective
  <2>4. SetToSeq(S) \in [1..Cardinality(S) -> S]  BY <2>3, Zenon DEF SetToSeq
  <2> QED  BY <2>2, <2>4, SeqDef
<1> QED  BY <1>1, <1>2

LEMMA WithoutFirst ==
    ASSUME NEW S, NEW w \in Seq(S), w # <<>>
    PROVE  /\ Head(w) = w[1] /\ 1 \in 1..Len(w) /\ Head(w) \in S /\ Tail(w) \in Seq(S)
           /\ \A i \in 1..Len(Tail(w)) : i + 1 \in 1..Len(w) /\ i # i + 1 /\ i \in Int /\ Tail(w)[i] = w[i + 1]
<1>1. /\ Head(w) \in S /\ Tail(w) \in Seq(S) /\ Len(Tail(w)) = Len(w) - 1
      /\ \A i \in 1..Len(Tail(w)) : Tail(w)[i] = w[i + 1]
  BY HeadTailProperties
<1>2. Len(w) \in Nat /\ Len(w) # 0  BY LenProperties, EmptySeq
<1>3. Head(w) = w[1]  OBVIOUS
<1> QED  BY <1>1, <1>2, <1>3

LEMMA WithLast ==
    ASSUME NEW S, NEW w \in Seq(S), NEW v \in Seq(S)
    PROVE  /\ w \o v \in Seq(S)
           /\ \A i \in 1..Len(w \o v) :
                  \/ i \in 1..Len(w) /\ (w \o v)[i] = w[i]
                  \/ i \notin 1..Len(w) /\ i - Len(w) \in 1..Len(v) /\ (w \o v)[i] = v[i - Len(w)]
<1>1. /\ w \o v \in Seq(S) /\ Len(w \o v) = Len(w) + Len(v)
      /\ \A i \in 1..(Len(w) + Len(v)) : (w \o v)[i] = IF i <= Len(w) THEN w[i] ELSE v[i - Len(w)]
  BY ConcatProperties
<1>2. Len(w) \in Nat /\ Len(v) \in Nat  BY LenProperties
<1>3. ASSUME NEW i \in 1..Len(w \o v)
      PROVE  \/ i \in 1..Len(w) /\ (w \o v)[i] = w[i]
             \/ i \notin 1..Len(w) /\ i - Len(w) \in 1..Len(v) /\ (w \o v)[i] = v[i - Len(w)]
  <2>1. i \in 1..(Len(w) + Len(v))  BY <1>1
  <2>2. CASE i <= Len(w)
    <3>1. (w \o v)[i] = w[i]  BY <1>1, <2>1, <2>2
    <3> QED  BY <1>2, <2>1, <2>2, <3>1
  <2>3. CASE ~(i <= Len(w))
    <3>1. (w \o v)[i] = v[i - Len(w)]  BY <1>1, <2>1, <2>3
    <3>2. i \notin 1..Len(w) /\ i - Len(w) \in 1..Len(v)  BY <1>2, <2>1, <2>3
    <3> QED  BY <3>1, <3>2
  <2> QED  BY <2>2, <2>3
<1> QED  BY <1>1, <1>3

LEMMA ProgramOf ==
    ASSUME NEW proc \in Procs
    PROVE  /\ Program(proc) \in DOMAIN Tables /\ proc \in DOMAIN Tables[Program(proc)]
           /\ proc \in NfsProcs <=> Program(proc) = "nfs"
<1>1. \E prog \in DOMAIN Tables : proc \in DOMAIN Tables[prog]  BY ProcsAssumption
<1>2. Program(proc) \in DOMAIN Tables /\ proc \in DOMAIN Tables[Program(proc)]  BY <1>1, Zenon DEF Program
<1> QED  BY <1>2, TablesAssumption

-----------------------------------------------------------------------------
(* The server.                                                             *)

\* What an outcome of a call may say and change.
Sound(o, call) ==
    /\ o.ok \in BOOLEAN /\ o.h \in Handles \cup {None}
    /\ \A p \in DOMAIN o.fs : p \in Seq(Component) /\ p # <<>> /\ o.fs[p] \in Handles
    /\ \A p \in DOMAIN o.fs :
           \/ <<o.fs[p], p>> \in ever
           \/ o.fs[p] \in Files
           \/ /\ \A e \in ever : e[1] # o.fs[p]
              /\ \A q \in DOMAIN o.fs : o.fs[q] = o.fs[p] => q = p
    /\ o.ok /\ call.proc = "MNT" => o.h = call.m
    /\ o.ok /\ call.proc \in Entries =>
           \E e \in ever : /\ e[1] = call.h
                           /\ Append(e[2], call.n) \in DOMAIN o.fs /\ o.fs[Append(e[2], call.n)] = o.h

LEMMA RefusedIsSound ==
    ASSUME NfsTypes, TreeInv, NEW call
    PROVE  Sound(Refused, call)
BY DEF Sound, Refused, Outcome, NfsTypes, TreeInv, Located

LEMMA PlaceOf ==
    ASSUME NfsTypes, TreeInv, NEW h, NEW n \in Names, At(h, n) # <<>>
    PROVE  /\ h \in Known /\ \E e \in ever : e[1] = h /\ At(h, n) = Append(e[2], n)
           /\ At(h, n) \in Seq(Component)
<1>1. h \in Known /\ At(h, n) = PathOf(h) \o <<n>>  BY DEF At
<1>2. \E p \in DOMAIN fs : fs[p] = h  BY <1>1 DEF Known
<1>3. PathOf(h) \in DOMAIN fs /\ fs[PathOf(h)] = h  BY <1>2, Zenon DEF PathOf
<1> DEFINE p == PathOf(h)
<1>4. p \in Seq(Component) /\ <<h, p>> \in ever  BY <1>3 DEF NfsTypes, TreeInv, Located
<1> HIDE DEF p
<1>5. n \in Component  BY DEF Component
<1>6. p \o <<n>> = Append(p, n) /\ Append(p, n) \in Seq(Component)  BY <1>4, <1>5, AppendIsConcat, AppendProperties
<1>7. <<h, p>>[1] = h /\ <<h, p>>[2] = p  OBVIOUS
<1> QED  BY <1>1, <1>4, <1>6, <1>7 DEF p

LEMMA MadeIsSound ==
    ASSUME NfsTypes, TreeInv, NEW call \in CallSet, call.proc \in {"CREATE", "SYMLINK", "MKDIR"},
           NEW S, S \subseteq Handles, NEW o \in Made(At(call.h, call.n), S)
    PROVE  Sound(o, call)
<1> DEFINE p == At(call.h, call.n)
<1>1. CASE o = Refused  BY <1>1, RefusedIsSound
<1>2. ASSUME NEW h \in Unused(S), o = Outcome(TRUE, h, With(fs, p, h)), p # <<>>, p \notin DOMAIN fs
      PROVE  Sound(o, call)
  <2>1. call.n \in Names  BY DEF CallSet, DirArg
  <2>2. PICK e \in ever : e[1] = call.h /\ p = Append(e[2], call.n)  BY <1>2, <2>1, PlaceOf
  <2>3. p \in Seq(Component)  BY <1>2, <2>1, PlaceOf
  <2> HIDE DEF p
  <2>4. h \in Handles /\ \A f \in ever : f[1] # h  BY <1>2 DEF Unused
  <2>5. o.ok = TRUE /\ o.h = h /\ o.fs = With(fs, p, h)  BY <1>2 DEF Outcome
  <2> DEFINE g == With(fs, p, h)
  <2>6. /\ DOMAIN g = DOMAIN fs \cup {p} /\ g[p] = h
        /\ \A q \in DOMAIN fs : q # p => g[q] = fs[q]
    BY DEF With
  <2> HIDE DEF g
  <2>7. \A q \in DOMAIN g : q \in Seq(Component) /\ q # <<>> /\ g[q] \in Handles
    BY <1>2, <2>3, <2>4, <2>6 DEF NfsTypes
  <2>8. \A q \in DOMAIN fs : <<fs[q], q>> \in ever /\ fs[q] # h
    <3>1. ASSUME NEW q \in DOMAIN fs PROVE <<fs[q], q>> \in ever /\ fs[q] # h
      <4>1. <<fs[q], q>> \in ever /\ <<fs[q], q>>[1] = fs[q]  BY DEF TreeInv, Located
      <4> QED  BY <2>4, <4>1
    <3> QED  BY <3>1
  <2>9. ASSUME NEW q \in DOMAIN g
        PROVE  \/ <<g[q], q>> \in ever
               \/ /\ \A f \in ever : f[1] # g[q]
                  /\ \A r \in DOMAIN g : g[r] = g[q] => r = q
    <3>1. CASE q = p
      <4>1. \A r \in DOMAIN g : r # p => g[r] # h  BY <2>6, <2>8
      <4> QED  BY <2>4, <2>6, <3>1, <4>1
    <3>2. CASE q # p  BY <2>6, <2>8, <3>2
    <3> QED  BY <3>1, <3>2
  <2>10. call.proc # "MNT"  OBVIOUS
  <2>11. o.ok \in BOOLEAN /\ o.h \in Handles \cup {None} /\ o.fs = g /\ o.h = g[p] /\ p \in DOMAIN g
    BY <2>4, <2>5, <2>6 DEF g
  <2> QED  BY <2>2, <2>7, <2>9, <2>10, <2>11 DEF Sound
<1> QED  BY <1>1, <1>2 DEF Made

\* Names that files lose or get.
LEMMA TreeIsSound ==
    ASSUME NfsTypes, TreeInv, NEW call, call.proc \notin Entries \cup {"MNT"},
           NEW ok \in BOOLEAN, NEW g,
           \A p \in DOMAIN g : \/ p \in DOMAIN fs /\ g[p] = fs[p]
                               \/ p \in Seq(Component) /\ p # <<>> /\ g[p] \in Files
    PROVE  Sound(Outcome(ok, None, g), call)
<1>1. \A p \in DOMAIN g : p \in Seq(Component) /\ p # <<>> /\ g[p] \in Handles  BY DEF NfsTypes, Handles
<1>2. \A p \in DOMAIN g : <<g[p], p>> \in ever \/ g[p] \in Files  BY DEF TreeInv, Located
<1> QED  BY <1>1, <1>2 DEF Sound, Outcome

LEMMA OutcomesAreSound ==
    ASSUME NfsTypes, TreeInv, NEW call \in CallSet, NEW o \in Outcomes(call)
    PROVE  Sound(o, call)
<1> DEFINE p == At(call.h, call.n)
           q == At(call.h2, call.n2)
<1>0. CASE o = Refused  BY <1>0, RefusedIsSound
<1>1. CASE call.proc = "LOOKUP"
  <2>1. o \in IF p \in DOMAIN fs THEN {Outcome(TRUE, fs[p], fs)} ELSE {Refused}  BY <1>1 DEF Outcomes
  <2>2. CASE p \notin DOMAIN fs  BY <1>0, <2>1, <2>2
  <2>3. CASE p \in DOMAIN fs
    <3>1. o = Outcome(TRUE, fs[p], fs)  BY <2>1, <2>3
    <3>2. call.n \in Names  BY <1>1 DEF CallSet, DirArg
    <3>3. p # <<>> /\ fs[p] \in Handles  BY <2>3 DEF NfsTypes
    <3>4. PICK e \in ever : e[1] = call.h /\ p = Append(e[2], call.n)  BY <3>2, <3>3, PlaceOf
    <3> HIDE DEF p
    <3>5. o.ok = TRUE /\ o.h = fs[p] /\ o.fs = fs  BY <3>1 DEF Outcome
    <3> QED  BY <1>1, <2>3, <3>3, <3>4, <3>5 DEF Sound, NfsTypes, TreeInv, Located
  <2> QED  BY <2>2, <2>3
<1>2. CASE call.proc \in {"CREATE", "SYMLINK"}
  <2>1. o \in Made(p, Files) /\ Files \subseteq Handles  BY <1>2 DEF Outcomes, Handles
  <2> QED  BY <1>2, <2>1, MadeIsSound
<1>3. CASE call.proc = "MKDIR"
  <2>1. o \in Made(p, Dirs) /\ Dirs \subseteq Handles  BY <1>3 DEF Outcomes, Handles
  <2> QED  BY <1>3, <2>1, MadeIsSound
<1>4. CASE call.proc \in {"REMOVE", "RMDIR"}
  <2>1. PICK S : o \in Gone(p, S)  BY <1>4 DEF Outcomes
  <2>2. o = Refused \/ o = Outcome(TRUE, None, Without(fs, {p}))  BY <2>1 DEF Gone
  <2>3. \A r \in DOMAIN Without(fs, {p}) : r \in DOMAIN fs /\ Without(fs, {p})[r] = fs[r]  BY DEF Without
  <2>4. call.proc \notin Entries \cup {"MNT"}  BY <1>4 DEF Entries
  <2>5. Sound(Outcome(TRUE, None, Without(fs, {p})), call)  BY <2>3, <2>4, TreeIsSound
  <2> QED  BY <1>0, <2>2, <2>5
<1>5. CASE call.proc \in {"RENAME", "LINK"}
  <2>1. call.n2 \in Names  BY <1>5 DEF CallSet
  <2>2. q # <<>> => q \in Seq(Component)  BY <2>1, PlaceOf
  <2>3. call.proc \notin Entries \cup {"MNT"}  BY <1>5 DEF Entries
  <2> HIDE DEF q
  <2>4. o = Refused \/ \E h \in Files : \E S : q # <<>> /\ o = Outcome(TRUE, None, With(Without(fs, S), q, h))
    <3>1. CASE call.proc = "RENAME"
      <4>1. o \in Moved(p, q)  BY <3>1 DEF Outcomes, q
      <4> QED  BY <4>1 DEF Moved
    <3>2. CASE call.proc = "LINK"
      <4>1. o \in Linked(call.h, q)  BY <3>2 DEF Outcomes, q
      <4>2. With(Without(fs, {}), q, call.h) = With(fs, q, call.h)  BY DEF With, Without
      <4> QED  BY <4>1, <4>2 DEF Linked
    <3> QED  BY <1>5, <3>1, <3>2
  <2>5. ASSUME NEW h \in Files, NEW S, q # <<>>
        PROVE  Sound(Outcome(TRUE, None, With(Without(fs, S), q, h)), call)
    <3> DEFINE g == With(Without(fs, S), q, h)
    <3>1. \A r \in DOMAIN g : (r \in DOMAIN fs /\ g[r] = fs[r]) \/ (r = q /\ g[r] = h)  BY DEF With, Without
    <3> HIDE DEF g
    <3>2. Sound(Outcome(TRUE, None, g), call)  BY <2>2, <2>3, <2>5, <3>1, TreeIsSound
    <3> QED  BY <3>2 DEF g
  <2> QED  BY <1>0, <2>4, <2>5
<1>6. CASE call.proc = "MNT"
  <2>1. o = Refused \/ o = Outcome(TRUE, call.m, fs)  BY <1>6 DEF Outcomes
  <2>2. call.m \in Handles  BY <1>6 DEF CallSet, Handles
  <2>3. Sound(Outcome(TRUE, call.m, fs), call)
    BY <1>6, <2>2 DEF Sound, Outcome, Entries, NfsTypes, TreeInv, Located
  <2> QED  BY <1>0, <2>1, <2>3
<1>7. CASE call.proc \notin {"LOOKUP", "CREATE", "SYMLINK", "MKDIR", "REMOVE", "RMDIR", "RENAME", "LINK", "MNT"}
  <2>1. o = Refused \/ o = Outcome(TRUE, None, fs)  BY <1>7 DEF Outcomes
  <2>2. call.proc \notin Entries \cup {"MNT"}  BY <1>7 DEF Entries
  <2>3. Sound(Outcome(TRUE, None, fs), call)  BY <2>2, TreeIsSound
  <2> QED  BY <1>0, <2>1, <2>3
<1> QED  BY <1>1, <1>2, <1>3, <1>4, <1>5, <1>6, <1>7

\* How an answer comes.
LEMMA WaysOf ==
    ASSUME NEW call, NEW way \in Ways(call) \cup Rejections
    PROVE  /\ way.accept \in {"SUCCESS", "PROG_MISMATCH", "PROC_UNAVAIL"} /\ way.last \in BOOLEAN /\ way.copies \in Nat
           /\ call.proc \notin {"CREATE", "MKDIR", "SYMLINK"} => way.follows
<1>1. CASE way = Way("SUCCESS", TRUE, TRUE, 1)  BY <1>1 DEF Way
<1>2. CASE way = Way("SUCCESS", FALSE, TRUE, 1) /\ call.proc \in {"CREATE", "MKDIR", "SYMLINK"}  BY <1>2 DEF Way
<1>3. CASE way = Way("SUCCESS", TRUE, TRUE, 2)  BY <1>3 DEF Way
<1>4. CASE way = Way("SUCCESS", TRUE, FALSE, 2)  BY <1>4 DEF Way
<1>5. CASE \E a \in {"PROG_MISMATCH", "PROC_UNAVAIL"} : way = Way(a, TRUE, TRUE, 1)  BY <1>5 DEF Way
<1> QED  BY <1>1, <1>2, <1>3, <1>4, <1>5 DEF Ways, Rejections

\* The tree after the answer.
LEMMA AnswerKeepsTree ==
    ASSUME NfsTypes, TreeInv, NEW call \in CallSet, NEW o, Sound(o, call), fs' = o.fs,
           ever' = ever \cup {<<o.fs[p], p>> : p \in DOMAIN o.fs}
    PROVE  /\ \A p \in DOMAIN fs' : p \in Seq(Component) /\ p # <<>> /\ fs'[p] \in Handles
           /\ \A e \in ever' : e = <<e[1], e[2]>>
           /\ Located' /\ Fixed'
           /\ o.ok /\ call.proc \in Entries =>
                  \E e \in ever' : e[1] = call.h /\ <<o.h, Append(e[2], call.n)>> \in ever'
<1>1. \A p \in DOMAIN fs' : p \in Seq(Component) /\ p # <<>> /\ fs'[p] \in Handles  BY DEF Sound
<1>2. \A e \in ever' : e = <<e[1], e[2]>>  BY DEF NfsTypes
<1>3. Located'  BY DEF Located
<1>4. \A e \in ever' : e \in ever \/ e[1] \in Files \/
          /\ \A f \in ever : f[1] # e[1]
          /\ \A q \in DOMAIN o.fs : o.fs[q] = e[1] => q = e[2]
  <2>1. ASSUME NEW e \in ever', e \notin ever
        PROVE  e[1] \in Files \/ ((\A f \in ever : f[1] # e[1]) /\ \A q \in DOMAIN o.fs : o.fs[q] = e[1] => q = e[2])
    <3>1. PICK p \in DOMAIN o.fs : e = <<o.fs[p], p>>  BY <2>1
    <3>2. e[1] = o.fs[p] /\ e[2] = p  BY <3>1
    <3> QED  BY <2>1, <3>1, <3>2 DEF Sound
  <2> QED  BY <2>1
<1>5. ASSUME NEW e \in ever', NEW f \in ever', e[1] = f[1], e[1] \notin Files PROVE e[2] = f[2]
  <2>1. \A d \in ever' : d \in ever \/ \E q \in DOMAIN o.fs : o.fs[q] = d[1] /\ q = d[2]
    <3>1. ASSUME NEW d \in ever', d \notin ever PROVE \E q \in DOMAIN o.fs : o.fs[q] = d[1] /\ q = d[2]
      <4>1. PICK p \in DOMAIN o.fs : d = <<o.fs[p], p>>  BY <3>1
      <4>2. d[1] = o.fs[p] /\ d[2] = p  BY <4>1
      <4> QED  BY <4>2
    <3> QED  BY <3>1
  <2>2. CASE e \in ever /\ f \in ever  BY <1>5, <2>2 DEF TreeInv, Fixed
  <2>3. CASE e \notin ever  BY <1>4, <1>5, <2>1, <2>3
  <2>4. CASE f \notin ever  BY <1>4, <1>5, <2>1, <2>4
  <2> QED  BY <2>2, <2>3, <2>4
<1>6. Fixed'  BY <1>5 DEF Fixed
<1>7. ASSUME o.ok, call.proc \in Entries
      PROVE  \E e \in ever' : e[1] = call.h /\ <<o.h, Append(e[2], call.n)>> \in ever'
  <2>1. PICK e \in ever : /\ e[1] = call.h
                          /\ Append(e[2], call.n) \in DOMAIN o.fs /\ o.fs[Append(e[2], call.n)] = o.h
    BY <1>7 DEF Sound
  <2>2. <<o.h, Append(e[2], call.n)>> \in ever'  BY <2>1
  <2> QED  BY <2>1, <2>2
<1> QED  BY <1>1, <1>2, <1>3, <1>6, <1>7

-----------------------------------------------------------------------------
(* Clients and server, the invariant.                                      *)

\* Packets that join the queue of the sniffer's socket.
LEMMA PacketsJoin ==
    ASSUME wire \in Seq(PacketSet), NEW v \in Seq(PacketSet), wire' = wire \o v
    PROVE  /\ wire' \in Seq(PacketSet)
           /\ \A i \in 1..Len(wire') : \/ i \in 1..Len(wire) /\ wire'[i] = wire[i]
                                       \/ i \notin 1..Len(wire) /\ i - Len(wire) \in 1..Len(v) /\ wire'[i] = v[i - Len(wire)]
           /\ OnWire' \subseteq OnWire \cup {v[i] : i \in 1..Len(v)}
<1>1. /\ wire' \in Seq(PacketSet)
      /\ \A i \in 1..Len(wire') : \/ i \in 1..Len(wire) /\ wire'[i] = wire[i]
                                  \/ i \notin 1..Len(wire) /\ i - Len(wire) \in 1..Len(v) /\ wire'[i] = v[i - Len(wire)]
  BY WithLast
<1> QED  BY <1>1 DEF OnWire

LEMMA CallStep ==
    ASSUME NfsTypes, NfsInv, NEW c \in Clients, NEW proc \in Procs, Call(c, proc)
    PROVE  NfsTypes' /\ NfsInv'
<1>1. PICK a \in Args(proc) :
          /\ pending' = pending \cup {CallOf(c, calls + 1, proc, a)}
          /\ wire' = Append(wire, [dir |-> "call", call |-> CallOf(c, calls + 1, proc, a)])
  BY DEF Call
<1>2. /\ calls' = calls + 1 /\ UNCHANGED <<fs, ever, xid_call_map, xid_reply_map, maps, log_messages, sent>>
      /\ calls \in Nat /\ wire \in Seq(PacketSet)
  BY DEF Call, NfsTypes
<1> DEFINE call == CallOf(c, calls + 1, proc, a)
           pkt == [dir |-> "call", call |-> call]
<1>3. call \in CallSet /\ call.xid = calls + 1
  <2>1. Known \subseteq Handles  BY DEF Known, NfsTypes
  <2>2. /\ a.h \in Handles \cup {None} /\ a.n \in Names \cup {None} /\ a.h2 \in Handles \cup {None}
        /\ a.n2 \in Names \cup {None} /\ a.m \in Mounts \cup {None}
    BY <2>1 DEF Args
  <2>3. /\ proc \in DirArg => a.h \notin Files /\ a.n \in Names
        /\ proc \in {"RENAME", "LINK"} => a.n2 \in Names
        /\ proc = "MNT" => a.m \in Mounts
    <3>1. proc \in DirArg => proc \notin HandleArg  BY DEF DirArg, HandleArg
    <3> QED  BY <3>1 DEF Args
  <2>4. calls + 1 \in Nat  BY <1>2
  <2> QED  BY <2>2, <2>3, <2>4 DEF CallOf, CallSet
<1> HIDE DEF call
<1>4. pkt \in PacketSet /\ pkt.dir = "call" /\ pkt.call = call  BY <1>3 DEF PacketSet
<1> HIDE DEF pkt
<1>5. wire' = wire \o <<pkt>>  BY <1>1, <1>2, <1>4, AppendIsConcat DEF pkt, call
<1>6. /\ wire' \in Seq(PacketSet) /\ OnWire' \subseteq OnWire \cup {pkt}
      /\ \A i \in 1..Len(wire') : (i \in 1..Len(wire) /\ wire'[i] = wire[i]) \/ (i = Len(wire) + 1 /\ wire'[i] = pkt)
  <2>1. <<pkt>> \in Seq(PacketSet) /\ Len(<<pkt>>) = 1 /\ <<pkt>>[1] = pkt  BY <1>4
  <2>2. Len(wire) \in Nat  BY <1>2, LenProperties
  <2> DEFINE v == <<pkt>>
  <2>3. v \in Seq(PacketSet) /\ Len(v) = 1 /\ v[1] = pkt /\ wire' = wire \o v  BY <1>5, <2>1
  <2> HIDE DEF v
  <2>4. wire' \in Seq(PacketSet) /\ OnWire' \subseteq OnWire \cup {v[i] : i \in 1..Len(v)}
    BY <1>2, <2>3, PacketsJoin
  <2>5. \A i \in 1..Len(wire') : \/ i \in 1..Len(wire) /\ wire'[i] = wire[i]
                                 \/ i \notin 1..Len(wire) /\ i - Len(wire) \in 1..Len(v) /\ wire'[i] = v[i - Len(wire)]
    BY <1>2, <2>3, PacketsJoin
  <2>6. OnWire' \subseteq OnWire \cup {pkt}  BY <2>3, <2>4
  <2>7. ASSUME NEW i \in 1..Len(wire')
        PROVE  (i \in 1..Len(wire) /\ wire'[i] = wire[i]) \/ (i = Len(wire) + 1 /\ wire'[i] = pkt)
    <3>1. CASE i \in 1..Len(wire) /\ wire'[i] = wire[i]  BY <3>1
    <3>2. CASE i - Len(wire) \in 1..Len(v) /\ wire'[i] = v[i - Len(wire)]
      <4>1. i - Len(wire) = 1  BY <2>2, <2>3, <3>2
      <4>2. i = Len(wire) + 1  BY <2>2, <4>1
      <4> QED  BY <2>3, <3>2, <4>1, <4>2
    <3> QED  BY <2>5, <3>1, <3>2
  <2> QED  BY <2>4, <2>6, <2>7
<1>7. pending' = pending \cup {call}  BY <1>1 DEF call
<1>8. NfsTypes'  BY <1>2, <1>3, <1>6, <1>7 DEF NfsTypes
<1>9. Replies' \subseteq Replies  BY <1>4, <1>6 DEF Replies
<1>10. TreeInv'  BY <1>2, <1>9 DEF NfsInv, TreeInv, Located, Fixed, PathsWereTrue
<1>11. AllCalls' \subseteq AllCalls \cup {call}  BY <1>2, <1>4, <1>6, <1>7 DEF AllCalls
<1>12. call.xid \notin 1..calls /\ call.xid \in 1..calls' /\ \A x \in 1..calls : x \in 1..calls'  BY <1>2, <1>3
<1>13. \A p \in Replies : p.call \in AllCalls  BY DEF Replies, AllCalls
<1>14. XidInv'
  <2>1. \A d \in AllCalls' : d.xid \in 1..calls'  BY <1>11, <1>12 DEF NfsInv, XidInv
  <2>2. \A d, b \in AllCalls' : d.xid = b.xid => d = b  BY <1>11, <1>12 DEF NfsInv, XidInv
  <2>3. \A p, q \in Replies' : p.call.xid = q.call.xid => p = q  BY <1>9 DEF NfsInv, XidInv
  <2>4. \A p \in Replies', d \in pending' : p.call.xid # d.xid  BY <1>7, <1>9, <1>12, <1>13 DEF NfsInv, XidInv
  <2> QED  BY <2>1, <2>2, <2>3, <2>4 DEF XidInv
<1>15. \A x \in DOMAIN xid_call_map : x \in 1..calls
  <2>1. \A x \in DOMAIN xid_call_map : xid_call_map[x] \in AllCalls /\ xid_call_map[x].xid = x  BY DEF AllCalls, NfsTypes
  <2> QED  BY <2>1 DEF NfsInv, XidInv
<1>16. TableInv'
  <2>1. ASSUME NEW x \in DOMAIN xid_call_map, x \notin DOMAIN xid_reply_map
        PROVE  /\ \A d \in pending' : d.xid # x
               /\ \A p \in Replies' : p.call.xid = x => ~p.last
    BY <1>7, <1>9, <1>12, <1>15, <2>1 DEF NfsInv, TableInv
  <2> QED  BY <1>2, <2>1 DEF NfsInv, TableInv
<1>17. OnceInv'
  <2>1. Reports' = Reports  BY <1>2 DEF Reports
  <2>2. \A i \in 1..Len(wire) : wire[i].call.xid \in 1..calls
    <3>1. \A i \in 1..Len(wire) : wire[i].call \in AllCalls  BY DEF AllCalls, OnWire
    <3> QED  BY <3>1 DEF NfsInv, XidInv
  <2>3. ASSUME NEW i \in 1..Len(wire'), NEW j \in 1..Len(wire'), i # j, wire'[i].dir = "call", wire'[j].dir = "call"
        PROVE  wire'[i].call.xid # wire'[j].call.xid
    BY <1>4, <1>6, <1>12, <2>2, <2>3 DEF NfsInv, OnceInv
  <2>4. ASSUME NEW p \in OnWire', p.dir = "call"
        PROVE  p.call.xid \notin DOMAIN xid_call_map /\ \A m \in Reports : m.of.xid # p.call.xid
    BY <1>4, <1>6, <1>12, <1>15, <2>4 DEF NfsInv, OnceInv
  <2>5. \A m \in Reports : m.of.xid \in 1..calls'  BY <1>12 DEF NfsInv, OnceInv
  <2> QED  BY <1>2, <2>1, <2>3, <2>4, <2>5 DEF NfsInv, OnceInv
<1> QED  BY <1>8, <1>10, <1>14, <1>16, <1>17 DEF NfsInv

LEMMA ReplyStep ==
    ASSUME NfsTypes, NfsInv, NEW call \in pending, Reply(call)
    PROVE  NfsTypes' /\ NfsInv'
<1>1. PICK answer \in Answers(call) :
          LET o == answer[1]
              way == answer[2]
              reply == [dir |-> "reply", call |-> call, accept |-> way.accept, ok |-> o.ok,
                        h |-> IF way.follows THEN o.h ELSE None, last |-> way.last]
          IN  /\ fs' = o.fs
              /\ ever' = ever \cup {<<o.fs[p], p>> : p \in DOMAIN o.fs}
              /\ wire' = wire \o [i \in 1..way.copies |-> reply]
  BY DEF Reply
<1>2. PICK o, way : /\ answer = <<o, way>> /\ (o \in Outcomes(call) \/ o = Refused)
                    /\ way \in Ways(call) \cup Rejections
  BY DEF Answers
<1> DEFINE reply == [dir |-> "reply", call |-> call, accept |-> way.accept, ok |-> o.ok,
                     h |-> IF way.follows THEN o.h ELSE None, last |-> way.last]
           v == [i \in 1..way.copies |-> reply]
<1>3. /\ fs' = o.fs /\ wire' = wire \o v
      /\ ever' = ever \cup {<<o.fs[p], p>> : p \in DOMAIN o.fs}
  BY <1>1, <1>2
<1>4. /\ pending' = pending \ {call} /\ UNCHANGED <<calls, xid_call_map, xid_reply_map, maps, log_messages, sent>>
      /\ calls \in Nat /\ wire \in Seq(PacketSet) /\ call \in CallSet
  BY DEF Reply, NfsTypes
<1>5. Sound(o, call)  BY <1>2, <1>4, OutcomesAreSound, RefusedIsSound DEF NfsInv
<1>6. /\ way.accept \in {"SUCCESS", "PROG_MISMATCH", "PROC_UNAVAIL"} /\ way.last \in BOOLEAN /\ way.copies \in Nat
      /\ call.proc \notin {"CREATE", "MKDIR", "SYMLINK"} => way.follows
  BY <1>2, WaysOf
<1>7. reply \in PacketSet /\ reply.dir = "reply" /\ reply.call = call /\ reply.ok = o.ok
      /\ reply.h = IF way.follows THEN o.h ELSE None
  <2>1. o.ok \in BOOLEAN /\ o.h \in Handles \cup {None}  BY <1>5 DEF Sound
  <2>2. (IF way.follows THEN o.h ELSE None) \in Handles \cup {None}  BY <2>1
  <2> QED  BY <1>4, <1>6, <2>1, <2>2 DEF PacketSet
<1> HIDE DEF reply
<1>8. v \in Seq(PacketSet) /\ Len(v) = way.copies /\ \A i \in 1..Len(v) : v[i] = reply
  <2>1. v \in [1..way.copies -> PacketSet]  BY <1>7
  <2>2. v \in Seq(PacketSet)  BY <1>6, <2>1, SeqDef
  <2>3. Len(v) = way.copies  BY <1>6, <2>1, <2>2, LenProperties
  <2> QED  BY <2>2, <2>3
<1> HIDE DEF v
<1>9. /\ wire' \in Seq(PacketSet) /\ OnWire' \subseteq OnWire \cup {reply}
      /\ \A i \in 1..Len(wire') : (i \in 1..Len(wire) /\ wire'[i] = wire[i]) \/ wire'[i] = reply
  <2>1. wire' \in Seq(PacketSet) /\ OnWire' \subseteq OnWire \cup {v[i] : i \in 1..Len(v)}
    BY <1>3, <1>4, <1>8, PacketsJoin
  <2>2. \A i \in 1..Len(wire') : \/ i \in 1..Len(wire) /\ wire'[i] = wire[i]
                                 \/ i \notin 1..Len(wire) /\ i - Len(wire) \in 1..Len(v) /\ wire'[i] = v[i - Len(wire)]
    BY <1>3, <1>4, <1>8, PacketsJoin
  <2> QED  BY <1>8, <2>1, <2>2
<1>10. /\ \A p \in DOMAIN fs' : p \in Seq(Component) /\ p # <<>> /\ fs'[p] \in Handles
       /\ \A e \in ever' : e = <<e[1], e[2]>>
       /\ Located' /\ Fixed'
       /\ o.ok /\ call.proc \in Entries =>
              \E e \in ever' : e[1] = call.h /\ <<o.h, Append(e[2], call.n)>> \in ever'
  BY <1>3, <1>4, <1>5, AnswerKeepsTree DEF NfsInv
<1>11. NfsTypes'  BY <1>4, <1>9, <1>10 DEF NfsTypes
<1>12. Replies' \subseteq Replies \cup {reply} /\ ever \subseteq ever'  BY <1>3, <1>9 DEF Replies
<1>13. TreeInv'
  <2>1. Truthful(reply, ever')
    <3> SUFFICES ASSUME o.ok PROVE Truthful(reply, ever')  BY <1>7 DEF Truthful
    <3>1. call.proc = "MNT" => reply.h = call.m  BY <1>5, <1>6, <1>7 DEF Sound
    <3>2. call.proc \in Entries /\ (call.proc = "LOOKUP" \/ reply.h # None) => reply.h = o.h
      BY <1>6, <1>7 DEF Entries
    <3> QED  BY <1>7, <1>10, <3>1, <3>2 DEF Truthful
  <2>2. ASSUME NEW p, Truthful(p, ever) PROVE Truthful(p, ever')  BY <1>12, <2>2 DEF Truthful
  <2>3. PathsWereTrue'  BY <1>4, <1>12 DEF NfsInv, TreeInv, PathsWereTrue
  <2>4. \A m \in Mounts : <<m, <<m>>>> \in ever'  BY <1>12 DEF NfsInv, TreeInv
  <2> QED  BY <1>10, <1>12, <2>1, <2>2, <2>3, <2>4 DEF NfsInv, TreeInv
<1>14. AllCalls' \subseteq AllCalls /\ call \in AllCalls  BY <1>4, <1>7, <1>9 DEF AllCalls
<1>15. XidInv'
  <2>1. \A a, b \in AllCalls' : a.xid = b.xid => a = b  BY <1>14 DEF NfsInv, XidInv
  <2>2. \A a \in AllCalls' : a.xid \in 1..calls'  BY <1>4, <1>14 DEF NfsInv, XidInv
  <2>3. \A p, q \in Replies' : p.call.xid = q.call.xid => p = q  BY <1>7, <1>12 DEF NfsInv, XidInv
  <2>4. ASSUME NEW p \in Replies', NEW d \in pending' PROVE p.call.xid # d.xid
    <3>1. d \in AllCalls /\ d \in pending /\ d # call  BY <1>4 DEF AllCalls
    <3>2. d.xid # call.xid  BY <1>14, <3>1 DEF NfsInv, XidInv
    <3> QED  BY <1>7, <1>12, <3>1, <3>2 DEF NfsInv, XidInv
  <2> QED  BY <2>1, <2>2, <2>3, <2>4 DEF XidInv
<1>16. TableInv'
  <2>1. ASSUME NEW x \in DOMAIN xid_call_map, x \notin DOMAIN xid_reply_map
        PROVE  /\ \A d \in pending' : d.xid # x
               /\ \A p \in Replies' : p.call.xid = x => ~p.last
    BY <1>4, <1>7, <1>12, <2>1 DEF NfsInv, TableInv
  <2> QED  BY <1>4, <2>1 DEF NfsInv, TableInv
<1>17. OnceInv'
  <2>1. Reports' = Reports  BY <1>4 DEF Reports
  <2>2. \A i \in 1..Len(wire') : wire'[i].dir = "call" => i \in 1..Len(wire) /\ wire'[i] = wire[i]  BY <1>7, <1>9
  <2>3. \A p \in OnWire' : p.dir = "call" => p \in OnWire  BY <1>7, <1>9
  <2> QED  BY <1>4, <2>1, <2>2, <2>3 DEF NfsInv, OnceInv
<1> QED  BY <1>11, <1>13, <1>15, <1>16, <1>17 DEF NfsInv

-----------------------------------------------------------------------------
(* The sniffer.                                                            *)

LEMMA PacketLeaves ==
    ASSUME NfsTypes, NfsInv, wire # <<>>, wire' = Tail(wire)
    PROVE  /\ wire' \in Seq(PacketSet) /\ Packet \in OnWire /\ Packet \in PacketSet /\ OnWire' \subseteq OnWire
           /\ \A i, j \in 1..Len(wire') :
                  i # j /\ wire'[i].dir = "call" /\ wire'[j].dir = "call" => wire'[i].call.xid # wire'[j].call.xid
           /\ Packet.dir = "call" => \A p \in OnWire' : p.dir = "call" => p.call.xid # Packet.call.xid
<1>1. wire \in Seq(PacketSet)  BY DEF NfsTypes
<1>2. /\ Head(wire) = wire[1] /\ 1 \in 1..Len(wire) /\ Head(wire) \in PacketSet /\ Tail(wire) \in Seq(PacketSet)
      /\ \A i \in 1..Len(Tail(wire)) : i + 1 \in 1..Len(wire) /\ i # i + 1 /\ i \in Int /\ Tail(wire)[i] = wire[i + 1]
  BY <1>1, WithoutFirst
<1>3. Packet \in OnWire /\ OnWire' \subseteq OnWire  BY <1>2 DEF OnWire, Packet
<1>4. ASSUME NEW i \in 1..Len(wire'), NEW j \in 1..Len(wire'), i # j, wire'[i].dir = "call", wire'[j].dir = "call"
      PROVE  wire'[i].call.xid # wire'[j].call.xid
  <2>1. PICK k \in 1..Len(wire) : k = i + 1 /\ wire'[i] = wire[k]  BY <1>2
  <2>2. PICK l \in 1..Len(wire) : l = j + 1 /\ wire'[j] = wire[l]  BY <1>2
  <2>3. i \in Int /\ j \in Int  BY <1>2
  <2>4. k # l  BY <1>4, <2>1, <2>2, <2>3
  <2> QED  BY <1>4, <2>1, <2>2, <2>4 DEF NfsInv, OnceInv
<1>5. ASSUME Packet.dir = "call", NEW p \in OnWire', p.dir = "call" PROVE p.call.xid # Packet.call.xid
  <2>1. PICK i \in 1..Len(wire') : p = wire'[i]  BY <1>5 DEF OnWire
  <2>2. PICK k \in 1..Len(wire) : k = i + 1 /\ wire'[i] = wire[k]  BY <1>2
  <2>3. i \in 1..Len(Tail(wire)) /\ i \in Int /\ Len(Tail(wire)) \in Nat  BY <1>2, LenProperties
  <2>4. k # 1  BY <2>2, <2>3
  <2> QED  BY <1>2, <1>5, <2>1, <2>2, <2>4 DEF NfsInv, OnceInv, Packet
<1> QED  BY <1>2, <1>3, <1>4, <1>5, ZenonT(60) DEF Packet

\* A packet that is not read, or not parsed.
LEMMA PacketIgnored ==
    ASSUME NfsTypes, NfsInv, wire # <<>>, wire' = Tail(wire),
           UNCHANGED <<fs, ever, calls, pending, xid_call_map, xid_reply_map, maps, log_messages, sent>>
    PROVE  NfsTypes' /\ NfsInv'
<1>1. /\ wire' \in Seq(PacketSet) /\ OnWire' \subseteq OnWire
      /\ \A i, j \in 1..Len(wire') :
             i # j /\ wire'[i].dir = "call" /\ wire'[j].dir = "call" => wire'[i].call.xid # wire'[j].call.xid
  BY PacketLeaves
<1>2. Replies' \subseteq Replies /\ Reports' = Reports  BY <1>1 DEF Replies, Reports
<1>3. AllCalls' \subseteq AllCalls  BY <1>1 DEF AllCalls
<1>4. NfsTypes'  BY <1>1 DEF NfsTypes
<1>5. TreeInv'  BY <1>2 DEF NfsInv, TreeInv, Located, Fixed, PathsWereTrue
<1>6. XidInv'  BY <1>2, <1>3 DEF NfsInv, XidInv
<1>7. TableInv'  BY <1>2 DEF NfsInv, TableInv
<1>8. OnceInv'  BY <1>1, <1>2 DEF NfsInv, OnceInv
<1> QED  BY <1>4, <1>5, <1>6, <1>7, <1>8 DEF NfsInv

LEMMA RecvCallStep ==
    ASSUME NfsTypes, NfsInv, RecvCall
    PROVE  NfsTypes' /\ NfsInv'
<1> DEFINE call == Packet.call
           x == Packet.call.xid
<1>1. /\ wire # <<>> /\ Packet.dir = "call" /\ wire' = Tail(wire)
      /\ xid_call_map' = With(xid_call_map, x, call) /\ xid_reply_map' = With(xid_reply_map, x, call.proc)
      /\ UNCHANGED <<fs, ever, calls, pending, maps, log_messages, sent>>
  BY DEF RecvCall, Receives, world
<1>2. /\ wire' \in Seq(PacketSet) /\ Packet \in OnWire /\ Packet \in PacketSet /\ OnWire' \subseteq OnWire
      /\ \A i, j \in 1..Len(wire') :
             i # j /\ wire'[i].dir = "call" /\ wire'[j].dir = "call" => wire'[i].call.xid # wire'[j].call.xid
      /\ \A p \in OnWire' : p.dir = "call" => p.call.xid # x
  BY <1>1, PacketLeaves
<1>3. call \in CallSet /\ call \in AllCalls  BY <1>2 DEF PacketSet, AllCalls
<1> HIDE DEF call
<1>4. call.xid = x  BY DEF call
<1> HIDE DEF x
<1>5. /\ DOMAIN xid_call_map' = DOMAIN xid_call_map \cup {x} /\ xid_call_map'[x] = call
      /\ \A y \in DOMAIN xid_call_map : y # x => xid_call_map'[y] = xid_call_map[y]
      /\ DOMAIN xid_reply_map' = DOMAIN xid_reply_map \cup {x} /\ xid_reply_map'[x] = call.proc
      /\ \A y \in DOMAIN xid_reply_map : y # x => xid_reply_map'[y] = xid_reply_map[y]
  BY <1>1 DEF With
<1>6. Replies' \subseteq Replies /\ Reports' = Reports  BY <1>1, <1>2 DEF Replies, Reports
<1>7. AllCalls' \subseteq AllCalls  BY <1>1, <1>2, <1>3, <1>5 DEF AllCalls
<1>8. NfsTypes'  BY <1>1, <1>2, <1>3, <1>4, <1>5 DEF NfsTypes
<1>9. TreeInv'  BY <1>1, <1>6 DEF NfsInv, TreeInv, Located, Fixed, PathsWereTrue
<1>10. XidInv'  BY <1>1, <1>6, <1>7 DEF NfsInv, XidInv
<1>11. TableInv'
  <2>1. ASSUME NEW y \in DOMAIN xid_call_map'
        PROVE  IF y \in DOMAIN xid_reply_map' THEN xid_reply_map'[y] = xid_call_map'[y].proc
               ELSE /\ \A d \in pending' : d.xid # y
                    /\ \A p \in Replies' : p.call.xid = y => ~p.last
    <3>1. CASE y = x  BY <1>5, <3>1
    <3>2. CASE y # x
      <4>1. y \in DOMAIN xid_call_map /\ xid_call_map'[y] = xid_call_map[y]
            /\ (y \in DOMAIN xid_reply_map' <=> y \in DOMAIN xid_reply_map)
            /\ (y \in DOMAIN xid_reply_map => xid_reply_map'[y] = xid_reply_map[y])
        BY <1>5, <3>2
      <4> QED  BY <1>1, <1>6, <4>1 DEF NfsInv, TableInv
    <3> QED  BY <3>1, <3>2
  <2> QED  BY <2>1 DEF TableInv
<1>12. OnceInv'
  <2>1. \A m \in Reports : m.of.xid # x  BY <1>1, <1>2 DEF NfsInv, OnceInv, x
  <2>2. \A p \in OnWire' : p.dir = "call" => p.call.xid \notin DOMAIN xid_call_map'
    BY <1>2, <1>5 DEF NfsInv, OnceInv
  <2> QED  BY <1>1, <1>2, <1>5, <1>6, <2>1, <2>2 DEF NfsInv, OnceInv
<1> QED  BY <1>8, <1>9, <1>10, <1>11, <1>12 DEF NfsInv

LEMMA DrainStep ==
    ASSUME NfsTypes, NfsInv, log_drain
    PROVE  NfsTypes' /\ NfsInv'
<1>1. /\ log_messages # <<>> /\ sent' = sent \cup {Head(log_messages)} /\ log_messages' = Tail(log_messages)
      /\ UNCHANGED <<fs, ever, calls, pending, wire, xid_call_map, xid_reply_map, maps>>
  BY DEF log_drain, world
<1>2. PICK S : log_messages \in Seq(S)  BY DEF NfsTypes
<1>3. /\ Head(log_messages) = log_messages[1] /\ 1 \in 1..Len(log_messages) /\ Tail(log_messages) \in Seq(S)
      /\ \A i \in 1..Len(Tail(log_messages)) : i + 1 \in 1..Len(log_messages) /\ Tail(log_messages)[i] = log_messages[i + 1]
  BY <1>1, <1>2, WithoutFirst
<1>4. Reports' \subseteq Reports  BY <1>1, <1>3 DEF Reports
<1>5. OnWire' = OnWire /\ Replies' = Replies /\ AllCalls' = AllCalls  BY <1>1 DEF OnWire, Replies, AllCalls
<1>6. NfsTypes'  BY <1>1, <1>3 DEF NfsTypes
<1>7. TreeInv'  BY <1>1, <1>5 DEF NfsInv, TreeInv, Located, Fixed, PathsWereTrue
<1>8. XidInv'  BY <1>1, <1>5 DEF NfsInv, XidInv
<1>9. TableInv'  BY <1>1, <1>5 DEF NfsInv, TableInv
<1>10. OnceInv'  BY <1>1, <1>4, <1>5 DEF NfsInv, OnceInv
<1> QED  BY <1>6, <1>7, <1>8, <1>9, <1>10 DEF NfsInv

-----------------------------------------------------------------------------
(* Replies.                                                                *)

LEMMA ReportFields ==
    ASSUME NEW r, NEW call, NEW path, NEW target
    PROVE  /\ Report(r, call, path, target).of = r.call
           /\ Report(r, call, path, target).raises <=> Program(call.proc) = "nfs" /\ ~HasStatus(r)
           /\ Report(r, call, path, target).json
<1>1. Report(r, call, path, target).of = r.call  BY DEF Report
<1>2. Report(r, call, path, target).raises = (Program(call.proc) = "nfs" /\ ~HasStatus(r))  BY DEF Report
<1>3. Report(r, call, path, target).json = TRUE  BY DEF Report
<1> QED  BY <1>1, <1>2, <1>3, Zenon

\* What a handler reports.
LEMMA HandlerReports ==
    ASSUME NEW r, NEW call, NEW m \in handlers(r, call)
    PROVE  /\ handlers(r, call) = {m} /\ m.of = r.call
           /\ call.proc \in NfsProcs \cup {"MNT", "UMNT", "UMNTALL"}
           /\ call.proc = "NULL" => ~m.raises
           /\ call.proc = "LINK" => m.raises
           /\ call.proc \notin {"NULL", "LINK"} => (m.raises <=> Program(call.proc) = "nfs" /\ ~HasStatus(r))
           /\ call.proc # "READLINK" => m.json
<1>1. CASE call.proc \in {"GETATTR", "SETATTR", "ACCESS", "READ", "WRITE", "READDIR", "READDIRPLUS", "FSSTAT",
                          "FSINFO", "PATHCONF", "COMMIT"}
  <2>1. handlers(r, call) = {OfHandle(r, call)}
    BY <1>1 DEF handlers, handle_nfs3_getattr, handle_nfs3_setattr, handle_nfs3_access, handle_nfs3_read,
                handle_nfs3_write, handle_nfs3_readdir, handle_nfs3_readdirplus, handle_nfs3_fsstat,
                handle_nfs3_fsinfo, handle_nfs3_pathconf, handle_nfs3_commit
  <2> QED  BY <1>1, <2>1, ReportFields DEF OfHandle, NfsProcs, HandleArg
<1>2. CASE call.proc \in {"LOOKUP", "CREATE", "MKDIR"}
  <2>1. handlers(r, call) = {OfEntry(r, call)}
    BY <1>2 DEF handlers, handle_nfs3_lookup, handle_nfs3_create, handle_nfs3_mkdir
  <2> QED  BY <1>2, <2>1, ReportFields DEF OfEntry, NfsProcs, DirArg
<1>3. CASE call.proc \in {"REMOVE", "RMDIR"}
  <2>1. handlers(r, call) = {OfClassName(r, call)}
    BY <1>3 DEF handlers, handle_nfs3_remove, handle_nfs3_rmdir
  <2> QED  BY <1>3, <2>1, ReportFields DEF OfClassName, NfsProcs, DirArg
<1>4. CASE call.proc = "NULL"
  <2>1. handlers(r, call) = {handle_nfs3_null(r, call)}  BY <1>4 DEF handlers
  <2> QED  BY <1>4, <2>1 DEF handle_nfs3_null, Report, NfsProcs
<1>5. CASE call.proc = "LINK"
  <2>1. handlers(r, call) = {handle_nfs3_link(r, call)}  BY <1>5 DEF handlers
  <2> QED  BY <1>5, <2>1 DEF handle_nfs3_link, Report, NfsProcs, HandleArg
<1>6. CASE call.proc = "READLINK"
  <2>1. handlers(r, call) = {handle_nfs3_readlink(r, call)}  BY <1>6 DEF handlers
  <2> QED  BY <1>6, <2>1 DEF handle_nfs3_readlink, OfHandle, Report, NfsProcs, HandleArg
<1>7. CASE call.proc \in {"SYMLINK", "MKNOD", "RENAME"}
  <2>1. \E a, b : handlers(r, call) = {Report(r, call, a, b)}
    BY <1>7 DEF handlers, handle_nfs3_symlink, handle_nfs3_mknod, handle_nfs3_rename
  <2> QED  BY <1>7, <2>1, ReportFields DEF NfsProcs, DirArg
<1>8. CASE call.proc \in {"MNT", "UMNT", "UMNTALL"}
  <2>1. \E a, b : handlers(r, call) = {Report(r, call, a, b)}
    BY <1>8 DEF handlers, handle_mount3_mnt, handle_mount3_umnt, handle_mount3_umnt_all
  <2> QED  BY <1>8, <2>1, ReportFields
<1>9. CASE call.proc \notin NfsProcs \cup {"MNT", "UMNT", "UMNTALL"}
  <2>1. handlers(r, call) = {}  BY <1>9 DEF handlers, NfsProcs, HandleArg, DirArg
  <2> QED  BY <2>1
<1> QED  BY <1>1, <1>2, <1>3, <1>4, <1>5, <1>6, <1>7, <1>8, <1>9 DEF NfsProcs, HandleArg, DirArg

IsState(s) == s = [handle_name |-> s.handle_name, name_handle |-> s.name_handle, active_mount |-> s.active_mount]

\* What update_state does to the names of handles.
LEMMA UpdatedNames ==
    ASSUME IsState(maps), NEW r, NEW call
    PROVE  LET t == update_state(maps, r, call)
           IN  /\ IsState(t)
               /\ \A h \in DOMAIN t.handle_name :
                      \/ h \in DOMAIN maps.handle_name /\ t.handle_name[h] = maps.handle_name[h]
                      \/ call.proc = "MNT" /\ h = r.h /\ t.handle_name[h] = <<call.m>>
                      \/ /\ call.proc \in Entries /\ (call.proc = "LOOKUP" \/ r.h # None) /\ h = r.h
                         /\ t.handle_name[h] = Append(get_path(call.h), call.n)
<1> DEFINE t == update_state(maps, r, call)
<1>1. ASSUME NEW s, IsState(s), s.handle_name = maps.handle_name, NEW path, NEW h
      PROVE  LET c == create_handle_mapping(s, path, h)
             IN  /\ IsState(c)
                 /\ \A k \in DOMAIN c.handle_name :
                        (k \in DOMAIN maps.handle_name /\ c.handle_name[k] = maps.handle_name[k])
                        \/ (k = h /\ c.handle_name[k] = path)
  <2> DEFINE c == create_handle_mapping(s, path, h)
  <2>1. c = [handle_name |-> With(s.handle_name, h, path), name_handle |-> With(s.name_handle, path, h),
             active_mount |-> s.active_mount]
    <3>1. PICK a, b, d : s = [handle_name |-> a, name_handle |-> b, active_mount |-> d]  BY <1>1, Zenon DEF IsState
    <3>2. s.handle_name = a /\ s.name_handle = b /\ s.active_mount = d  BY <3>1
    <3>3. c = [s EXCEPT !.handle_name = With(a, h, path), !.name_handle = With(b, path, h)]
      BY <3>2 DEF create_handle_mapping
    <3> QED  BY <3>1, <3>2, <3>3
  <2>2. c.handle_name = With(maps.handle_name, h, path) /\ IsState(c)  BY <1>1, <2>1 DEF IsState
  <2> HIDE DEF c
  <2>3. \A k \in DOMAIN c.handle_name :
            (k \in DOMAIN maps.handle_name /\ c.handle_name[k] = maps.handle_name[k]) \/ (k = h /\ c.handle_name[k] = path)
    BY <2>2 DEF With
  <2> QED  BY <2>2, <2>3 DEF c
<1>2. ASSUME NEW paths, NEW active
      PROVE  LET c == [destroy_handle_mapping(maps, paths) EXCEPT !.active_mount = active]
             IN  /\ IsState(c)
                 /\ \A k \in DOMAIN c.handle_name : k \in DOMAIN maps.handle_name /\ c.handle_name[k] = maps.handle_name[k]
  <2> DEFINE S == {maps.name_handle[p] : p \in paths}
             c == [destroy_handle_mapping(maps, paths) EXCEPT !.active_mount = active]
  <2>1. c = [handle_name |-> Without(maps.handle_name, S), name_handle |-> Without(maps.name_handle, paths),
             active_mount |-> active]
    <3>1. PICK a, b, d : maps = [handle_name |-> a, name_handle |-> b, active_mount |-> d]  BY Zenon DEF IsState
    <3>2. maps.handle_name = a /\ maps.name_handle = b /\ maps.active_mount = d  BY <3>1
    <3>3. destroy_handle_mapping(maps, paths) = [maps EXCEPT !.handle_name = Without(a, S), !.name_handle = Without(b, paths)]
      BY <3>2 DEF destroy_handle_mapping
    <3>4. destroy_handle_mapping(maps, paths) =
              [handle_name |-> Without(a, S), name_handle |-> Without(b, paths), active_mount |-> d]
      BY <3>1, <3>3
    <3>5. c = [handle_name |-> Without(a, S), name_handle |-> Without(b, paths), active_mount |-> active]
      BY <3>4
    <3> QED  BY <3>2, <3>5
  <2>2. c.handle_name = Without(maps.handle_name, S) /\ IsState(c)  BY <2>1 DEF IsState
  <2> HIDE DEF c, S
  <2>3. \A k \in DOMAIN c.handle_name : k \in DOMAIN maps.handle_name /\ c.handle_name[k] = maps.handle_name[k]
    BY <2>2 DEF Without
  <2> QED  BY <2>2, <2>3 DEF c
<1>3. CASE call.proc = "MNT"
  <2> DEFINE s == [maps EXCEPT !.active_mount = @ \cup {call.m}]
  <2>1. IsState(s) /\ s.handle_name = maps.handle_name  BY DEF IsState
  <2>2. t = create_handle_mapping(s, <<call.m>>, r.h)  BY <1>3 DEF update_state, create_mount_mapping
  <2> HIDE DEF s, t
  <2>3. IsState(t) /\ \A k \in DOMAIN t.handle_name :
            (k \in DOMAIN maps.handle_name /\ t.handle_name[k] = maps.handle_name[k])
            \/ (k = r.h /\ t.handle_name[k] = <<call.m>>)
    BY <1>1, <2>1, <2>2
  <2> QED  BY <1>3, <2>3 DEF t
<1>4. CASE call.proc \in Entries /\ (call.proc = "LOOKUP" \/ r.h # None)
  <2>1. t = create_handle_mapping(maps, Append(get_path(call.h), call.n), r.h)
    BY <1>4 DEF update_state, Entries, Join
  <2> HIDE DEF t
  <2>2. IsState(t) /\ \A k \in DOMAIN t.handle_name :
            (k \in DOMAIN maps.handle_name /\ t.handle_name[k] = maps.handle_name[k])
            \/ (k = r.h /\ t.handle_name[k] = Append(get_path(call.h), call.n))
    BY <1>1, <2>1
  <2> QED  BY <1>4, <2>2 DEF t
<1>5. CASE call.proc \in {"UMNT", "UMNTALL"}
  <2>1. \E paths, active : t = [destroy_handle_mapping(maps, paths) EXCEPT !.active_mount = active]
    <3>1. CASE call.proc = "UMNTALL"
      BY <3>1 DEF update_state, destroy_all_mounts
    <3>2. CASE call.proc = "UMNT"
      <4> DEFINE paths == {p \in DOMAIN maps.name_handle : StartsWith(p, call.m)}
      <4>1. t = [destroy_handle_mapping(maps, paths) EXCEPT !.active_mount = @ \ {call.m}]
        BY <3>2 DEF update_state, destroy_mount_mapping
      <4> HIDE DEF paths
      <4> QED  BY <4>1
    <3> QED  BY <1>5, <3>1, <3>2
  <2> HIDE DEF t
  <2>2. IsState(t) /\ \A k \in DOMAIN t.handle_name :
            k \in DOMAIN maps.handle_name /\ t.handle_name[k] = maps.handle_name[k]
    BY <1>2, <2>1
  <2> QED  BY <2>2 DEF t
<1>6. CASE /\ call.proc \notin {"MNT", "UMNT", "UMNTALL"}
           /\ ~(call.proc \in Entries /\ (call.proc = "LOOKUP" \/ r.h # None))
  <2>1. t = maps  BY <1>6 DEF update_state, Entries
  <2> HIDE DEF t
  <2> QED  BY <2>1 DEF t
<1> QED  BY <1>3, <1>4, <1>5, <1>6

\* A reply that updates the names: they stay true.
LEMMA NamesStayTrue ==
    ASSUME NfsTypes, TreeInv, NEW r, NEW call \in CallSet, r.ok \/ call.proc \in {"UMNT", "UMNTALL"},
           r.call = call, Truthful(r, ever), maps' = update_state(maps, r, call), ever' = ever
    PROVE  /\ IsState(maps') /\ PathsWereTrue'
           /\ \A h \in DOMAIN maps'.handle_name : maps'.handle_name[h] \in Seq(Component) /\ maps'.handle_name[h] # <<>>
<1>1. /\ IsState(maps')
      /\ \A h \in DOMAIN maps'.handle_name :
             \/ h \in DOMAIN maps.handle_name /\ maps'.handle_name[h] = maps.handle_name[h]
             \/ call.proc = "MNT" /\ h = r.h /\ maps'.handle_name[h] = <<call.m>>
             \/ /\ call.proc \in Entries /\ (call.proc = "LOOKUP" \/ r.h # None) /\ h = r.h
                /\ maps'.handle_name[h] = Append(get_path(call.h), call.n)
  <2>1. IsState(maps)  BY DEF NfsTypes, IsState
  <2> QED  BY <2>1, UpdatedNames
<1>2. ASSUME NEW h \in DOMAIN maps'.handle_name
      PROVE  /\ maps'.handle_name[h] \in Seq(Component) /\ maps'.handle_name[h] # <<>>
             /\ maps'.handle_name[h][1] # Unknown => <<h, maps'.handle_name[h]>> \in ever
  <2>1. CASE h \in DOMAIN maps.handle_name /\ maps'.handle_name[h] = maps.handle_name[h]
    BY <2>1 DEF NfsTypes, TreeInv, PathsWereTrue
  <2>2. CASE call.proc = "MNT" /\ h = r.h /\ maps'.handle_name[h] = <<call.m>>
    <3>1. call.m \in Mounts /\ r.h = call.m  BY <2>2 DEF CallSet, Truthful
    <3>2. <<call.m>> \in Seq(Component) /\ <<call.m>> # <<>>  BY <3>1 DEF Component
    <3>3. <<call.m, <<call.m>>>> \in ever  BY <3>1 DEF TreeInv
    <3> QED  BY <2>2, <3>1, <3>2, <3>3
  <2>3. CASE /\ call.proc \in Entries /\ (call.proc = "LOOKUP" \/ r.h # None) /\ h = r.h
             /\ maps'.handle_name[h] = Append(get_path(call.h), call.n)
    <3>1. call.h \notin Files /\ call.n \in Component /\ r.ok
      BY <2>3 DEF CallSet, Entries, DirArg, Component
    <3>2. PICK e \in ever : e[1] = call.h /\ <<r.h, Append(e[2], call.n)>> \in ever
      BY <2>3, <3>1 DEF Truthful
    <3> DEFINE p == get_path(call.h)
    <3>3. p \in Seq(Component) /\ p # <<>>
      <4>1. <<Unknown>> \in Seq(Component) /\ <<Unknown>> # <<>>  BY DEF Component
      <4> QED  BY <4>1 DEF get_path, NfsTypes
    <3>4. p[1] # Unknown => p = e[2]
      <4> SUFFICES ASSUME p[1] # Unknown PROVE p = e[2]  OBVIOUS
      <4>1. <<Unknown>>[1] = Unknown  OBVIOUS
      <4>2. call.h \in DOMAIN maps.handle_name /\ p = maps.handle_name[call.h]  BY <4>1 DEF get_path
      <4>3. <<call.h, p>> \in ever  BY <4>2 DEF TreeInv, PathsWereTrue
      <4>4. <<call.h, p>>[1] = call.h /\ <<call.h, p>>[2] = p  OBVIOUS
      <4> QED  BY <3>1, <3>2, <4>3, <4>4 DEF TreeInv, Fixed
    <3> HIDE DEF p
    <3>5. Append(p, call.n) \in Seq(Component) /\ Append(p, call.n) # <<>> /\ Append(p, call.n)[1] = p[1]
      <4>1. /\ Append(p, call.n) \in Seq(Component) /\ Append(p, call.n) # <<>>
            /\ \A i \in 1..Len(p) : Append(p, call.n)[i] = p[i]
        BY <3>1, <3>3, AppendProperties
      <4>2. Len(p) \in Nat /\ Len(p) # 0  BY <3>3, LenProperties, EmptySeq
      <4>3. 1 \in 1..Len(p)  BY <4>2
      <4> QED  BY <4>1, <4>3
    <3> QED  BY <2>3, <3>2, <3>4, <3>5 DEF p
  <2> QED  BY <1>1, <2>1, <2>2, <2>3
<1> QED  BY <1>1, <1>2 DEF PathsWereTrue

\* A reply whose call the sniffer knows is a reply to that call.
LEMMA KnownCall ==
    ASSUME NfsTypes, NfsInv, wire # <<>>, Packet.dir = "reply", Packet.call.xid \in DOMAIN xid_call_map
    PROVE  /\ Packet \in Replies /\ xid_call_map[Packet.call.xid] = Packet.call /\ Packet.call \in CallSet
           /\ Packet.call \in AllCalls
<1>1. Packet \in OnWire /\ Packet \in PacketSet
  <2>1. Head(wire) = wire[1] /\ 1 \in 1..Len(wire) /\ Head(wire) \in PacketSet  BY WithoutFirst DEF NfsTypes
  <2> QED  BY <2>1 DEF OnWire, Packet
<1>2. Packet \in Replies /\ Packet.call \in CallSet  BY <1>1 DEF Replies, PacketSet
<1>3. Packet.call \in AllCalls /\ xid_call_map[Packet.call.xid] \in AllCalls  BY <1>1 DEF AllCalls
<1>4. xid_call_map[Packet.call.xid].xid = Packet.call.xid  BY DEF NfsTypes
<1> QED  BY <1>2, <1>3, <1>4 DEF NfsInv, XidInv

LEMMA StatusWasAsked ==
    ASSUME NEW p, HasStatus(Dissected(p))
    PROVE  Asked(p)
<1>1. Dissected(p).class = ReplyClass(p)  BY DEF Dissected
<1>2. CASE ReplyClass(p) = <<>>
  <2>1. DOMAIN Dissected(p).class = {}  BY <1>1, <1>2
  <2> QED  BY <2>1 DEF HasStatus, StatusField
<1>3. CASE ReplyClass(p) # <<>>  BY <1>3 DEF ReplyClass
<1> QED  BY <1>2, <1>3

\* The class of the reply is taken out of its table, if it is asked for.
LEMMA ClassTaken ==
    ASSUME NEW p
    PROVE  /\ DOMAIN xid_reply_map_del(p) = DOMAIN xid_reply_map \ (IF Asked(p) THEN {p.call.xid} ELSE {})
           /\ \A x \in DOMAIN xid_reply_map_del(p) : xid_reply_map_del(p)[x] = xid_reply_map[x]
BY DEF xid_reply_map_del, Without

LEMMA UnknownReplyStep ==
    ASSUME NfsTypes, NfsInv, RecvReply, Packet.call.xid \notin DOMAIN xid_call_map
    PROVE  NfsTypes' /\ NfsInv'
<1>1. /\ wire # <<>> /\ wire' = Tail(wire) /\ xid_reply_map' = xid_reply_map_del(Packet)
      /\ UNCHANGED <<fs, ever, calls, pending, xid_call_map, maps, log_messages, sent>>
  BY DEF RecvReply, Receives, world
<1>2. /\ wire' \in Seq(PacketSet) /\ OnWire' \subseteq OnWire
      /\ \A i, j \in 1..Len(wire') :
             i # j /\ wire'[i].dir = "call" /\ wire'[j].dir = "call" => wire'[i].call.xid # wire'[j].call.xid
  BY <1>1, PacketLeaves
<1>3. Replies' \subseteq Replies /\ Reports' = Reports  BY <1>1, <1>2 DEF Replies, Reports
<1>4. AllCalls' \subseteq AllCalls  BY <1>1, <1>2 DEF AllCalls
<1>5. /\ DOMAIN xid_reply_map' \subseteq DOMAIN xid_reply_map
      /\ \A x \in DOMAIN xid_call_map : x \in DOMAIN xid_reply_map => x \in DOMAIN xid_reply_map'
      /\ \A x \in DOMAIN xid_reply_map' : xid_reply_map'[x] = xid_reply_map[x]
  BY <1>1, ClassTaken
<1>6. NfsTypes'  BY <1>1, <1>2 DEF NfsTypes
<1>7. TreeInv'  BY <1>1, <1>3 DEF NfsInv, TreeInv, Located, Fixed, PathsWereTrue
<1>8. XidInv'  BY <1>1, <1>3, <1>4 DEF NfsInv, XidInv
<1>9. TableInv'  BY <1>1, <1>3, <1>5 DEF NfsInv, TableInv
<1>10. OnceInv'  BY <1>1, <1>2, <1>3, <1>5 DEF NfsInv, OnceInv
<1> QED  BY <1>6, <1>7, <1>8, <1>9, <1>10 DEF NfsInv

LEMMA KnownReplyStep ==
    ASSUME NfsTypes, NfsInv, RecvReply, Packet.call.xid \in DOMAIN xid_call_map
    PROVE  NfsTypes' /\ NfsInv'
<1> DEFINE x == Packet.call.xid
           call == Packet.call
           r == Dissected(Packet)
           reports == handlers(r, call)
<1>1. /\ wire # <<>> /\ Packet.dir = "reply" /\ wire' = Tail(wire) /\ xid_reply_map' = xid_reply_map_del(Packet)
      /\ UNCHANGED <<fs, ever, calls, pending, sent>>
  BY DEF RecvReply, Receives, world
<1>2. Packet \in Replies /\ xid_call_map[x] = call /\ call \in CallSet /\ call \in AllCalls
  BY <1>1, KnownCall
<1>3. /\ xid_call_map' = xid_call_map_del(Packet)
      /\ maps' = IF (\E m \in reports : m.raises) \/ ~is_reply_parsable(r, call) THEN maps ELSE update_state(maps, r, call)
      /\ \/ log_messages' = log_messages
         \/ log_messages' = log_messages \o SetToSeq(reports) /\ \A m \in reports : ~m.raises
  BY <1>2 DEF RecvReply
<1>4. /\ wire' \in Seq(PacketSet) /\ OnWire' \subseteq OnWire
      /\ \A i, j \in 1..Len(wire') :
             i # j /\ wire'[i].dir = "call" /\ wire'[j].dir = "call" => wire'[i].call.xid # wire'[j].call.xid
  BY <1>1, PacketLeaves
<1>5. r.call = call /\ r.ok = Packet.ok /\ r.h = Packet.h  BY DEF Dissected
<1>6. \A m \in reports : /\ reports = {m} /\ m.of = r.call
                         /\ ~m.raises => \/ call.proc \in {"NULL", "UMNT", "UMNTALL", "MNT"}
                                         \/ Asked(Packet)
  <2>1. ASSUME NEW m \in reports, ~m.raises, call.proc \notin {"NULL", "UMNT", "UMNTALL", "MNT"} PROVE Asked(Packet)
    <3>1. /\ call.proc \in NfsProcs /\ call.proc # "LINK"
          /\ m.raises <=> Program(call.proc) = "nfs" /\ ~HasStatus(r)
      BY <2>1, HandlerReports
    <3>2. call.proc \in Procs  BY <1>2 DEF CallSet
    <3>3. Program(call.proc) = "nfs"  BY <3>1, <3>2, ProgramOf
    <3> QED  BY <2>1, <3>1, <3>3, StatusWasAsked
  <2> QED  BY <2>1, HandlerReports
<1> HIDE DEF x, call, r, reports
<1>7. /\ DOMAIN xid_reply_map' = DOMAIN xid_reply_map \ (IF Asked(Packet) THEN {x} ELSE {})
      /\ \A y \in DOMAIN xid_reply_map' : xid_reply_map'[y] = xid_reply_map[y]
  BY <1>1, ClassTaken DEF x
<1>8. /\ DOMAIN xid_call_map' = DOMAIN xid_call_map \ (IF Packet.last THEN {x} ELSE {})
      /\ \A y \in DOMAIN xid_call_map' : xid_call_map'[y] = xid_call_map[y]
  BY <1>3 DEF xid_call_map_del, Without, x
<1>9. Replies' \subseteq Replies  BY <1>4 DEF Replies
<1>10. AllCalls' \subseteq AllCalls  BY <1>1, <1>4, <1>8 DEF AllCalls
<1>11. /\ \E S : log_messages' \in Seq(S)
       /\ \A m \in Reports' : m \in Reports \/ (m \in reports /\ ~m.raises)
  <2>1. CASE log_messages' = log_messages  BY <1>1, <2>1 DEF Reports, NfsTypes
  <2>2. CASE log_messages' = log_messages \o SetToSeq(reports) /\ \A m \in reports : ~m.raises
    <3>1. PICK S : log_messages \in Seq(S)  BY DEF NfsTypes
    <3> DEFINE T == S \cup reports
               v == SetToSeq(reports)
    <3>2. v \in Seq(reports)  BY <1>6, SetToSeqOfOne
    <3>3. log_messages \in Seq(T) /\ v \in Seq(T)  BY <3>1, <3>2, SeqOfMore
    <3>4. \A i \in 1..Len(v) : v[i] \in reports  BY <3>2, ElementOfSeq
    <3> HIDE DEF T, v
    <3>5. /\ log_messages \o v \in Seq(T)
          /\ \A i \in 1..Len(log_messages \o v) :
                 \/ i \in 1..Len(log_messages) /\ (log_messages \o v)[i] = log_messages[i]
                 \/ i \notin 1..Len(log_messages) /\ i - Len(log_messages) \in 1..Len(v)
                    /\ (log_messages \o v)[i] = v[i - Len(log_messages)]
      BY <3>3, WithLast
    <3>6. log_messages' = log_messages \o v  BY <2>2 DEF v
    <3> QED  BY <1>1, <2>2, <3>4, <3>5, <3>6, SMTT(30) DEF Reports
  <2> QED  BY <1>3, <2>1, <2>2
<1>12. /\ IsState(maps') /\ PathsWereTrue'
       /\ \A h \in DOMAIN maps'.handle_name : maps'.handle_name[h] \in Seq(Component) /\ maps'.handle_name[h] # <<>>
  <2>1. CASE maps' = maps  BY <1>1, <2>1 DEF NfsTypes, NfsInv, TreeInv, PathsWereTrue, IsState
  <2>2. CASE maps' = update_state(maps, r, call) /\ is_reply_parsable(r, call)
    <3>1. r.ok \/ call.proc \in {"UMNT", "UMNTALL"}  BY <2>2 DEF is_reply_parsable
    <3>2. Truthful(r, ever)
      <4>1. Truthful(Packet, ever)  BY <1>2 DEF NfsInv, TreeInv
      <4> QED  BY <1>5, <4>1 DEF Truthful, call
    <3> QED  BY <1>1, <1>2, <1>5, <2>2, <3>1, <3>2, NamesStayTrue DEF NfsInv
  <2> QED  BY <1>3, <2>1, <2>2
<1>13. NfsTypes'
  <2>1. \A y \in DOMAIN xid_call_map' : xid_call_map'[y] \in CallSet /\ xid_call_map'[y].xid = y
    BY <1>8 DEF NfsTypes
  <2> QED  BY <1>1, <1>4, <1>11, <1>12, <2>1 DEF NfsTypes, IsState
<1>14. TreeInv'  BY <1>1, <1>9, <1>12 DEF NfsInv, TreeInv, Located, Fixed
<1>15. XidInv'  BY <1>1, <1>9, <1>10 DEF NfsInv, XidInv
<1>16. TableInv'
  <2>1. ASSUME NEW y \in DOMAIN xid_call_map', y \in DOMAIN xid_reply_map'
        PROVE  xid_reply_map'[y] = xid_call_map'[y].proc
    BY <1>7, <1>8, <2>1 DEF NfsInv, TableInv
  <2>2. ASSUME NEW y \in DOMAIN xid_call_map', y \notin DOMAIN xid_reply_map'
        PROVE  /\ \A d \in pending' : d.xid # y
               /\ \A p \in Replies' : p.call.xid = y => ~p.last
    <3>1. CASE y \notin DOMAIN xid_reply_map  BY <1>1, <1>8, <1>9, <3>1 DEF NfsInv, TableInv
    <3>2. CASE y \in DOMAIN xid_reply_map
      <4>1. y = x /\ ~Packet.last  BY <1>7, <1>8, <2>2, <3>2
      <4> QED  BY <1>1, <1>2, <1>9, <4>1 DEF NfsInv, XidInv, x
    <3> QED  BY <3>1, <3>2
  <2> QED  BY <2>1, <2>2 DEF TableInv
<1>17. OnceInv'
  <2>1. call.xid = x /\ x \in 1..calls  BY <1>2 DEF NfsInv, XidInv, x, call
  <2>2. \A m \in reports : m.of = call  BY <1>5, <1>6
  <2>3. ASSUME NEW p \in OnWire', p.dir = "call"
        PROVE  p.call.xid \notin DOMAIN xid_call_map' /\ \A m \in Reports' : m.of.xid # p.call.xid
    <3>1. p.call.xid \notin DOMAIN xid_call_map /\ \A m \in Reports : m.of.xid # p.call.xid
      BY <1>4, <2>3 DEF NfsInv, OnceInv
    <3>2. x \in DOMAIN xid_call_map  BY DEF x
    <3> QED  BY <1>8, <1>11, <2>1, <2>2, <3>1, <3>2
  <2>4. \A m \in Reports' : m.of.xid \in 1..calls'  BY <1>1, <1>11, <2>1, <2>2 DEF NfsInv, OnceInv
  <2>5. ASSUME NEW m \in Reports', m.of.xid \in DOMAIN xid_reply_map'
        PROVE  m.of.proc \in {"NULL", "UMNT", "UMNTALL", "MNT"}
    <3>1. CASE m \in Reports  BY <1>7, <2>5, <3>1 DEF NfsInv, OnceInv
    <3>2. CASE m \in reports /\ ~m.raises  BY <1>6, <1>7, <2>1, <2>2, <2>5, <3>2
    <3> QED  BY <1>11, <3>1, <3>2
  <2> QED  BY <1>4, <2>3, <2>4, <2>5 DEF OnceInv
<1> QED  BY <1>13, <1>14, <1>15, <1>16, <1>17 DEF NfsInv

-----------------------------------------------------------------------------
(* The theorems.                                                           *)

LEMMA NfsStarts == Init => NfsTypes /\ NfsInv /\ EndedOnUnparsed
<1> SUFFICES ASSUME Init PROVE NfsTypes /\ NfsInv /\ EndedOnUnparsed  OBVIOUS
<1>1. /\ calls = 0 /\ pending = {} /\ wire = <<>> /\ xid_call_map = <<>> /\ xid_reply_map = <<>>
      /\ maps = [handle_name |-> <<>>, name_handle |-> <<>>, active_mount |-> {}]
      /\ log_messages = <<>> /\ sent = {} /\ ever = {<<m, <<m>>>> : m \in Mounts} /\ sensing = "running"
  BY DEF Init
<1>2. DOMAIN fs = {<<m>> : m \in Mounts} /\ \A m \in Mounts : fs[<<m>>] = m
  <2>1. fs = [p \in {<<m>> : m \in Mounts} |-> p[1]]  BY DEF Init
  <2>2. ASSUME NEW m \in Mounts PROVE fs[<<m>>] = m
    <3>1. <<m>> \in {<<k>> : k \in Mounts}  OBVIOUS
    <3>2. fs[<<m>>] = <<m>>[1]  BY <2>1, <3>1
    <3> QED  BY <3>2
  <2> QED  BY <2>1, <2>2
<1>3. Len(wire) = 0 /\ Len(log_messages) = 0 /\ DOMAIN xid_call_map = {} /\ DOMAIN maps.handle_name = {}  BY <1>1
<1>4. OnWire = {} /\ Replies = {} /\ Reports = {} /\ AllCalls = {}
  <2>1. OnWire = {} /\ Reports = {}  BY <1>1, <1>3 DEF OnWire, Reports
  <2> QED  BY <1>1, <1>3, <2>1 DEF Replies, AllCalls
<1>5. NfsTypes
  <2>1. \A p \in DOMAIN fs : p \in Seq(Component) /\ p # <<>> /\ fs[p] \in Handles
    <3>1. ASSUME NEW m \in Mounts PROVE <<m>> \in Seq(Component) /\ <<m>> # <<>> /\ fs[<<m>>] \in Handles
      BY <1>2 DEF Component, Handles
    <3> QED  BY <1>2, <3>1
  <2>2. \A e \in ever : e = <<e[1], e[2]>>  BY <1>1
  <2>3. wire \in Seq(PacketSet) /\ log_messages \in Seq({})  BY <1>1, EmptySeq
  <2>4. maps = [handle_name |-> maps.handle_name, name_handle |-> maps.name_handle, active_mount |-> maps.active_mount]
    BY <1>1
  <2> QED  BY <1>1, <1>3, <2>1, <2>2, <2>3, <2>4 DEF NfsTypes
<1>6. TreeInv
  <2>1. Located  BY <1>1, <1>2 DEF Located
  <2>2. Fixed
    <3>1. ASSUME NEW e \in ever PROVE e[2] = <<e[1]>>
      <4>1. PICK m \in Mounts : e = <<m, <<m>>>>  BY <1>1
      <4>2. e[1] = m /\ e[2] = <<m>>  BY <4>1
      <4> QED  BY <4>2
    <3> QED  BY <3>1 DEF Fixed
  <2>3. PathsWereTrue  BY <1>3 DEF PathsWereTrue
  <2> QED  BY <1>1, <1>4, <2>1, <2>2, <2>3 DEF TreeInv
<1>7. XidInv /\ TableInv /\ OnceInv  BY <1>1, <1>3, <1>4 DEF XidInv, TableInv, OnceInv
<1>8. EndedOnUnparsed  BY <1>1 DEF EndedOnUnparsed
<1> QED  BY <1>5, <1>6, <1>7, <1>8 DEF NfsInv

LEMMA NfsStep == NfsTypes /\ NfsInv /\ [Next]_vars => NfsTypes' /\ NfsInv'
<1> SUFFICES ASSUME NfsTypes, NfsInv, [Next]_vars PROVE NfsTypes' /\ NfsInv'  OBVIOUS
<1>1. CASE \E c \in Clients, proc \in Procs : Call(c, proc)  BY <1>1, CallStep
<1>2. CASE \E call \in pending : Reply(call)  BY <1>2, ReplyStep
<1>3. CASE Drop  BY <1>3, PacketIgnored DEF Drop
<1>4. CASE RecvOther  BY <1>4, PacketIgnored DEF RecvOther, Receives, world
<1>5. CASE RecvCall  BY <1>5, RecvCallStep
<1>6. CASE RecvReply  BY <1>6, KnownReplyStep, UnknownReplyStep
<1>7. ASSUME UNCHANGED <<fs, ever, calls, pending, wire, xid_call_map, xid_reply_map, maps, log_messages, sent>>
      PROVE  NfsTypes' /\ NfsInv'
  <2>1. OnWire' = OnWire /\ Replies' = Replies /\ AllCalls' = AllCalls /\ Reports' = Reports
    BY <1>7 DEF OnWire, Replies, AllCalls, Reports
  <2>2. NfsTypes'  BY <1>7 DEF NfsTypes
  <2>3. TreeInv'  BY <1>7, <2>1 DEF NfsInv, TreeInv, Located, Fixed, PathsWereTrue
  <2>4. XidInv' /\ TableInv' /\ OnceInv'  BY <1>7, <2>1 DEF NfsInv, XidInv, TableInv, OnceInv
  <2> QED  BY <2>2, <2>3, <2>4 DEF NfsInv
<1>8. CASE Sleep \/ Wake  BY <1>7, <1>8 DEF Sleep, Wake, world
<1>9. CASE log_drain  BY <1>9, DrainStep
<1>10. CASE UNCHANGED vars  BY <1>7, <1>10 DEF vars
<1> QED  BY <1>1, <1>2, <1>3, <1>4, <1>5, <1>6, <1>8, <1>9, <1>10 DEF Next, Sniff

\* A reply that comes whole, is accepted and has a status does not end the method.
LEMMA EndedStep == NfsTypes /\ NfsInv /\ EndedOnUnparsed /\ [Next]_vars => EndedOnUnparsed'
<1> SUFFICES ASSUME NfsTypes, NfsInv, EndedOnUnparsed, [Next]_vars PROVE EndedOnUnparsed'  OBVIOUS
<1>1. CASE UNCHANGED <<sensing, cause>>  BY <1>1 DEF EndedOnUnparsed
<1>2. CASE RecvReply /\ Packet.call.xid \in DOMAIN xid_call_map
  <2> DEFINE x == Packet.call.xid
             call == Packet.call
             r == Dissected(Packet)
             reports == handlers(r, call)
  <2>1. wire # <<>> /\ Packet.dir = "reply"  BY <1>2 DEF RecvReply, Receives
  <2>2. Packet \in Replies /\ xid_call_map[x] = call /\ call \in CallSet  BY <1>2, <2>1, KnownCall
  <2>3. \/ UNCHANGED <<sensing, cause>>
        \/ cause' = Packet /\ (update_raises(r, call) \/ \E m \in reports : m.raises \/ ~m.json)
    BY <1>2, <2>2 DEF RecvReply
  <2>4. CASE UNCHANGED <<sensing, cause>>  BY <1>1, <2>4
  <2>5. CASE cause' = Packet /\ (update_raises(r, call) \/ \E m \in reports : m.raises \/ ~m.json)
    <3> SUFFICES ASSUME call.proc \notin {"LINK", "MKNOD", "READLINK"}, Packet.accept = "SUCCESS", Packet.last
                 PROVE  FALSE
      BY <2>5 DEF EndedOnUnparsed
    <3>1. call.proc \in Procs  BY <2>2 DEF CallSet
    <3>2. x \in DOMAIN xid_reply_map /\ xid_reply_map[x] = call.proc
      BY <1>2, <2>2 DEF NfsInv, TableInv
    <3>3. ASSUME call.proc \in NfsProcs \ {"NULL"}
          PROVE  r.class = Tables["nfs"][call.proc].reply /\ Program(call.proc) = "nfs"
      <4>1. Program(call.proc) = "nfs"  BY <3>1, <3>3, ProgramOf
      <4>2. HasPayload(Packet)  BY <3>3 DEF HasPayload, NfsProcs, HandleArg, DirArg
      <4>3. Asked(Packet)  BY <3>2, <4>2 DEF Asked
      <4>4. r.class = Lookup(call.proc).reply  BY <3>2, <4>3 DEF Dissected, ReplyClass
      <4> QED  BY <4>1, <4>4 DEF Lookup
    <3>4. CASE update_raises(r, call)
      <4>1. call.proc \in {"REMOVE", "RMDIR", "RENAME"} /\ is_reply_parsable(r, call)  BY <3>4 DEF update_raises
      <4>2. call.proc \in NfsProcs \ {"NULL"}  BY <4>1 DEF NfsProcs, DirArg
      <4>3. r.class = Tables["nfs"][call.proc].reply /\ Program(call.proc) = "nfs"  BY <3>3, <4>2
      <4>4. \E f \in StatusField(r) : f.kind = "packet"  BY <4>1, <4>3 DEF is_reply_parsable
      <4>5. PICK i \in DOMAIN r.class : r.class[i].name = "nfs_status" /\ r.class[i].kind = "packet"
        BY <4>4 DEF StatusField
      <4> QED  BY <4>1, <4>3, <4>5, TablesAssumption
    <3>5. CASE \E m \in reports : m.raises \/ ~m.json
      <4>1. PICK m \in reports : m.raises \/ ~m.json  BY <3>5
      <4>2. /\ call.proc \in NfsProcs \cup {"MNT", "UMNT", "UMNTALL"}
            /\ call.proc # "NULL" /\ Program(call.proc) = "nfs" /\ ~HasStatus(r)
        BY <4>1, HandlerReports
      <4>3. call.proc \in NfsProcs \ {"NULL", "LINK", "MKNOD"}  BY <3>1, <4>2, ProgramOf
      <4>4. r.class = Tables["nfs"][call.proc].reply  BY <3>3, <4>3
      <4>5. PICK i \in DOMAIN r.class : r.class[i].name = "nfs_status"  BY <4>3, <4>4, TablesAssumption
      <4>6. r.class[i] \in StatusField(r)  BY <4>5 DEF StatusField
      <4> QED  BY <4>2, <4>6 DEF HasStatus
    <3> QED  BY <2>5, <3>4, <3>5
  <2> QED  BY <2>3, <2>4, <2>5
<1>3. CASE RecvReply /\ Packet.call.xid \notin DOMAIN xid_call_map  BY <1>1, <1>3 DEF RecvReply
<1>4. CASE Sleep \/ Wake
  <2>1. sensing' # "ended"  BY <1>4 DEF Sleep, Wake
  <2> QED  BY <2>1 DEF EndedOnUnparsed
<1>5. CASE UNCHANGED vars  BY <1>1, <1>5 DEF vars
<1>6. CASE RecvOther \/ RecvCall \/ Drop \/ log_drain
  BY <1>1, <1>6 DEF RecvOther, RecvCall, Drop, log_drain
<1>7. CASE \E c \in Clients, proc \in Procs : Call(c, proc)  BY <1>1, <1>7 DEF Call
<1>8. CASE \E call \in pending : Reply(call)  BY <1>1, <1>8 DEF Reply
<1> QED  BY <1>2, <1>3, <1>4, <1>5, <1>6, <1>7, <1>8 DEF Next, Sniff

\* The invariant of the sensor: its names are true, an XID tells a call and its
\* reply, and a call is in both tables until a part of its reply has come.
THEOREM NfsInvariant == Spec => [](NfsTypes /\ NfsInv)
<1>1. Init => NfsTypes /\ NfsInv  BY NfsStarts
<1>2. NfsTypes /\ NfsInv /\ [Next]_vars => (NfsTypes /\ NfsInv)'  BY NfsStep
<1> QED  BY <1>1, <1>2, PTL DEF Spec

\* Whatever packets are missed and however calls and replies interleave, a path
\* the sensor has for a handle is one the handle has had, unless it begins with
\* {unknown}.
THEOREM NamesAreTrue == Spec => []PathsWereTrue
<1>1. NfsTypes /\ NfsInv => PathsWereTrue  BY DEF NfsInv, TreeInv
<1> QED  BY <1>1, NfsInvariant, PTL

\* Once a report has been sent, the class of its reply is left in xid_reply_map
\* only where the reply had no payload.
THEOREM RepliesAreTaken == Spec => []OnlyEmptyRepliesStay
<1>1. NfsTypes /\ NfsInv => OnlyEmptyRepliesStay
  BY DEF NfsInv, OnceInv, OnlyEmptyRepliesStay, Reports
<1> QED  BY <1>1, NfsInvariant, PTL

\* The sensing method ends only on a reply whose status the parser does not have,
\* or whose report is not JSON.
THEOREM EndsOnUnparsed == Spec => []EndedOnUnparsed
<1>1. Init => EndedOnUnparsed  BY NfsStarts
<1>2. NfsTypes /\ NfsInv /\ EndedOnUnparsed /\ [Next]_vars => EndedOnUnparsed'  BY EndedStep
<1> QED  BY <1>1, <1>2, NfsInvariant, PTL DEF Spec
=============================================================================
