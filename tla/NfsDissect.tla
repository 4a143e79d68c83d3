----------------------------- MODULE NfsDissect -----------------------------
(***************************************************************************)
(* How scapy dissects a packet along the fields of its class, checked      *)
(* against the encoding the classes are written for: XDR, as RFC 1813 uses *)
(* it.  A byte is a number; a dissected field is a pair of its path in the *)
(* packet and its bytes.                                                   *)
(***************************************************************************)
EXTENDS NfsPackets, SequencesExt

CONSTANTS
    HandleLens,     \* lengths of file handles
    NameLens        \* lengths of names and paths

ASSUME LengthsAssumption == HandleLens \subseteq Nat /\ NameLens \subseteq Nat

Word(n) == <<0, 0, n \div 256, n % 256>>
Pad(n) == (4 - (n % 4)) % 4
Zeros(n) == [i \in 1..n |-> 0]
Value(bytes) == FoldLeft(LAMBDA acc, b : ((acc * 256) + b) % 65536, 0, bytes)
Take(s, n) == SubSeq(s, 1, IF n < Len(s) THEN n ELSE Len(s))
Drop(s, n) == SubSeq(s, n + 1, Len(s))

-----------------------------------------------------------------------------
(* Dissection.  out is what has been dissected, left the bytes that are    *)
(* left; ok is false once a number was to be read where too few were, which*)
(* ends the dissection.                                                    *)

Result(out, left, ok) == [out |-> out, left |-> left, ok |-> ok]

(* A value of n bytes; strings take what there is, numbers need all.       *)
Read(r, path, n, number) ==
    IF number /\ Len(r.left) < n
    THEN Result(r.out, <<>>, FALSE)
    ELSE Result(r.out \cup {<<path, Take(r.left, n)>>}, Drop(r.left, n), TRUE)

(* The value of a flag of the packet that is being dissected.              *)
FlagOf(r, path, flag) == Value((CHOOSE p \in r.out : p[1] = Append(path, flag))[2])
Present(r, path, field) ==
    \/ field.when = Always
    \/ FlagOf(r, path, field.when.flag) \notin field.when.out

(* A length and as many bytes.                                             *)
Counted(r, path) ==
    LET l == Read(r, Append(path, "l"), 4, TRUE)
    IN  IF ~l.ok THEN l ELSE Read(l, path, Value(Take(r.left, 4)), FALSE)
Padded_not(r, path) == Counted(r, path)
Padded(r, path) ==
    LET c == Counted(r, path)
    IN  IF ~c.ok THEN c
        ELSE Result(c.out, Drop(c.left, Pad(Value(Take(r.left, 4)))), TRUE)
Ints(r, path) ==
    LET l == Read(r, Append(path, "l"), 4, TRUE)
    IN  IF ~l.ok THEN l ELSE Read(l, path, 4 * Value(Take(r.left, 4)), TRUE)

RECURSIVE Dissect(_, _, _), Entries(_, _, _, _)

DissectField(r, path, field) ==
    LET p == Append(path, field.name)
    IN  CASE ~r.ok \/ ~Present(r, path, field) -> r
          [] field.kind = "int"    -> Read(r, p, 4, TRUE)
          [] field.kind = "long"   -> Read(r, p, 8, TRUE)
          [] field.kind = "opaque" -> Counted(r, p)
          [] field.kind = "string" -> Padded(r, p)
          [] field.kind = "ints"   -> Ints(r, p)
          [] field.kind = "rest"   -> Read(r, p, Len(r.left), FALSE)
          [] field.kind = "packet" -> Dissect(r, p, field.of)
          [] field.kind = "list"   -> Entries(r, p, field.of, 1)
          [] field.kind = "greedy" ->
                [Dissect(r, Append(p, ToString(1)), field.of) EXCEPT !.left = <<>>]

Dissect(r, path, class) ==
    FoldLeft(LAMBDA acc, field : DissectField(acc, path, field), r, class)

(* next_entry: the list goes on as long as the last entry has entry_follows. *)
Entries(r, path, class, i) ==
    LET p == Append(path, ToString(i))
        e == Dissect(r, p, class)
    IN  IF e.ok /\ e.left # <<>> /\ FlagOf(e, p, "entry_follows") # 0
        THEN Entries(e, path, class, i + 1)
        ELSE e

Dissected(class, bytes) == Dissect(Result({}, bytes, TRUE), <<>>, class).out

(* The status decides on the class of the payload (guess_payload_class).   *)
GuessPayload(proc, reply) ==
    IF Value(Take(reply, 4)) = 0 THEN proc.ok ELSE proc.fail
DissectedReply(proc, reply) ==
    LET s == Dissect(Result({}, reply, TRUE), <<>>, proc.reply)
    IN  IF s.left = <<>> THEN s.out
        ELSE s.out \cup Dissected(GuessPayload(proc, reply), s.left)

-----------------------------------------------------------------------------
(* The encoding, by RFC 1813 and RFC 4506: an abstract packet is the same  *)
(* class with a value for each flag.  Every variable-length item is padded,*)
(* and the attributes before an operation are optional as those after it.  *)

Packets ==
    [ h : HandleLens, n : NameLens, status : {0, 2}, pre : {0, 1}, post : {0, 1},
      handle_follows : {0, 1}, mode : 0..2, set : {0, 1}, entries : 0..2 ]

SetFlags == {"set_mode", "set_uid", "set_gid", "set_size", "set_atime", "set_mtime", "check"}

(* The number in a field: 5 unless it steers the dissection.               *)
Number(m, path, f) ==
    CASE f = "attribs_follow" /\ Last(path) = "before" -> m.pre
      [] f = "attribs_follow" -> m.post
      [] f = "handle_follows" -> m.handle_follows
      [] f \in SetFlags -> m.set
      [] f = "mode" /\ path = <<>> -> m.mode
      [] f = "cred_flav" -> m.set
      [] f = "entry_follows" /\ path = <<>> -> IF m.entries > 0 THEN 1 ELSE 0
      [] f = "entry_follows" -> IF Last(path) = ToString(m.entries) THEN 0 ELSE 1
      [] OTHER -> 5

(* fields: what the bytes mean; bytes: the packet.                         *)
Encoding(fields, bytes) == [fields |-> fields, bytes |-> bytes]
Concat(a, b) == Encoding(a.fields \cup b.fields, a.bytes \o b.bytes)
Nothing == Encoding({}, <<>>)
Scalar(path, bytes) == Encoding({<<path, bytes>>}, bytes)
Variable(path, n) ==
    LET data == [i \in 1..n |-> 65 + i]
    IN  Encoding({<<path, data>>, <<Append(path, "l"), Word(n)>>},
                 Word(n) \o data \o Zeros(Pad(n)))

RECURSIVE Encode(_, _, _)

EncodeField(m, path, field) ==
    LET p == Append(path, field.name)
        optional == field.when # Always
        absent == \/ optional /\ Number(m, path, field.when.flag) \in field.when.out
                  \/ field.of = NFS3_wcc_attr /\ m.pre = 0
    IN  CASE absent -> Nothing
          [] field.kind = "int"    -> Scalar(p, Word(Number(m, path, field.name)))
          [] field.kind = "long"   -> Scalar(p, Word(0) \o Word(7))
          [] field.kind = "opaque" -> Variable(p, m.h)
          [] field.kind = "string" -> Variable(p, m.n)
          [] field.kind = "ints"   ->
                Encoding({<<p, Word(1)>>, <<Append(p, "l"), Word(1)>>}, Word(1) \o Word(1))
          [] field.kind = "rest"   -> Scalar(p, [i \in 1..m.n |-> 90])
          [] field.kind = "packet" -> Encode(m, p, field.of)
          [] field.kind \in {"list", "greedy"} ->
                FoldLeft(LAMBDA acc, i :
                            Concat(acc, Encode(m, Append(p, ToString(i)), field.of)),
                         Nothing, [i \in 1..m.entries |-> i])

Encode(m, path, class) ==
    FoldLeft(LAMBDA acc, field : Concat(acc, EncodeField(m, path, field)), Nothing, class)

(* A reply: the status, and what follows it.                               *)
EncodeReply(m, proc) ==
    LET s == IF proc.reply = <<>> \/ proc.ok = <<>> THEN Nothing
             ELSE IF proc.reply = StatusPacket
             THEN Scalar(<<"nfs_status", "v">>, Word(m.status))
             ELSE Scalar(<<"status">>, Word(m.status))
    IN  IF proc.ok = <<>> THEN Encode(m, <<>>, proc.reply)
        ELSE Concat(s, Encode(m, <<>>, IF m.status = 0 THEN proc.ok ELSE proc.fail))

-----------------------------------------------------------------------------
(* What the sensor reads of a packet: of a call the handles, the names and *)
(* the attributes it reports; of a reply the status, the new handle, the   *)
(* access mask and the target of a link.                                   *)

CallFields ==
    {<<"handle", "v">>, <<"root", "v">>, <<"path", "v">>, <<"symlink", "path", "v">>,
     <<"program">>, <<"proto">>}
    \cup {<<a, f, "v">> : a \in {"args", "where", "ffrom", "fto", "link"},
                          f \in {"handle", "fname"}}
ReplyFields ==
    {<<"nfs_status", "v">>, <<"nfs_status">>, <<"status">>, <<"handle", "v">>,
     <<"handle", "handle_follows">>, <<"handle", "handle", "v">>, <<"access">>,
     <<"path", "v">>, <<"port">>}

Only(paths, fields) == {p \in fields : p[1] \in paths}

(* What the sensor reads of a dissected call is what the caller put there. *)
CallAgrees(m, proc) ==
    LET e == Encode(m, <<>>, proc.call)
    IN  Only(CallFields, Dissected(proc.call, e.bytes)) = Only(CallFields, e.fields)
(* ... and the credentials that say who it was.                            *)
CredentialsAgree(m) ==
    LET e == Encode(m, <<>>, RPC_Call)
    IN  Dissected(RPC_Call, e.bytes) = e.fields
(* What the sensor reads of a dissected reply is what the server put there. *)
ReplyAgrees(m, proc) ==
    LET e == EncodeReply(m, proc)
    IN  Only(ReplyFields, DissectedReply(proc, e.bytes)) = Only(ReplyFields, e.fields)

Procs == [ n \in DOMAIN nfs3_lookup \cup DOMAIN mount3_lookup \cup DOMAIN portmap_lookup |->
             IF n \in DOMAIN nfs3_lookup THEN nfs3_lookup[n]
             ELSE IF n \in DOMAIN mount3_lookup THEN mount3_lookup[n]
             ELSE portmap_lookup[n] ]
=============================================================================
