----------------------------- MODULE NfsMonitor -----------------------------
(***************************************************************************)
(* The NFS sensor: the sniffer's loop (sensor_nfs.py), the RPC layer of    *)
(* the parser with its tables of outstanding calls (nfs.py), the handlers  *)
(* that turn a call and its reply into a report (nfs_packet_handler.py),   *)
(* the state of handles and mounts (nfs_state_monitor.py), and the log     *)
(* drain of the wrapper that ships with this target.                       *)
(*                                                                         *)
(* The NFS server and its clients are external.  A file handle is a model  *)
(* value; the handle of the root of a mount is the mount itself.  A path   *)
(* is the sequence of its components, the first one a mount.               *)
(***************************************************************************)
EXTENDS Integers, Sequences, FiniteSets, SequencesExt

CONSTANTS
    Clients, Mounts, Dirs, Files, Names,
    PrefixMounts,   \* pairs of mounts, the first one's string a prefix of the second's
    Tables,         \* nfs3_lookup, mount3_lookup and portmap_lookup of NfsPackets, by program
    Procs,          \* the procedures that are called
    Lossy,          \* TRUE: the sniffer may miss packets
    MaxCalls,       \* bound on the calls
    Leading,        \* bound: the procedures of the first calls, which may overlap; a later
                    \* call comes when the sniffer has caught up
    MaxDepth,       \* bound on the components of a path
    None

Unknown == "{unknown}"
Handles == Mounts \cup Dirs \cup Files
Paths == UNION {[1..n -> Mounts \cup Names] : n \in 1..MaxDepth}

(* The NFS procedures on a handle, and on a name in a directory.            *)
HandleArg == {"GETATTR", "SETATTR", "ACCESS", "READLINK", "READ", "WRITE", "READDIR",
              "READDIRPLUS", "FSSTAT", "FSINFO", "PATHCONF", "COMMIT", "LINK"}
DirArg == {"LOOKUP", "CREATE", "MKDIR", "SYMLINK", "REMOVE", "RMDIR", "RENAME"}
NfsProcs == HandleArg \cup DirArg \cup {"NULL", "MKNOD"}

ASSUME BoundsAssumption == MaxCalls \in Nat /\ MaxDepth \in Nat
ASSUME ProcsAssumption ==
    /\ Procs \subseteq UNION {DOMAIN Tables[prog] : prog \in DOMAIN Tables}
    /\ Leading \in Seq(SUBSET Procs)
(* The procedures of the three programs are told apart by their names.  The replies of  *)
(* all NFS procedures but three begin with a status; it is a number, which has no       *)
(* success(), where something was removed or renamed.                                   *)
ASSUME TablesAssumption ==
    /\ DOMAIN Tables = {"nfs", "mountd", "portmapper"}
    /\ DOMAIN Tables["nfs"] = NfsProcs /\ {"MNT", "UMNT", "UMNTALL"} \subseteq DOMAIN Tables["mountd"]
    /\ \A prog \in DOMAIN Tables \ {"nfs"} : DOMAIN Tables[prog] \cap NfsProcs = {}
    /\ \A proc \in NfsProcs \ {"NULL", "LINK", "MKNOD"} :
           \E i \in DOMAIN Tables["nfs"][proc].reply : Tables["nfs"][proc].reply[i].name = "nfs_status"
    /\ \A proc \in {"REMOVE", "RMDIR", "RENAME"} :
           \A i \in DOMAIN Tables["nfs"][proc].reply :
               Tables["nfs"][proc].reply[i].name = "nfs_status" => Tables["nfs"][proc].reply[i].kind # "packet"

VARIABLES
    fs,             \* server: path -> handle
    ever,           \* history: pairs of a handle and a path it has had
    calls,          \* number of calls made
    pending,        \* calls that have not been answered
    wire,           \* packets the sniffer's socket holds
    bound,          \* programs whose ports are bound to the RPC parser
    xid_call_map, xid_reply_map,
    maps,           \* handle_name_map, name_handle_map, active_mount_map
    sensing,        \* the sniffer: "running", "asleep", "ended"
    log_messages,   \* the wrapper's queue
    sent,           \* reports that went to Kafka
    missed,         \* history: XIDs of packets the sniffer has missed
    cause           \* history: the reply whose handling ended the sensing method

world == <<fs, ever, calls, pending, missed>>
vars == <<fs, ever, calls, pending, wire, bound, xid_call_map, xid_reply_map,
          maps, sensing, log_messages, sent, missed, cause>>

With(f, x, v) == [y \in DOMAIN f \cup {x} |-> IF y = x THEN v ELSE f[y]]
Without(f, S) == [x \in DOMAIN f \ S |-> f[x]]
Program(proc) == CHOOSE prog \in DOMAIN Tables : proc \in DOMAIN Tables[prog]

Init ==
    /\ fs = [p \in {<<m>> : m \in Mounts} |-> p[1]]
    /\ ever = {<<m, <<m>>>> : m \in Mounts}
    /\ calls = 0 /\ pending = {} /\ wire = <<>>
    /\ bound \in {{"nfs", "portmapper"}, {"nfs", "portmapper", "mountd"}}
    /\ xid_call_map = <<>> /\ xid_reply_map = <<>>
    /\ maps = [handle_name |-> <<>>, name_handle |-> <<>>, active_mount |-> {}]
    /\ sensing = "running" /\ log_messages = <<>> /\ sent = {} /\ cause = None
    /\ missed = {}

-----------------------------------------------------------------------------
(* Clients and server.                                                     *)

(* A call: its arguments are those of the procedure, the others None.      *)
Known == {fs[p] : p \in DOMAIN fs}
Args(proc) ==
    [ h  : IF proc \in HandleArg THEN Known
           ELSE IF proc \in DirArg THEN Known \ Files ELSE {None},
      n  : IF proc \in DirArg THEN Names ELSE {None},
      h2 : IF proc \in {"RENAME", "LINK"} THEN Known \ Files ELSE {None},
      n2 : IF proc \in {"RENAME", "LINK"} THEN Names ELSE {None},
      m  : IF proc \in {"MNT", "UMNT"} THEN Mounts ELSE {None} ]
CallOf(c, xid, proc, a) ==
    [client |-> c, xid |-> xid, proc |-> proc, h |-> a.h, n |-> a.n,
     h2 |-> a.h2, n2 |-> a.n2, m |-> a.m]

(* The XIDs of all calls differ.                                           *)
Call(c, proc) ==
    /\ calls < MaxCalls
    /\ IF calls < Len(Leading) THEN proc \in Leading[calls + 1]
       ELSE pending = {} /\ wire = <<>> /\ log_messages = <<>>
    /\ \E a \in Args(proc) :
        LET call == CallOf(c, calls + 1, proc, a)
        IN  /\ pending' = pending \cup {call}
            /\ wire' = Append(wire, [dir |-> "call", call |-> call])
    /\ calls' = calls + 1
    /\ UNCHANGED <<fs, ever, bound, xid_call_map, xid_reply_map, maps, sensing,
                   log_messages, sent, missed, cause>>

PathOf(h) == CHOOSE p \in DOMAIN fs : fs[p] = h
At(h, n) == IF h \in Known THEN PathOf(h) \o <<n>> ELSE <<>>
Unused(S) == {h \in S : \A e \in ever : e[1] # h}
Outcome(ok, h, new) == [ok |-> ok, h |-> h, fs |-> new]
Refused == Outcome(FALSE, None, fs)
Made(p, S) ==
    IF p = <<>> \/ p \in DOMAIN fs \/ Len(p) > MaxDepth THEN {Refused}
    ELSE {Outcome(TRUE, h, With(fs, p, h)) : h \in Unused(S)} \cup {Refused}
Gone(p, S) ==
    IF p \in DOMAIN fs /\ fs[p] \in S /\ \A q \in DOMAIN fs : Len(q) > Len(p) => SubSeq(q, 1, Len(p)) # p
    THEN {Outcome(TRUE, None, Without(fs, {p}))} ELSE {Refused}
(* Files are renamed and linked, directories stay where they are.          *)
Moved(p, q) ==
    IF p \in DOMAIN fs /\ fs[p] \in Files /\ q # <<>> /\ Len(q) <= MaxDepth /\ q \notin DOMAIN fs
    THEN {Outcome(TRUE, None, With(Without(fs, {p}), q, fs[p]))} ELSE {Refused}
Linked(h, q) ==
    IF h \in Known \cap Files /\ q # <<>> /\ Len(q) <= MaxDepth /\ q \notin DOMAIN fs
    THEN {Outcome(TRUE, None, With(fs, q, h))} ELSE {Refused}

Outcomes(call) ==
    LET p == At(call.h, call.n)
        q == At(call.h2, call.n2)
    IN  CASE call.proc = "LOOKUP" ->
                IF p \in DOMAIN fs THEN {Outcome(TRUE, fs[p], fs)} ELSE {Refused}
          [] call.proc \in {"CREATE", "SYMLINK"} -> Made(p, Files)
          [] call.proc = "MKDIR" -> Made(p, Dirs)
          [] call.proc = "REMOVE" -> Gone(p, Files)
          [] call.proc = "RMDIR" -> Gone(p, Dirs)
          [] call.proc = "RENAME" -> Moved(p, q)
          [] call.proc = "LINK" -> Linked(call.h, q)
          [] call.proc = "MNT" -> {Outcome(TRUE, call.m, fs), Refused}
          [] OTHER -> {Outcome(TRUE, None, fs), Refused}

(* How the answer comes.  accept: what the RPC layer of the server says of *)
(* the call; follows: a new handle is in the reply; last: no fragment comes*)
(* after this one; copies: 2 when the reply is repeated.                   *)
Way(accept, follows, last, copies) ==
    [accept |-> accept, follows |-> follows, last |-> last, copies |-> copies]
Ways(call) ==
    {Way("SUCCESS", TRUE, TRUE, 1)}
    \cup {Way("SUCCESS", FALSE, TRUE, 1) : x \in {call.proc} \cap {"CREATE", "MKDIR", "SYMLINK"}}
    \cup {Way("SUCCESS", TRUE, TRUE, 2) : x \in {call.proc} \cap {"READ", "GETATTR"}}
    \cup {Way("SUCCESS", TRUE, FALSE, 2) : x \in {call.proc} \cap {"READ"}}
Rejections == {Way(a, TRUE, TRUE, 1) : a \in {"PROG_MISMATCH", "PROC_UNAVAIL"}}

Answers(call) ==
    (Outcomes(call) \X Ways(call)) \cup ({Refused} \X Rejections)

Reply(call) ==
    /\ pending' = pending \ {call}
    /\ \E answer \in Answers(call) :
        LET o == answer[1]
            way == answer[2]
            reply == [dir |-> "reply", call |-> call, accept |-> way.accept, ok |-> o.ok,
                      h |-> IF way.follows THEN o.h ELSE None, last |-> way.last]
        IN  /\ fs' = o.fs
            /\ ever' = ever \cup {<<o.fs[p], p>> : p \in DOMAIN o.fs}
            /\ wire' = wire \o [i \in 1..way.copies |-> reply]
    /\ UNCHANGED <<calls, bound, xid_call_map, xid_reply_map, maps, sensing,
                   log_messages, sent, missed, cause>>

-----------------------------------------------------------------------------
(* The state of handles and mounts (nfs_state_monitor.py).                 *)

create_handle_mapping(s, path, h) ==
    [s EXCEPT !.handle_name = With(@, h, path), !.name_handle = With(@, path, h)]

destroy_handle_mapping(s, paths) ==
    [s EXCEPT !.handle_name = Without(@, {s.name_handle[p] : p \in paths}),
              !.name_handle = Without(@, paths)]

create_mount_mapping(s, m, h) ==
    create_handle_mapping([s EXCEPT !.active_mount = @ \cup {m}], <<m>>, h)

(* startswith compares strings: the names below a mount, and those of      *)
(* another mount whose path begins with the same characters.               *)
StartsWith(p, m) == p[1] = m \/ <<m, p[1]>> \in PrefixMounts
destroy_mount_mapping(s, m) ==
    [destroy_handle_mapping(s, {p \in DOMAIN s.name_handle : StartsWith(p, m)})
        EXCEPT !.active_mount = @ \ {m}]

get_path(h) == IF h \in DOMAIN maps.handle_name THEN maps.handle_name[h] ELSE <<Unknown>>
Join(path, name) == Append(path, name)

(* What the dissected reply r has: the class it was given, if any, tells   *)
(* whether there is a status, and whether it is a packet or a number.      *)
StatusField(r) ==
    {f \in {r.class[i] : i \in DOMAIN r.class} : f.name = "nfs_status"}
HasStatus(r) == StatusField(r) # {}

(* An NFS reply is skipped where reading the status, or asking a number    *)
(* for success(), raises AttributeError.                                   *)
is_reply_parsable(r, call) ==
    CASE Program(call.proc) = "mountd" ->
            r.accept = "SUCCESS"
            /\ \/ call.proc \in {"UMNT", "UMNTALL"}
               \/ call.proc = "MNT" /\ r.ok
      [] Program(call.proc) = "nfs" ->
            r.ok /\ \E f \in StatusField(r) : f.kind = "packet"
      [] OTHER -> FALSE
(* UMNTALL: mount after mount, until none is active.                       *)
destroy_all_mounts(s) ==
    [destroy_handle_mapping(s, {p \in DOMAIN s.name_handle :
                                    \E m \in s.active_mount : StartsWith(p, m)})
        EXCEPT !.active_mount = {}]

(* mutated: the handle a reply does not have is recorded *)
update_state_follows(s, r, call) ==
    CASE call.proc = "MNT" -> create_mount_mapping(s, call.m, r.h)
      [] call.proc \in {"LOOKUP", "CREATE", "MKDIR", "SYMLINK"} ->
            create_handle_mapping(s, Join(get_path(call.h), call.n), r.h)
      [] OTHER -> s
(* update_state of a parsable reply; RMDIR, RENAME and the REMOVE of an    *)
(* unknown path raise: _destroy_handle_mapping has no parameter "name", and*)
(* the path is looked up without a check.                                  *)
update_state(s, r, call) ==
    CASE call.proc = "MNT" -> create_mount_mapping(s, call.m, r.h)
      [] call.proc = "UMNT" -> destroy_mount_mapping(s, call.m)
      [] call.proc = "UMNTALL" -> destroy_all_mounts(s)
      [] call.proc = "LOOKUP" -> create_handle_mapping(s, Join(get_path(call.h), call.n), r.h)
      [] call.proc \in {"CREATE", "MKDIR", "SYMLINK"} /\ r.h # None ->
            create_handle_mapping(s, Join(get_path(call.h), call.n), r.h)
      [] OTHER -> s
update_raises(r, call) ==
    is_reply_parsable(r, call) /\ call.proc \in {"REMOVE", "RMDIR", "RENAME"}

-----------------------------------------------------------------------------
(* The handlers (nfs_packet_handler.py).  A report says who did what to    *)
(* which path.  raises: the handler reads a status that is not there; json: *)
(* the report can be serialised.                                           *)

Report(r, call, path, target) ==
    [who |-> call.client, command |-> call.proc, path |-> path, target |-> target,
     of |-> r.call, raises |-> Program(call.proc) = "nfs" /\ ~HasStatus(r), json |-> TRUE]
OfHandle(r, call) == Report(r, call, get_path(call.h), None)
OfEntry(r, call) == Report(r, call, Join(get_path(call.h), call.n), None)
(* args.name is the name of the packet class, not of the file.             *)
OfClassName(r, call) == Report(r, call, Join(get_path(call.h), "dir_op_args"), None)

handle_nfs3_null(r, call) ==
    [Report(r, call, None, None) EXCEPT !.who = None, !.raises = FALSE]
handle_nfs3_getattr(r, call) == OfHandle(r, call)
handle_nfs3_setattr(r, call) == OfHandle(r, call)
handle_nfs3_lookup(r, call) == OfEntry(r, call)
handle_nfs3_access(r, call) == OfHandle(r, call)
(* The target is the packet of the path, which json.dumps does not take.   *)
handle_nfs3_readlink(r, call) == [OfHandle(r, call) EXCEPT !.json = ~r.ok]
handle_nfs3_read(r, call) == OfHandle(r, call)
handle_nfs3_write(r, call) == OfHandle(r, call)
handle_nfs3_create(r, call) == OfEntry(r, call)
handle_nfs3_mkdir(r, call) == OfEntry(r, call)
handle_nfs3_symlink(r, call) ==
    Report(r, call, None, Join(get_path(call.h), call.n))
handle_nfs3_mknod(r, call) == Report(r, call, None, None)
handle_nfs3_remove(r, call) == OfClassName(r, call)
handle_nfs3_rmdir(r, call) == OfClassName(r, call)
handle_nfs3_rename(r, call) ==
    Report(r, call, Join(get_path(call.h), call.n), Join(get_path(call.h2), call.n2))
(* The name is joined as a packet, which os.path.join does not take.       *)
handle_nfs3_link(r, call) ==
    [Report(r, call, get_path(call.h), None) EXCEPT !.raises = TRUE]
handle_nfs3_readdir(r, call) == OfHandle(r, call)
handle_nfs3_readdirplus(r, call) == OfHandle(r, call)
handle_nfs3_fsstat(r, call) == OfHandle(r, call)
handle_nfs3_fsinfo(r, call) == OfHandle(r, call)
handle_nfs3_pathconf(r, call) == OfHandle(r, call)
handle_nfs3_commit(r, call) == OfHandle(r, call)
handle_mount3_mnt(r, call) == Report(r, call, <<call.m>>, None)
handle_mount3_umnt(r, call) == Report(r, call, <<call.m>>, None)
handle_mount3_umnt_all(r, call) == Report(r, call, None, None)

(* mutated: the handlers of the mount procedures are the one that does nothing *)
handlers_nop(r, call) ==
    {OfHandle(r, call) : x \in DOMAIN Tables["nfs"] \cap ({call.proc} \ {"NULL"})}
(* Portmapper calls and the other mount procedures are not reported.       *)
handlers(r, call) ==
    CASE call.proc = "NULL" -> {handle_nfs3_null(r, call)}
      [] call.proc = "GETATTR" -> {handle_nfs3_getattr(r, call)}
      [] call.proc = "SETATTR" -> {handle_nfs3_setattr(r, call)}
      [] call.proc = "LOOKUP" -> {handle_nfs3_lookup(r, call)}
      [] call.proc = "ACCESS" -> {handle_nfs3_access(r, call)}
      [] call.proc = "READLINK" -> {handle_nfs3_readlink(r, call)}
      [] call.proc = "READ" -> {handle_nfs3_read(r, call)}
      [] call.proc = "WRITE" -> {handle_nfs3_write(r, call)}
      [] call.proc = "CREATE" -> {handle_nfs3_create(r, call)}
      [] call.proc = "MKDIR" -> {handle_nfs3_mkdir(r, call)}
      [] call.proc = "SYMLINK" -> {handle_nfs3_symlink(r, call)}
      [] call.proc = "MKNOD" -> {handle_nfs3_mknod(r, call)}
      [] call.proc = "REMOVE" -> {handle_nfs3_remove(r, call)}
      [] call.proc = "RMDIR" -> {handle_nfs3_rmdir(r, call)}
      [] call.proc = "RENAME" -> {handle_nfs3_rename(r, call)}
      [] call.proc = "LINK" -> {handle_nfs3_link(r, call)}
      [] call.proc = "READDIR" -> {handle_nfs3_readdir(r, call)}
      [] call.proc = "READDIRPLUS" -> {handle_nfs3_readdirplus(r, call)}
      [] call.proc = "FSSTAT" -> {handle_nfs3_fsstat(r, call)}
      [] call.proc = "FSINFO" -> {handle_nfs3_fsinfo(r, call)}
      [] call.proc = "PATHCONF" -> {handle_nfs3_pathconf(r, call)}
      [] call.proc = "COMMIT" -> {handle_nfs3_commit(r, call)}
      [] call.proc = "MNT" -> {handle_mount3_mnt(r, call)}
      [] call.proc = "UMNT" -> {handle_mount3_umnt(r, call)}
      [] call.proc = "UMNTALL" -> {handle_mount3_umnt_all(r, call)}
      [] OTHER -> {}

-----------------------------------------------------------------------------
(* The RPC layer (nfs.py) and the sniffer (sensor_nfs.py).                 *)

Lookup(proc) == Tables[Program(proc)][proc]

(* Results without data, and rejections other than the one with versions,  *)
(* are replies without a payload.                                          *)
HasPayload(p) ==
    \/ p.accept = "PROG_MISMATCH"
    \/ p.accept = "SUCCESS"
       /\ p.call.proc \notin {"NULL", "MOUNT_NULL", "UMNT", "UMNTALL", "PMAP_NULL"}

(* guess_payload_class of a reply: the class the call left under the XID.  *)
(* It is asked for, and taken out, only when there is a payload.           *)
Asked(p) == HasPayload(p) /\ p.call.xid \in DOMAIN xid_reply_map
ReplyClass(p) ==
    IF Asked(p) /\ p.accept = "SUCCESS" THEN Lookup(xid_reply_map[p.call.xid]).reply ELSE <<>>

Dissected(p) ==
    [class |-> ReplyClass(p), accept |-> p.accept, ok |-> p.ok, h |-> p.h, call |-> p.call]

Packet == Head(wire)
Receives == sensing = "running" /\ wire # <<>>

(* The socket drops a packet the sniffer did not read in time.             *)
Drop ==
    /\ Lossy /\ wire # <<>>
    /\ wire' = Tail(wire)
    /\ missed' = missed \cup {Head(wire).call.xid}
    /\ UNCHANGED <<fs, ever, calls, pending, bound, xid_call_map, xid_reply_map, maps, sensing,
                   log_messages, sent, cause>>

(* Packets on ports that are not bound to RPC are not parsed.              *)
RecvOther ==
    /\ Receives /\ Program(Packet.call.proc) \notin bound
    /\ wire' = Tail(wire)
    /\ UNCHANGED <<world, bound, xid_call_map, xid_reply_map, maps, sensing,
                   log_messages, sent, cause>>

(* A call is kept under its XID, with the class of its reply.              *)
RecvCall ==
    /\ Receives /\ Packet.dir = "call" /\ Program(Packet.call.proc) \in bound
    /\ wire' = Tail(wire)
    /\ xid_call_map' = With(xid_call_map, Packet.call.xid, Packet.call)
    /\ xid_reply_map' = With(xid_reply_map, Packet.call.xid, Packet.call.proc)
    /\ UNCHANGED <<world, bound, maps, sensing, log_messages, sent, cause>>

(* mutated: the class stays in the table *)
xid_reply_map_keep(p) == xid_reply_map
xid_reply_map_del(p) == Without(xid_reply_map, IF Asked(p) THEN {p.call.xid} ELSE {})

(* mutated: a call is kept after its reply *)
xid_call_map_keep(p) == xid_call_map
(* The call stays while further fragments of the reply are expected.       *)
xid_call_map_del(p) == Without(xid_call_map, IF p.last THEN {p.call.xid} ELSE {})

(* A reply: dissected, matched with its call, handled, and then the state  *)
(* is updated.  What raises on the way ends the sensing method.            *)
RecvReply ==
    /\ Receives /\ Packet.dir = "reply" /\ Program(Packet.call.proc) \in bound
    /\ wire' = Tail(wire)
    /\ xid_reply_map' = xid_reply_map_del(Packet)
    /\ LET known == Packet.call.xid \in DOMAIN xid_call_map
           ends(r, call, reports) ==
               update_raises(r, call) \/ \E m \in reports : m.raises \/ ~m.json
       IN  IF ~known
           THEN UNCHANGED <<bound, xid_call_map, maps, sensing, log_messages, cause>>
           ELSE \E r \in {Dissected(Packet)}, call \in {xid_call_map[Packet.call.xid]} :
                \E reports \in {handlers(r, call)} :
                    /\ xid_call_map' = xid_call_map_del(Packet)
                    /\ bound' = IF call.proc = "GETPORT" /\ r.class # <<>>
                                THEN bound \cup {"mountd"} ELSE bound
                    /\ maps' = IF (\E m \in reports : m.raises) \/ ~is_reply_parsable(r, call)
                               THEN maps ELSE update_state(maps, r, call)
                    /\ IF ends(r, call, reports)
                       THEN /\ sensing' = "ended" /\ cause' = Packet
                            /\ UNCHANGED log_messages
                       ELSE /\ log_messages' = log_messages \o SetToSeq(reports)
                            /\ UNCHANGED <<sensing, cause>>
    /\ UNCHANGED <<world, sent>>

(* Nothing is ready: the sniffer sleeps, which lets other tasks run.       *)
Sleep ==
    /\ sensing = "running" /\ wire = <<>>
    /\ sensing' = "asleep"
    /\ UNCHANGED <<world, wire, bound, xid_call_map, xid_reply_map, maps,
                   log_messages, sent, cause>>
Wake ==
    /\ sensing = "asleep" /\ wire # <<>>
    /\ sensing' = "running"
    /\ UNCHANGED <<world, wire, bound, xid_call_map, xid_reply_map, maps,
                   log_messages, sent, cause>>

log_drain ==
    /\ sensing # "running" /\ log_messages # <<>>
    /\ sent' = sent \cup {Head(log_messages)}
    /\ log_messages' = Tail(log_messages)
    /\ UNCHANGED <<world, wire, bound, xid_call_map, xid_reply_map, maps, sensing, cause>>

Sniff == RecvOther \/ RecvCall \/ RecvReply \/ Sleep \/ Wake

Next ==
    \/ \E c \in Clients, proc \in Procs : Call(c, proc)
    \/ \E call \in pending : Reply(call)
    \/ Drop
    \/ Sniff
    \/ log_drain

Spec == Init /\ [][Next]_vars

(* The sniffer and the drain are tasks of the sensor's own loop.           *)
FairSpec == Spec /\ WF_vars(Sniff) /\ WF_vars(log_drain)

-----------------------------------------------------------------------------
(* Properties.                                                             *)

Xids == 1..MaxCalls

(* Whatever packets the sniffer missed, a path it has for a handle is one  *)
(* the handle has had on the server, unless it begins with {unknown}: the  *)
(* handlers of nfs_packet_handler.py put these paths into the reports.     *)
PathsWereTrue ==
    \A h \in DOMAIN maps.handle_name :
        maps.handle_name[h][1] # Unknown => <<h, maps.handle_name[h]>> \in ever

(* A reply ends the sensing method only where the parser has no status for *)
(* it (LINK, MKNOD, a call the server did not accept, what comes again     *)
(* after a fragment) or the report is not JSON (READLINK).                 *)
EndedOnUnparsed ==
    sensing = "ended" =>
        \/ cause.call.proc \in {"LINK", "MKNOD", "READLINK"}
        \/ cause.accept # "SUCCESS"
        \/ ~cause.last

(* What stays in xid_reply_map after the reply is the class of a reply     *)
(* without payload; the others are taken out of it as they are dissected.  *)
OnlyEmptyRepliesStay ==
    \A m \in sent : m.of.xid \in DOMAIN xid_reply_map =>
        m.of.proc \in {"NULL", "UMNT", "UMNTALL", "MNT"}

(* A reply whose call the sniffer knows is reported to Kafka in the end,   *)
(* unless the sensing method ends.                                         *)
Reportable == DOMAIN Tables["nfs"] \cup {"MNT", "UMNT", "UMNTALL"}
Answered(x) ==
    /\ x \in DOMAIN xid_call_map /\ xid_call_map[x].proc \in Reportable
    /\ \E i \in DOMAIN wire : wire[i].dir = "reply" /\ wire[i].call.xid = x
SeenIsSent ==
    \A x \in Xids : Answered(x) ~>
        (sensing = "ended" \/ x \in missed \/ \E m \in sent : m.of.xid = x)
=============================================================================
