----------------------------- MODULE NfsPackets -----------------------------
(***************************************************************************)
(* The packet classes of the NFS sensor's parser (nfs.py): for each class  *)
(* the fields it dissects, in order.  Scapy is external; what matters of   *)
(* its field types is how many bytes they take from the packet:            *)
(*   int, long     4 and 8 bytes;                                          *)
(*   string        a length, as many bytes, and padding to four;           *)
(*   opaque        a length and as many bytes, no padding;                 *)
(*   packet        the fields of another class;                            *)
(*   list          packets of a class, as long as entry_follows is set;    *)
(*                 "greedy" when the class is no PacketNoPad: its first    *)
(*                 element keeps all bytes that are left as its payload;   *)
(*   ints          a count and as many ints;                               *)
(*   rest          all bytes that are left.                                *)
(* A field with a condition is there unless the flag has a value of out.   *)
(***************************************************************************)
EXTENDS Integers, Sequences

Always == [flag |-> "", out |-> {}]
Field(f, kind, of) == [name |-> f, kind |-> kind, of |-> of, when |-> Always]

IntField(f)  == Field(f, "int", <<>>)
LongField(f) == Field(f, "long", <<>>)
PacketField(f, class) == Field(f, "packet", class)
PacketListField(f, class) == Field(f, "list", class)
ConditionalField(field, flag, out) ==
    [field EXCEPT !.when = [flag |-> flag, out |-> out]]

-----------------------------------------------------------------------------
(* Basic data types.                                                       *)

NFS3_fname == <<Field("v", "string", <<>>)>>
NFS3_path == <<Field("v", "string", <<>>)>>
NFS3_fileid == <<LongField("v")>>
NFS3_cookie == <<LongField("v")>>
NFS3_cookieverf == <<LongField("v")>>
NFS3_createverf == <<LongField("v")>>
NFS3_writeverf == <<LongField("v")>>
NFS3_uid == <<IntField("v")>>
NFS3_gid == <<IntField("v")>>
NFS3_size == <<LongField("v")>>
NFS3_offset == <<LongField("v")>>
NFS3_mode == <<IntField("v")>>
NFS3_count == <<IntField("v")>>
NFS3_ftype == <<IntField("v")>>
NFS3_specdata == <<IntField("specdata1"), IntField("specdata2")>>
NFS3_time == <<IntField("sec"), IntField("nsec")>>
NFS3_fhandle == <<Field("v", "opaque", <<>>)>>

NFS3_fattr ==
    << PacketField("ftype", NFS3_ftype), PacketField("mode", NFS3_mode),
       PacketField("nlink", NFS3_count), PacketField("uid", NFS3_uid),
       PacketField("gid", NFS3_gid), PacketField("size", NFS3_size),
       PacketField("used", NFS3_size), PacketField("specdata", NFS3_specdata),
       LongField("fsid"), PacketField("fileid", NFS3_fileid),
       PacketField("atime", NFS3_time), PacketField("mtime", NFS3_time),
       PacketField("ctime", NFS3_time) >>

NFS3_sattr ==
    LET Set(flag, f, class) ==
            << IntField(flag), ConditionalField(PacketField(f, class), flag, {0}) >>
    IN  Set("set_mode", "mode", NFS3_mode) \o Set("set_uid", "uid", NFS3_uid)
        \o Set("set_gid", "gid", NFS3_gid) \o Set("set_size", "size", NFS3_size)
        \o Set("set_atime", "atime", NFS3_time)
        \o Set("set_mtime", "mtime", NFS3_time)

NFS3_post_op_attr ==
    << IntField("attribs_follow"),
       ConditionalField(PacketField("fattr", NFS3_fattr), "attribs_follow", {0}) >>
NFS3_post_op_fh ==
    << IntField("handle_follows"),
       ConditionalField(PacketField("handle", NFS3_fhandle), "handle_follows", {0}) >>
NFS3_wcc_attr ==
    << PacketField("size", NFS3_size), PacketField("mtime", NFS3_time),
       PacketField("ctime", NFS3_time) >>
NFS3_pre_op_attr ==
    << IntField("attribs_follow"), PacketField("attr", NFS3_wcc_attr) >>
NFS3_wcc_data ==
    << PacketField("before", NFS3_pre_op_attr),
       PacketField("after", NFS3_post_op_attr) >>
NFS3_dir_op_args ==
    << PacketField("handle", NFS3_fhandle), PacketField("fname", NFS3_fname) >>
NFS3_sattrguard ==
    << IntField("check"),
       ConditionalField(PacketField("obj_ctime", NFS3_time), "check", {0}) >>
NFS3_symlink_data ==
    << PacketField("attr", NFS3_sattr), PacketField("path", NFS3_path) >>
NFS3_status == <<IntField("v")>>

-----------------------------------------------------------------------------
(* NFS procedures: what a call holds, and its reply after a status.        *)

(* A reply class that holds the status as a packet, which has success().   *)
StatusPacket == <<PacketField("nfs_status", NFS3_status)>>
(* One that holds it as a plain number, which has not.                     *)
StatusNumber == IntField("nfs_status")

NFS3_NULL_Call == <<>>
NFS3_NULL_Reply == <<>>

NFS3_GETATTR_Call == <<PacketField("handle", NFS3_fhandle)>>
NFS3_GETATTR_ReplyOk == <<PacketField("fattr", NFS3_fattr)>>
NFS3_GETATTR_Reply == StatusPacket

NFS3_SETATTR_Call ==
    << PacketField("handle", NFS3_fhandle), PacketField("new_attr", NFS3_sattr),
       PacketField("guard", NFS3_sattrguard) >>
NFS3_SETATTR_Reply == <<StatusNumber, PacketField("obj_wcc", NFS3_wcc_data)>>

NFS3_LOOKUP_Call == <<PacketField("args", NFS3_dir_op_args)>>
NFS3_LOOKUP_ReplyOk ==
    << PacketField("handle", NFS3_fhandle), PacketField("obj", NFS3_post_op_attr),
       PacketField("dir", NFS3_post_op_attr) >>
NFS3_LOOKUP_ReplyFail == <<PacketField("dir", NFS3_post_op_attr)>>
NFS3_LOOKUP_Reply == StatusPacket

NFS3_ACCESS_Call == <<PacketField("handle", NFS3_fhandle), IntField("check_access")>>
NFS3_ACCESS_ReplyOk == <<PacketField("obj", NFS3_post_op_attr), IntField("access")>>
NFS3_ACCESS_ReplyFail == <<PacketField("obj", NFS3_post_op_attr)>>
NFS3_ACCESS_Reply == StatusPacket

NFS3_READLINK_Call == <<PacketField("handle", NFS3_fhandle)>>
NFS3_READLINK_ReplyOk ==
    << PacketField("link", NFS3_post_op_attr), PacketField("path", NFS3_path) >>
NFS3_READLINK_ReplyFail == <<PacketField("link", NFS3_post_op_attr)>>
NFS3_READLINK_Reply == StatusPacket

NFS3_READ_Call ==
    << PacketField("handle", NFS3_fhandle), PacketField("offset", NFS3_offset),
       PacketField("count", NFS3_count) >>
NFS3_READ_ReplyOk ==
    << PacketField("file", NFS3_post_op_attr), IntField("count"), IntField("eof"),
       IntField("data_len"), Field("data", "rest", <<>>) >>
NFS3_READ_ReplyFail == <<PacketField("file", NFS3_post_op_attr)>>
NFS3_READ_Reply == StatusPacket

NFS3_WRITE_Call ==
    << PacketField("handle", NFS3_fhandle), PacketField("offset", NFS3_offset),
       PacketField("count", NFS3_count), IntField("stable"), IntField("data_len"),
       Field("data", "rest", <<>>) >>
NFS3_WRITE_ReplyOk ==
    << PacketField("wcc", NFS3_wcc_data), IntField("count"), IntField("committed"),
       PacketField("writeverf", NFS3_writeverf) >>
NFS3_WRITE_ReplyFail == <<PacketField("wcc", NFS3_wcc_data)>>
NFS3_WRITE_Reply == StatusPacket

(* UNCHECKED 0, GUARDED 1, EXCLUSIVE 2.                                    *)
NFS3_CREATE_Call ==
    << PacketField("args", NFS3_dir_op_args), IntField("mode"),
       ConditionalField(PacketField("attr", NFS3_sattr), "mode", {2}),
       ConditionalField(PacketField("how", NFS3_createverf), "mode", {0, 1}) >>
NFS3_CREATE_ReplyOk ==
    << PacketField("handle", NFS3_post_op_fh), PacketField("attr", NFS3_post_op_attr),
       PacketField("wcc", NFS3_wcc_data) >>
NFS3_CREATE_ReplyFail == <<PacketField("wcc", NFS3_wcc_data)>>
NFS3_CREATE_Reply == StatusPacket

NFS3_MKDIR_Call == <<PacketField("args", NFS3_dir_op_args), PacketField("attr", NFS3_sattr)>>
NFS3_MKDIR_ReplyOk ==
    << PacketField("handle", NFS3_post_op_fh), PacketField("attr", NFS3_post_op_attr),
       PacketField("wcc", NFS3_wcc_data) >>
NFS3_MKDIR_ReplyFail == <<PacketField("wcc", NFS3_wcc_data)>>
NFS3_MKDIR_Reply == StatusPacket

NFS3_SYMLINK_Call ==
    << PacketField("where", NFS3_dir_op_args), PacketField("symlink", NFS3_symlink_data) >>
NFS3_SYMLINK_ReplyOk ==
    << PacketField("handle", NFS3_post_op_fh), PacketField("attr", NFS3_post_op_attr),
       PacketField("wcc", NFS3_wcc_data) >>
NFS3_SYMLINK_ReplyFail == <<PacketField("wcc", NFS3_wcc_data)>>
NFS3_SYMLINK_Reply == StatusPacket

NFS3_MKNOD_Call == <<>>
NFS3_MKNOD_Reply == <<>>

NFS3_REMOVE_Call == <<PacketField("args", NFS3_dir_op_args)>>
NFS3_REMOVE_Reply == <<StatusNumber, PacketField("wcc", NFS3_wcc_data)>>

NFS3_RMDIR_Call == <<PacketField("args", NFS3_dir_op_args)>>
NFS3_RMDIR_Reply == <<StatusNumber, PacketField("wcc", NFS3_wcc_data)>>

NFS3_RENAME_Call ==
    << PacketField("ffrom", NFS3_dir_op_args), PacketField("fto", NFS3_dir_op_args) >>
NFS3_RENAME_Reply ==
    << StatusNumber, PacketField("ffrom", NFS3_wcc_data), PacketField("fto", NFS3_wcc_data) >>

NFS3_LINK_Call ==
    << PacketField("handle", NFS3_fhandle), PacketField("link", NFS3_dir_op_args) >>
NFS3_LINK_Reply ==
    << PacketField("file", NFS3_post_op_fh), PacketField("linkdir", NFS3_wcc_data) >>

NFS3_READDIR_Call ==
    << PacketField("handle", NFS3_fhandle), PacketField("cookie", NFS3_cookie),
       PacketField("cookieverf", NFS3_cookieverf), PacketField("count", NFS3_count) >>
NFS3_READDIR_entry ==
    << PacketField("fileid", NFS3_fileid), PacketField("fname", NFS3_fname),
       PacketField("cookie", NFS3_cookie), IntField("entry_follows") >>
NFS3_READDIR_ReplyOk ==
    << PacketField("dir", NFS3_post_op_attr), PacketField("cookieverf", NFS3_cookieverf),
       IntField("entry_follows"),
       ConditionalField(Field("entries", "greedy", NFS3_READDIR_entry), "entry_follows", {0}),
       IntField("eof") >>
NFS3_READDIR_ReplyFail == <<PacketField("dir", NFS3_post_op_attr)>>
NFS3_READDIR_Reply == StatusPacket

NFS3_READDIRPLUS_Call ==
    << PacketField("handle", NFS3_fhandle), PacketField("cookie", NFS3_cookie),
       PacketField("cookieverf", NFS3_cookieverf), PacketField("dircount", NFS3_count),
       PacketField("maxcount", NFS3_count) >>
NFS3_READDIRPLUS_entry ==
    << PacketField("fileid", NFS3_fileid), PacketField("fname", NFS3_fname),
       PacketField("cookie", NFS3_cookie), PacketField("name_attr", NFS3_post_op_attr),
       PacketField("file", NFS3_post_op_fh), IntField("entry_follows") >>
NFS3_READDIRPLUS_ReplyOk ==
    << PacketField("dir", NFS3_post_op_attr), PacketField("cookieverf", NFS3_cookieverf),
       IntField("entry_follows"),
       ConditionalField(PacketListField("entries", NFS3_READDIRPLUS_entry),
                        "entry_follows", {0}),
       IntField("eof") >>
NFS3_READDIRPLUS_ReplyFail == <<PacketField("dir", NFS3_post_op_attr)>>
NFS3_READDIRPLUS_Reply == StatusPacket

NFS3_FSSTAT_Call == <<PacketField("root", NFS3_fhandle)>>
NFS3_FSSTAT_ReplyOk ==
    << PacketField("dir", NFS3_post_op_attr), PacketField("tbytes", NFS3_size),
       PacketField("fbytes", NFS3_size), PacketField("abytes", NFS3_size),
       PacketField("tfiles", NFS3_size), PacketField("ffiles", NFS3_size),
       PacketField("afiles", NFS3_size), IntField("invarsec") >>
NFS3_FSSTAT_ReplyFail == <<PacketField("fs", NFS3_post_op_attr)>>
NFS3_FSSTAT_Reply == StatusPacket

NFS3_FSINFO_Call == <<PacketField("root", NFS3_fhandle)>>
NFS3_FSINFO_ReplyFail == <<PacketField("fs", NFS3_post_op_attr)>>
NFS3_FSINFO_ReplyOk ==
    << PacketField("fs", NFS3_post_op_attr), IntField("rtmax"), IntField("rtpref"),
       IntField("rtmult"), IntField("wtmax"), IntField("wtpref"), IntField("wtmult"),
       IntField("dtmult"), PacketField("maxfilesize", NFS3_size),
       PacketField("time_delta", NFS3_time), IntField("properties") >>
NFS3_FSINFO_Reply == StatusPacket

NFS3_PATHCONF_Call == <<PacketField("path", NFS3_fhandle)>>
NFS3_PATHCONF_ReplyOk ==
    << PacketField("dir", NFS3_post_op_attr), IntField("linkmax"), IntField("name_max"),
       IntField("notrunc"), IntField("chown_restricted"), IntField("case_insensitive"),
       IntField("case_preserving") >>
NFS3_PATHCONF_ReplyFail == <<PacketField("pathconf", NFS3_post_op_attr)>>
NFS3_PATHCONF_Reply == StatusPacket

NFS3_COMMIT_Call ==
    << PacketField("root", NFS3_fhandle), PacketField("offset", NFS3_offset),
       PacketField("count", NFS3_count) >>
NFS3_COMMIT_ReplyOk ==
    << PacketField("wcc", NFS3_wcc_data), PacketField("writeverf", NFS3_writeverf) >>
NFS3_COMMIT_ReplyFail == <<PacketField("wcc", NFS3_wcc_data)>>
NFS3_COMMIT_Reply == StatusPacket

-----------------------------------------------------------------------------
(* MOUNT3 and PORTMAP procedures.                                          *)

MOUNT3_MNT_Call == <<PacketField("path", NFS3_path)>>
MOUNT3_MNT_ReplyOk ==
    << PacketField("handle", NFS3_fhandle), Field("auth_flavors", "ints", <<>>) >>
MOUNT3_MNT_Reply == <<IntField("status")>>
MOUNT3_UMNT_Call == <<PacketField("path", NFS3_path)>>
PORTMAP_GETPORT_Call ==
    << IntField("program"), IntField("version"), IntField("proto"), IntField("port") >>
PORTMAP_GETPORT_Reply == <<IntField("port")>>

-----------------------------------------------------------------------------
(* RPC: what follows the header, which has an XID and the direction.       *)

RPC_verifier == <<IntField("flavor"), Field("d", "opaque", <<>>)>>
RPC_AuthSys ==
    << IntField("stamp"), Field("machine_name", "string", <<>>),
       PacketField("uid", NFS3_uid), PacketField("gid", NFS3_gid),
       Field("aux_gids", "ints", <<>>) >>
(* AUTH_NULL 0, whose credentials are empty, AUTH_UNIX 1.                  *)
RPC_Call ==
    << IntField("rpc_version"), IntField("prog"), IntField("prog_version"),
       IntField("proc"), IntField("cred_flav"), IntField("cred_len"),
       ConditionalField(PacketField("auth_sys", RPC_AuthSys), "cred_flav", {0}),
       PacketField("verifier", RPC_verifier) >>
RPC_status == <<IntField("v")>>
RPC_Reply ==
    << IntField("state"), PacketField("verify", RPC_verifier),
       PacketField("accept_state", RPC_status) >>

-----------------------------------------------------------------------------
(* The classes of each procedure.                                          *)

Proc(call, reply, ok, fail) == [call |-> call, reply |-> reply, ok |-> ok, fail |-> fail]
(* MOUNTPROC3_NULL, _UMNTALL and _EXPORT and PMAPPROC_NULL have no fields. *)
Empty == Proc(<<>>, <<>>, <<>>, <<>>)

nfs3_lookup ==
    [ NULL        |-> Proc(NFS3_NULL_Call, NFS3_NULL_Reply, <<>>, <<>>),
      GETATTR     |-> Proc(NFS3_GETATTR_Call, NFS3_GETATTR_Reply, NFS3_GETATTR_ReplyOk, <<>>),
      SETATTR     |-> Proc(NFS3_SETATTR_Call, NFS3_SETATTR_Reply, <<>>, <<>>),
      LOOKUP      |-> Proc(NFS3_LOOKUP_Call, NFS3_LOOKUP_Reply,
                           NFS3_LOOKUP_ReplyOk, NFS3_LOOKUP_ReplyFail),
      ACCESS      |-> Proc(NFS3_ACCESS_Call, NFS3_ACCESS_Reply,
                           NFS3_ACCESS_ReplyOk, NFS3_ACCESS_ReplyFail),
      READLINK    |-> Proc(NFS3_READLINK_Call, NFS3_READLINK_Reply,
                           NFS3_READLINK_ReplyOk, NFS3_READLINK_ReplyFail),
      READ        |-> Proc(NFS3_READ_Call, NFS3_READ_Reply,
                           NFS3_READ_ReplyOk, NFS3_READ_ReplyFail),
      WRITE       |-> Proc(NFS3_WRITE_Call, NFS3_WRITE_Reply,
                           NFS3_WRITE_ReplyOk, NFS3_WRITE_ReplyFail),
      CREATE      |-> Proc(NFS3_CREATE_Call, NFS3_CREATE_Reply,
                           NFS3_CREATE_ReplyOk, NFS3_CREATE_ReplyFail),
      MKDIR       |-> Proc(NFS3_MKDIR_Call, NFS3_MKDIR_Reply,
                           NFS3_MKDIR_ReplyOk, NFS3_MKDIR_ReplyFail),
      SYMLINK     |-> Proc(NFS3_SYMLINK_Call, NFS3_SYMLINK_Reply,
                           NFS3_SYMLINK_ReplyOk, NFS3_SYMLINK_ReplyFail),
      MKNOD       |-> Proc(NFS3_MKNOD_Call, NFS3_MKNOD_Reply, <<>>, <<>>),
      REMOVE      |-> Proc(NFS3_REMOVE_Call, NFS3_REMOVE_Reply, <<>>, <<>>),
      RMDIR       |-> Proc(NFS3_RMDIR_Call, NFS3_RMDIR_Reply, <<>>, <<>>),
      RENAME      |-> Proc(NFS3_RENAME_Call, NFS3_RENAME_Reply, <<>>, <<>>),
      LINK        |-> Proc(NFS3_LINK_Call, NFS3_LINK_Reply, <<>>, <<>>),
      READDIR     |-> Proc(NFS3_READDIR_Call, NFS3_READDIR_Reply,
                           NFS3_READDIR_ReplyOk, NFS3_READDIR_ReplyFail),
      READDIRPLUS |-> Proc(NFS3_READDIRPLUS_Call, NFS3_READDIRPLUS_Reply,
                           NFS3_READDIRPLUS_ReplyOk, NFS3_READDIRPLUS_ReplyFail),
      FSSTAT      |-> Proc(NFS3_FSSTAT_Call, NFS3_FSSTAT_Reply,
                           NFS3_FSSTAT_ReplyOk, NFS3_FSSTAT_ReplyFail),
      FSINFO      |-> Proc(NFS3_FSINFO_Call, NFS3_FSINFO_Reply,
                           NFS3_FSINFO_ReplyOk, NFS3_FSINFO_ReplyFail),
      PATHCONF    |-> Proc(NFS3_PATHCONF_Call, NFS3_PATHCONF_Reply,
                           NFS3_PATHCONF_ReplyOk, NFS3_PATHCONF_ReplyFail),
      COMMIT      |-> Proc(NFS3_COMMIT_Call, NFS3_COMMIT_Reply,
                           NFS3_COMMIT_ReplyOk, NFS3_COMMIT_ReplyFail) ]

mount3_lookup ==
    [ MOUNT_NULL |-> Empty,
      MNT        |-> Proc(MOUNT3_MNT_Call, MOUNT3_MNT_Reply, MOUNT3_MNT_ReplyOk, <<>>),
      UMNT       |-> Proc(MOUNT3_UMNT_Call, <<>>, <<>>, <<>>),
      UMNTALL    |-> Empty,
      EXPORT     |-> Empty ]

portmap_lookup ==
    [ PMAP_NULL |-> Empty,
      GETPORT   |-> Proc(PORTMAP_GETPORT_Call, PORTMAP_GETPORT_Reply, <<>>, <<>>) ]

=============================================================================
