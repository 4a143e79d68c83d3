------------------------------ MODULE Decoders ------------------------------
(* The decoders of the project together: those of WinDecoders, and the        *)
(* dissection of NFS packets, checked against what client and server encode.  *)
EXTENDS NfsDissect, WinDecoders

DecodersInit == Init \/ input \in Input("nfs", Packets \X DOMAIN Procs)
DecodersSpec == DecodersInit /\ [][Next]_input

(* A LINK reply has no attributes class of its own and a MKNOD reply no status:  *)
(* what the sensor does with them is in NfsMonitor.                             *)
ReadReplies == DOMAIN Procs \ {"LINK", "MKNOD"}

(* What the sensor takes from a dissected call and its reply is what client and  *)
(* server encoded, whatever optional fields they set and in success and failure:  *)
(* handles, names, arguments, credentials; status, new handle and mask.            *)
NfsIsRead ==
    input.kind = "nfs" =>
        LET packet == input.value[1]
            proc == Procs[input.value[2]]
        IN  /\ CallAgrees(packet, proc) /\ CredentialsAgree(packet)
            /\ input.value[2] \in ReadReplies => ReplyAgrees(packet, proc)
=============================================================================
