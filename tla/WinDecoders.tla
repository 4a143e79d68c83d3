----------------------------- MODULE WinDecoders -----------------------------
(* What the Windows service reads, checked against what the driver writes:      *)
(* events, commands, the listing of the probes and kernel addresses.  The       *)
(* decoders are pure; a state is one input.                                     *)
EXTENDS WinEvents

CONSTANTS MaxData, MaxProbes     \* bounds: characters of a command's data, listed probes

(* A response of MAXRSPSZ bytes has room for 39 probes; the driver has fewer. *)
ASSUME WinDecodersAssumption == MaxData \in Nat /\ MaxProbes \in 0..39

VARIABLE input

Input(kind, values) == {[kind |-> kind, value |-> v] : v \in values}
Widths == UNION {[1..n -> {1, 2}] : n \in 0..MaxData}
Init == input \in Input("event", Emitted \X Names)
                    \cup Input("command", Widths \X (0..2)) \cup Input("listing", 0..MaxProbes)
                    \cup Input("pointer", 1..(2 * SignBit - 1))
(* Nothing happens after the input is chosen. *)
Next == UNCHANGED input
Spec == Init /\ [][Next]_input

(* Each packet that a probe of the driver emits is decoded by the class whose     *)
(* fields are where the driver puts them (_packet_decode_header); build() cuts the *)
(* name out of it, all of it, and nothing but zeros after a command line; and      *)
(* LongLongToHex gives back a kernel address bit by bit.                           *)
EventsAreRead ==
    /\ input.kind = "event" => PacketAgrees(input.value[1]) /\ NameAgrees(input.value[1], input.value[2])
    /\ input.kind = "pointer" => PointerAgrees(input.value)

(* Commands have the numbers and the places the driver reads, their data fit,   *)
(* and the answer to EnumerateSensors is read entry by entry.                   *)
CommandsAreRead ==
    /\ input.kind = "command" => CommandAgrees(input.value[1], input.value[2])
    /\ input.kind = "listing" => ListingAgrees(input.value)
=============================================================================
