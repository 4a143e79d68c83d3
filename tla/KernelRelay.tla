----------------------------- MODULE KernelRelay -----------------------------
(* The relay of the Linux kernel sensors: it asks each of them for its records    *)
(* over one UNIX socket and puts them on the queue of the wrapper.  A line of the *)
(* socket is two pieces, so that a read can end inside it.  The stream object      *)
(* that buffers what was read is made anew for every fetch.                        *)
EXTENDS Integers, Sequences, SequencesExt

CONSTANTS KernelSensors,    \* what the kernel module advertises, in order
          MaxRecords,       \* bound: records the sensors have
          MaxAsks,          \* bound: requests the socket holds before sendall blocks
          MaxSock,          \* bound: pieces of lines the socket holds before the kernel's write blocks
          MaxRelayFaults    \* bound: refusals, cancellations, the closing of the socket

ASSUME KernelRelayAssumption ==
    /\ KernelSensors \in Seq(STRING) /\ KernelSensors # <<>>
    /\ MaxRecords \in Nat /\ MaxAsks \in Nat \ {0} /\ MaxSock \in Nat /\ MaxRelayFaults \in Nat

VARIABLES
    asks,         \* requests the kernel has not answered to the end
    sock,         \* pieces of lines on their way to the relay
    kernelUp,     \* the kernel's end of the socket is open
    written,      \* the sensor of every record the kernel has written
    relay,        \* "new", "send", "reading", "asleep", "off" (cancelled) or "ended" (raised)
    sensors,      \* the sensors discovered
    turn,         \* which of them is being asked
    buf,          \* the buffer of this fetch's stream
    msgs,         \* what this fetch has read
    out,          \* messages put on the queue
    interrupted,  \* a fetch was left with its answer not read to the end
    relayFaults
relayVars == <<asks, sock, kernelUp, written, relay, sensors, turn, buf, msgs, out, interrupted, relayFaults>>
kernelSide == <<asks, kernelUp, written>>

(* A reply is the sensor's name and the number of a record, 0 for the one that    *)
(* says there are no more.                                                         *)
Pieces(name, n) == <<[name |-> name, n |-> n, half |-> 1], [name |-> name, n |-> n, half |-> 2]>>
HasLine(b) == \E i \in DOMAIN b : b[i].half = 2
LineEnd(b) == CHOOSE i \in DOMAIN b : b[i].half = 2 /\ \A j \in 1..(i - 1) : b[j].half = 1
Room == Len(sock) + 2 <= MaxSock
RelayFault == relayFaults < MaxRelayFaults /\ relayFaults' = relayFaults + 1

RelayInit ==
    /\ asks = <<>> /\ sock = <<>> /\ kernelUp = TRUE /\ written = <<>>
    /\ relay = "new" /\ sensors = <<>> /\ turn = 1 /\ buf = <<>> /\ msgs = <<>> /\ out = <<>>
    /\ interrupted = FALSE /\ relayFaults = 0

-----------------------------------------------------------------------------
(* The kernel's side of the connection: the requests one after the other.        *)
KernelWrites ==
    /\ kernelUp /\ asks # <<>> /\ Room /\ Len(written) < MaxRecords
    /\ written' = Append(written, Head(asks))
    /\ sock' = sock \o Pieces(Head(asks), Len(written) + 1)
    /\ UNCHANGED <<asks, kernelUp, relay, sensors, turn, buf, msgs, out, interrupted, relayFaults>>
KernelEnds ==
    /\ kernelUp /\ asks # <<>> /\ Room
    /\ asks' = Tail(asks) /\ sock' = sock \o Pieces(Head(asks), 0)
    /\ UNCHANGED <<kernelUp, written, relay, sensors, turn, buf, msgs, out, interrupted, relayFaults>>
(* No sensor of that name, or no memory: nothing is written. *)
KernelRefuses ==
    /\ kernelUp /\ asks # <<>> /\ RelayFault
    /\ asks' = Tail(asks)
    /\ UNCHANGED <<sock, kernelUp, written, relay, sensors, turn, buf, msgs, out, interrupted>>
KernelCloses ==
    /\ kernelUp /\ relay # "new" /\ RelayFault
    /\ kernelUp' = FALSE
    /\ UNCHANGED <<asks, sock, written, relay, sensors, turn, buf, msgs, out, interrupted>>

-----------------------------------------------------------------------------
(* The relay.                                                                *)

discover_sensors == sensors' = KernelSensors
common_init ==
    /\ relay = "new"
    /\ discover_sensors /\ relay' = "send" /\ turn' = 1
    /\ UNCHANGED <<kernelSide, sock, buf, msgs, out, interrupted, relayFaults>>

(* sendall raises when the other end is closed, and waits when the socket is full. *)
send_json_obj ==
    IF kernelUp THEN Len(asks) < MaxAsks /\ asks' = Append(asks, sensors[turn]) ELSE UNCHANGED asks
Send ==
    /\ relay = "send" /\ send_json_obj
    /\ relay' = IF kernelUp THEN "reading" ELSE "ended"
    /\ buf' = <<>> /\ msgs' = <<>>
    /\ UNCHANGED <<sock, kernelUp, written, sensors, turn, out, interrupted, relayFaults>>

(* readline reads from the socket until it has a line. *)
Recv ==
    /\ relay = "reading" /\ ~HasLine(buf)
    /\ \E k \in 1..Len(sock) :
          buf' = buf \o SubSeq(sock, 1, k) /\ sock' = SubSeq(sock, k + 1, Len(sock))
    /\ UNCHANGED <<kernelSide, relay, sensors, turn, msgs, out, interrupted, relayFaults>>

(* poll_sensors: the messages of the fetch are put, and the next sensor is asked. *)
Fetched ==
    /\ out' = out \o msgs /\ msgs' = <<>> /\ buf' = <<>>
    /\ IF turn < Len(sensors) THEN turn' = turn + 1 /\ relay' = "send" ELSE turn' = 1 /\ relay' = "asleep"

parse_json_nul(b) == {p \in {b[1]} : p.half = 2}
parse_json(b) == IF LineEnd(b) = 2 /\ b[1].n = b[2].n THEN {b[2]} ELSE {}
convert_sensor_reply_asked(reply) == [sensor |-> sensors[turn], n |-> reply.n]
convert_sensor_reply(reply) == [sensor |-> reply.name, n |-> reply.n]
(* A line that does not parse gives None, of which convert_sensor_reply asks for an *)
(* attribute: the method raises, and what the fetch has read is gone.                *)
ReadReply ==
    /\ relay = "reading" /\ HasLine(buf)
    /\ IF parse_json(buf) = {}
       THEN relay' = "ended" /\ buf' = <<>> /\ msgs' = <<>> /\ UNCHANGED <<turn, out>>
       ELSE \E reply \in parse_json(buf) :
               IF reply.n = 0 THEN Fetched
               ELSE /\ msgs' = Append(msgs, convert_sensor_reply(reply))
                    /\ buf' = SubSeq(buf, LineEnd(buf) + 1, Len(buf))
                    /\ UNCHANGED <<relay, turn, out>>
    /\ UNCHANGED <<kernelSide, sock, sensors, interrupted, relayFaults>>

(* The end of the stream, and the timeout: what was read so far is the result. *)
EndOfStream ==
    /\ relay = "reading" /\ buf = <<>> /\ sock = <<>> /\ ~kernelUp
    /\ Fetched
    /\ UNCHANGED <<kernelSide, sock, sensors, interrupted, relayFaults>>
SocketTimeout ==
    /\ relay = "reading" /\ ~HasLine(buf)
    /\ Fetched /\ interrupted' = TRUE
    /\ UNCHANGED <<kernelSide, sock, sensors, relayFaults>>

RepeatDelay ==
    /\ relay = "asleep" /\ relay' = "send"
    /\ UNCHANGED <<kernelSide, sock, sensors, turn, buf, msgs, out, interrupted, relayFaults>>

(* An actuation: cancelled where it waits, and started again from the first sensor. *)
CancelPoll ==
    /\ relay \in {"send", "asleep", "ended"} \/ (relay = "reading" /\ ~HasLine(buf))
    /\ RelayFault
    /\ relay' = "off" /\ turn' = 1 /\ buf' = <<>> /\ msgs' = <<>>
    /\ interrupted' = (interrupted \/ relay = "reading")
    /\ UNCHANGED <<kernelSide, sock, sensors, out>>
StartPoll ==
    /\ relay = "off" /\ relay' = "send"
    /\ UNCHANGED <<kernelSide, sock, sensors, turn, buf, msgs, out, interrupted, relayFaults>>

RelayStep == common_init \/ Send \/ Recv \/ ReadReply \/ EndOfStream \/ SocketTimeout \/ RepeatDelay \/ StartPoll
RelayNext == RelayStep \/ KernelWrites \/ KernelEnds \/ KernelRefuses \/ KernelCloses \/ CancelPoll
RelaySpec == RelayInit /\ [][RelayNext]_relayVars

-----------------------------------------------------------------------------
(* The lines among the pieces that carry a record. *)
Records(pieces) == {i \in DOMAIN pieces : pieces[i].half = 2 /\ pieces[i].n # 0}
(* Records go out under the name of the sensor that made them, although after a      *)
(* timeout the reply to one request is read as the reply to the next; at most once    *)
(* and in the order the kernel wrote them; and none is lost as long as every answer   *)
(* was read to its end.                                                               *)
RelayKeepsAll ==
    LET told == out \o msgs
        coming == buf \o sock
    IN  /\ \A i \in DOMAIN out : out[i].sensor = written[out[i].n]
        /\ \A i, j \in DOMAIN told : i < j => told[i].n < told[j].n
        /\ \A i, j \in Records(coming) : i < j => coming[i].n < coming[j].n
        /\ \A i \in DOMAIN told, j \in Records(coming) : told[i].n < coming[j].n
        /\ ~interrupted =>
               {told[i].n : i \in DOMAIN told} \cup {coming[i].n : i \in Records(coming)} = 1..Len(written)

(* The relay raises only after a fetch that was cut off, or when the kernel has       *)
(* closed the socket.                                                                 *)
EndsOnlyCut == relay = "ended" => interrupted \/ ~kernelUp
=============================================================================
