------------------------------ MODULE BccSensor ------------------------------
(* The BCC sensor: the tools run in the curio kernel of a thread of their own and *)
(* put what they print on msg_queue; msg_consumer runs in the wrapper's thread and *)
(* relays it.  The queue does not know of threads: a threading lock protects it.   *)
EXTENDS Integers, Sequences

CONSTANTS BccTools,      \* the tools that are run
          MaxLines,      \* bound: lines a tool prints
          Levels,        \* the observation levels set, as config["prio"]
          MaxLevels      \* bound: how often one is set

VERBOSITY_LEVEL_LOW == 1
VERBOSITY_LEVEL_DEFAULT == 2
VERBOSITY_LEVEL_HIGH == 3
TOOLS ==
    [bashreadline |-> VERBOSITY_LEVEL_DEFAULT, biosnoop |-> VERBOSITY_LEVEL_DEFAULT,
     capable |-> VERBOSITY_LEVEL_DEFAULT, dcsnoop |-> VERBOSITY_LEVEL_HIGH,
     execsnoop |-> VERBOSITY_LEVEL_DEFAULT, killsnoop |-> VERBOSITY_LEVEL_DEFAULT,
     opensnoop |-> VERBOSITY_LEVEL_DEFAULT, shmsnoop |-> VERBOSITY_LEVEL_DEFAULT,
     solisten |-> VERBOSITY_LEVEL_LOW, statsnoop |-> VERBOSITY_LEVEL_HIGH,
     syncsnoop |-> VERBOSITY_LEVEL_DEFAULT, tcpaccept |-> VERBOSITY_LEVEL_LOW,
     tcpconnect |-> VERBOSITY_LEVEL_LOW]

ASSUME BccAssumption == BccTools \subseteq DOMAIN TOOLS /\ Levels \subseteq 0..4 /\ MaxLines \in Nat /\ MaxLevels \in Nat

VARIABLES
    printed,     \* the lines each tool has printed: their number, and if there is no word in it
    pipe,        \* those its task has not read
    header,      \* tools whose header was read
    producing,   \* the tools' task group is alive
    hand,        \* the record the producer thread holds, or none
    lock,        \* msg_queue_lock: "none", "producer" or "consumer"
    msg_queue,
    consumer,    \* "poll", "asleep", "want", "get", "emit" or "off" (cancelled)
    inmsg,       \* the record the consumer holds, or none
    prio,        \* config["prio"] of the consumer
    relayed,     \* records relayed or passed over, with which of the two
    levels       \* number of levels set so far
bccVars == <<printed, pipe, header, producing, hand, lock, msg_queue, consumer, inmsg, prio,
             relayed, levels>>
toolSide == <<printed, pipe, header, producing, hand>>
consumerSide == <<consumer, inmsg, prio, relayed, levels>>

BccInit ==
    /\ printed = [t \in BccTools |-> <<>>] /\ pipe = [t \in BccTools |-> <<>>]
    /\ header = {} /\ producing = TRUE /\ hand = <<>>
    /\ lock = "none" /\ msg_queue = <<>>
    /\ consumer = "poll" /\ inmsg = <<>> /\ prio \in Levels /\ relayed = <<>> /\ levels = 0

-----------------------------------------------------------------------------
(* The producer thread.                                                      *)

ToolPrints(t) ==
    /\ Len(printed[t]) < MaxLines
    /\ \E blank \in BOOLEAN : LET line == [n |-> Len(printed[t]) + 1, blank |-> blank] IN
          /\ printed' = [printed EXCEPT ![t] = Append(@, line)]
          /\ pipe' = [pipe EXCEPT ![t] = Append(@, line)]
    /\ UNCHANGED <<header, producing, hand, lock, msg_queue, consumerSide>>

parseline_blank(t, line) ==
    /\ header' = header \cup {t}
    /\ hand' = IF t \in header THEN <<[toolname |-> t, prio |-> TOOLS[t], line |-> line]>> ELSE <<>>
(* The first line with a word in it is the header, which gives no record. *)
parseline(t, line) ==
    IF t \notin header
    THEN /\ header' = IF line.blank THEN header ELSE header \cup {t}
         /\ hand' = <<>>
    ELSE /\ hand' = <<[toolname |-> t, prio |-> TOOLS[t], line |-> line]>>
         /\ UNCHANGED header
run_reads(t) ==
    /\ producing /\ hand = <<>> /\ pipe[t] # <<>>
    /\ parseline(t, Head(pipe[t]))
    /\ pipe' = [pipe EXCEPT ![t] = Tail(@)]
    /\ UNCHANGED <<printed, producing, lock, msg_queue, consumerSide>>

(* The lock blocks the whole thread, and no other tool's task runs meanwhile. *)
run_locks ==
    /\ hand # <<>> /\ lock = "none"
    /\ lock' = "producer"
    /\ UNCHANGED <<toolSide, msg_queue, consumerSide>>
run_puts ==
    /\ lock = "producer"
    /\ msg_queue' = msg_queue \o hand /\ hand' = <<>>
    /\ lock' = "none"
    /\ UNCHANGED <<printed, pipe, header, producing, consumerSide>>

(* A tool cannot be run, or prints what is not UTF-8: the task group ends them all. *)
ToolFails ==
    /\ producing /\ hand = <<>>
    /\ producing' = FALSE
    /\ UNCHANGED <<printed, pipe, header, hand, lock, msg_queue, consumerSide>>

-----------------------------------------------------------------------------
(* msg_consumer.                                                             *)

consumer_polls_not ==
    /\ consumer = "poll" /\ consumer' = "want"
    /\ UNCHANGED <<toolSide, lock, msg_queue, inmsg, prio, relayed, levels>>
consumer_polls ==
    /\ consumer = "poll"
    /\ consumer' = IF msg_queue = <<>> THEN "asleep" ELSE "want"
    /\ UNCHANGED <<toolSide, lock, msg_queue, inmsg, prio, relayed, levels>>
consumer_wakes ==
    /\ consumer = "asleep" /\ consumer' = "poll"
    /\ UNCHANGED <<toolSide, lock, msg_queue, inmsg, prio, relayed, levels>>
consumer_locks ==
    /\ consumer = "want" /\ lock = "none"
    /\ consumer' = "get" /\ lock' = "consumer"
    /\ UNCHANGED <<toolSide, msg_queue, inmsg, prio, relayed, levels>>
(* get waits for an item, with the lock held. *)
consumer_gets ==
    /\ consumer = "get" /\ msg_queue # <<>>
    /\ inmsg' = <<Head(msg_queue)>> /\ msg_queue' = Tail(msg_queue)
    /\ lock' = "none" /\ consumer' = "emit"
    /\ UNCHANGED <<toolSide, prio, relayed, levels>>
consumer_emits ==
    /\ consumer = "emit"
    /\ relayed' = Append(relayed, [msg |-> inmsg[1], sent |-> ~(prio < inmsg[1].prio)])
    /\ inmsg' = <<>> /\ consumer' = "poll"
    /\ UNCHANGED <<toolSide, lock, msg_queue, prio, levels>>

(* An actuation: the consumer is cancelled where it waits and started with the      *)
(* configuration of the new level.  The tools go on.                                *)
consumer_cancelled ==
    /\ consumer = "asleep" /\ levels < MaxLevels
    /\ consumer' = "off" /\ levels' = levels + 1
    /\ UNCHANGED <<toolSide, lock, msg_queue, inmsg, prio, relayed>>
consumer_starts ==
    /\ consumer = "off"
    /\ consumer' = "poll" /\ prio' \in Levels
    /\ UNCHANGED <<toolSide, lock, msg_queue, inmsg, relayed, levels>>

ProducerStep == (\E t \in BccTools : run_reads(t)) \/ run_locks \/ run_puts
ConsumerStep == consumer_polls \/ consumer_wakes \/ consumer_locks \/ consumer_gets \/ consumer_emits \/ consumer_starts
BccNext ==
    \/ ProducerStep \/ ConsumerStep \/ ToolFails \/ consumer_cancelled
    \/ \E t \in BccTools : ToolPrints(t)
BccSpec == BccInit /\ [][BccNext]_bccVars

-----------------------------------------------------------------------------
(* Properties.                                                               *)
(* The records made so far, in their order: those the consumer is done with, the one it  *)
(* holds, and those that come.                                                           *)
Made == [i \in DOMAIN relayed |-> relayed[i].msg] \o inmsg \o msg_queue \o hand
Of(t) == {i \in DOMAIN Made : Made[i].toolname = t}
IsHeader(lines, h) == ~lines[h].blank /\ \A j \in 1..(h - 1) : lines[j].blank
(* Each line a tool has printed after its header is relayed or passed over once, in  *)
(* the order printed, or is still on its way, whatever levels are set meanwhile.     *)
EachLineOnce ==
    \A t \in header :
        LET read == Len(printed[t]) - Len(pipe[t])
        IN  /\ \E h \in 1..read :
                  IsHeader(printed[t], h) /\ {Made[i].line : i \in Of(t)} = {printed[t][j] : j \in (h + 1)..read}
            /\ \A i, j \in Of(t) : i < j => Made[i].line.n < Made[j].line.n
            /\ \A i \in DOMAIN pipe[t] : pipe[t][i] = printed[t][read + i]

(* The sensor as one channel of what its tools print, which never end. *)
Origin(record) == [from |-> record.toolname, n |-> record.line.n]
Recorded == [i \in DOMAIN Made |-> Origin(Made[i])]
PassedOn == [i \in DOMAIN relayed |-> Origin(relayed[i].msg)]
BccChannel ==
    INSTANCE MessageChannel WITH Sources <- BccTools, log <- Recorded, delivered <- PassedOn, closed <- {}

(* The consumer never waits with the lock held, so every record in the producer's     *)
(* hand and on the queue is taken.                                                    *)
Drained == (hand # <<>> \/ msg_queue # <<>>) ~> (hand = <<>> /\ msg_queue = <<>>)
=============================================================================
