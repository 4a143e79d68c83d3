----------------------------- MODULE WinVirtue -----------------------------
(* The way of an event of the Windows driver to the message queue of its     *)
(* sensor.                                                                    *)
(*   driver   the probes, the probe data queue with the semaphore that counts *)
(*            it, and WVUProbeCommsThread, which sends one packet at a time    *)
(*            and waits for the reply;                                         *)
(*   service  WinVirtUE_service and sensor_winvirtue: the event stream pump,   *)
(*            a queue per sensor, and a wrapper per sensor whose sensing       *)
(*            method, evtdata_consumer, empties the queue.                     *)
(* The port is the filter manager's; it is external.                          *)
EXTENDS Integers, Sequences, FiniteSets, SequencesExt

CONSTANTS
    Probes,             \* the probes the driver can have
    Early,              \* those that have registered when the driver is up
    LocalPrio,          \* the priority each sensor's configuration file gives
    Levels,             \* the levels that actuation uses, as priorities
    Default,            \* the level of a sensor that was not actuated
    None,
    PROBEDATAQUEUESZ,   \* capacity of the driver's queue
    MaxEvents,          \* bound: events
    MaxOps              \* bound: sends that time out, actuations, ends of the process, bad configurations

Events == [n : 1..MaxEvents, probe : Probes]

ASSUME WinVirtueAssumption ==
    /\ PROBEDATAQUEUESZ \in Nat \ {0, 1} /\ Early \subseteq Probes
    /\ Default \in Levels /\ Levels \subseteq Nat /\ LocalPrio \in [Probes -> Nat]
    /\ {MaxEvents, MaxOps} \subseteq Nat /\ None \notin Events

VARIABLES
    registered,  \* probes in the driver's list
    PDQueue,     \* the probe data queue
    sem,         \* its semaphore
    comms,       \* WVUProbeCommsThread: "wait", "taken" (past the wait) or "sending"
    held,        \* the packet it has taken from the queue
    port,        \* the packet on the port: "idle", "pending", "got", "replied" or "closed"
    connected,   \* a client has the event port open
    svc,         \* "new", "ready", "starting", "started", "failed" or "stopped"
    running,     \* _running
    sensors,     \* _sensordict, and the keys of _sensorqueues
    pump,        \* the data stream thread
    queues,      \* _sensorqueues
    wrapper,     \* the sensor's wrapper: "none", "new", "registering", "sensing", "idle" or "ended"
    level,       \* the level its sensing method was started with
    out,         \* the messages of each sensor
    emitted,     \* number of events so far
    gone,        \* events that were given up, with the reason
    late,        \* events whose reply came too late
    ops          \* number of operations and faults so far

driver == <<registered, PDQueue, sem, comms, held>>
service == <<svc, running, sensors, queues, wrapper, level, out>>
counts == <<late, ops>>
vars == <<driver, port, connected, service, pump, emitted, gone, counts>>

Event(n, p) == [n |-> n, probe |-> p]
Gone(e, why) == gone \cup {<<e.n, why>>}
(* Something that an operator or a fault brings about. *)
Operate == ops < MaxOps /\ ops' = ops + 1
NoPump == [at |-> "off", evt |-> None, valid |-> FALSE]

Init ==
    /\ registered = Early
    /\ PDQueue = <<>> /\ sem = 0 /\ comms = "wait" /\ held = None
    /\ port = "idle" /\ connected = FALSE
    /\ svc = "new" /\ running = FALSE /\ sensors = {} /\ pump = NoPump
    /\ queues = [p \in Probes |-> <<>>]
    /\ wrapper = [p \in Probes |-> "none"]
    /\ level = [p \in Probes |-> Default]
    /\ out = [p \in Probes |-> <<>>]
    /\ emitted = 0 /\ gone = {} /\ late = {}
    /\ ops = 0

-----------------------------------------------------------------------------
(* The driver's queue.  Count() is the semaphore, not the length of the list.  *)

(* What TrimProbeDataQueue leaves: the list, the semaphore and the packets     *)
(* that were dropped, the oldest ones.                                          *)
TrimProbeDataQueue_uncounted ==
    IF sem < PROBEDATAQUEUESZ THEN [list |-> PDQueue, sem |-> sem, dropped |-> <<>>]
    ELSE [list |-> Tail(PDQueue), sem |-> sem, dropped |-> <<Head(PDQueue)>>]
TrimProbeDataQueue ==
    LET n == IF sem < PROBEDATAQUEUESZ THEN 0 ELSE sem + 1 - PROBEDATAQUEUESZ
    IN  [list |-> SubSeq(PDQueue, n + 1, Len(PDQueue)), sem |-> sem - n,
         dropped |-> SubSeq(PDQueue, 1, n)]
Trimmed == {<<e.n, "trimmed">> : e \in ToSet(TrimProbeDataQueue.dropped)}

Enqueue(e) ==
    /\ PDQueue' = Append(TrimProbeDataQueue.list, e)
    /\ sem' = TrimProbeDataQueue.sem + 1
    /\ gone' = gone \cup Trimmed

(* The oldest packet of the list makes room, and e goes to the head. *)
PutBack_tail(e) ==
    /\ PDQueue' = Append(TrimProbeDataQueue.list, e)
    /\ sem' = TrimProbeDataQueue.sem + 1
    /\ gone' = gone \cup Trimmed
PutBack(e) ==
    /\ PDQueue' = <<e>> \o TrimProbeDataQueue.list
    /\ sem' = TrimProbeDataQueue.sem + 1
    /\ gone' = gone \cup Trimmed

(* A probe that is enabled reports an event; one that EnableProbe and DisableProbe *)
(* have stopped reports none, as one may whose event does not come.               *)
Emit(p) ==
    /\ p \in registered
    /\ emitted < MaxEvents
    /\ emitted' = emitted + 1
    /\ Enqueue(Event(emitted + 1, p))
    /\ UNCHANGED <<registered, comms, held, port, connected, service, pump, counts>>

(* A probe registers after the driver has started: it is not in the lists that *)
(* were read before.                                                            *)
RegisterProbe(p) ==
    /\ p \notin registered
    /\ registered' = registered \cup {p}
    /\ UNCHANGED <<PDQueue, sem, comms, held, port, connected, service, pump, emitted, gone, counts>>

-----------------------------------------------------------------------------
(* WVUProbeCommsThread.                                                      *)

(* WaitForQueueAndPortConnect takes one of the semaphore; the event of the port *)
(* stays set.                                                                   *)
WaitForQueueAndPortConnect ==
    /\ comms = "wait" /\ sem > 0 /\ connected
    /\ sem' = sem - 1 /\ comms' = "taken"
    /\ UNCHANGED <<registered, PDQueue, held, port, connected, service, pump, emitted, gone, counts>>

(* Dequeue and FltSendMessage. *)
Dequeue ==
    /\ comms = "taken"
    /\ IF PDQueue = <<>>
       THEN comms' = "wait" /\ UNCHANGED <<PDQueue, held, port>>
       ELSE /\ held' = Head(PDQueue) /\ PDQueue' = Tail(PDQueue)
            /\ comms' = "sending"
            /\ port' = IF connected THEN "pending" ELSE "closed"
    /\ UNCHANGED <<registered, sem, connected, service, pump, emitted, gone, counts>>

(* The reply came: the packet is disposed of. *)
Dispose ==
    /\ comms = "sending" /\ port = "replied"
    /\ comms' = "wait" /\ held' = None /\ port' = "idle"
    /\ UNCHANGED <<registered, PDQueue, sem, connected, service, pump, emitted, gone, counts>>

(* FltSendMessage fails: the port is closed, or the reply does not come in       *)
(* time.  A message that the service already has is void from then on.          *)
SendFails_dropped ==
    /\ comms = "sending" /\ port = "closed"
    /\ comms' = "wait" /\ held' = None /\ port' = "idle"
    /\ UNCHANGED <<registered, PDQueue, sem, connected, service, pump, emitted, gone, counts>>
SendFails ==
    /\ comms = "sending" /\ port # "replied"
    /\ \/ port = "closed" /\ UNCHANGED ops
       \/ port # "closed" /\ Operate
    /\ PutBack(held)
    /\ comms' = "wait" /\ held' = None /\ port' = "idle"
    /\ pump' = [pump EXCEPT !.valid = FALSE]
    /\ late' = IF port = "got" THEN late \cup {held.n} ELSE late
    /\ UNCHANGED <<registered, connected, service, emitted>>

-----------------------------------------------------------------------------
(* The service: its life.                                                    *)

(* WinVirtUE_service.__init__ and _update_sensor_info: every probe that the       *)
(* driver lists becomes a sensor.  Enabled is a string there, which is true       *)
(* also when it says "False".                                                     *)
_update_sensor_info ==
    /\ svc = "new" /\ registered # {}
    /\ sensors' = registered
    /\ svc' = "ready"
    /\ UNCHANGED <<driver, port, connected, running, pump, queues, wrapper, level, out, emitted, gone, counts>>

(* SvcDoRun starts the thread of start(): wrappers and queues are built, then    *)
(* _running is set and the data stream thread started.                            *)
SvcDoRun ==
    /\ svc = "ready"
    /\ wrapper' = [p \in Probes |-> IF p \in sensors THEN "new" ELSE "none"]
    /\ running' = TRUE
    /\ pump' = [pump EXCEPT !.at = "connect"]
    /\ svc' = "starting"
    /\ UNCHANGED <<driver, port, connected, sensors, queues, level, out, emitted, gone, counts>>

(* _start_sensors: one thread per wrapper. *)
_start_sensors(p) ==
    /\ svc = "starting" /\ wrapper[p] = "new"
    /\ wrapper' = [wrapper EXCEPT ![p] = "registering"]
    /\ svc' = IF \E q \in Probes \ {p} : wrapper[q] = "new" THEN svc ELSE "started"
    /\ UNCHANGED <<driver, port, connected, running, sensors, pump, queues, level, out, emitted, gone, counts>>

(* A configuration that cannot be loaded raises: it and the sensors after it are   *)
(* not started.                                                                    *)
_load_config_data ==
    /\ svc = "starting" /\ Operate
    /\ svc' = "failed"
    /\ UNCHANGED <<driver, port, connected, running, sensors, pump, queues, wrapper, level, out, emitted, gone,
                   late>>

(* The wrapper registers with the API and starts the sensing method; stop()      *)
(* sets stop_retrying, with which a wrapper that is not registered gives up.      *)
WrapperRegisters(p) ==
    /\ wrapper[p] = "registering"
    /\ wrapper' = [wrapper EXCEPT ![p] = IF svc = "stopped" THEN "ended" ELSE "sensing"]
    /\ UNCHANGED <<driver, port, connected, svc, running, sensors, pump, queues, level, out, emitted, gone, counts>>

(* Actuation cancels the sensing method and starts it with another level. *)
Actuate(p, l) ==
    /\ wrapper[p] \in {"sensing", "idle"} /\ Operate
    /\ wrapper' = [wrapper EXCEPT ![p] = "sensing"]
    /\ level' = [level EXCEPT ![p] = l]
    /\ UNCHANGED <<driver, port, connected, svc, running, sensors, pump, queues, out, emitted, gone,
                   late>>

(* SvcStop and SvcShutdown: stop(), then the thread of start() is joined.  The    *)
(* wrappers' stop notification, dummy_wait, is not told.                          *)
SvcStop ==
    /\ svc \in {"started", "failed"}
    /\ running' = FALSE /\ svc' = "stopped"
    /\ UNCHANGED <<driver, port, connected, sensors, pump, queues, wrapper, level, out, emitted, gone, counts>>

(* The process ends, and with it the queues and the port; a new one starts. *)
ProcessEnds ==
    /\ svc # "new" /\ Operate
    /\ svc' = "new" /\ running' = FALSE /\ sensors' = {} /\ pump' = NoPump
    /\ queues' = [p \in Probes |-> <<>>]
    /\ wrapper' = [p \in Probes |-> "none"]
    /\ level' = [p \in Probes |-> Default]
    /\ connected' = FALSE
    /\ port' = IF port \in {"pending", "got"} THEN "closed" ELSE port
    /\ gone' = gone \cup {<<e.n, "restart">> : e \in UNION {ToSet(queues[p]) : p \in Probes}}
                    \cup (IF pump.evt = None THEN {} ELSE {<<pump.evt.n, "restart">>})
    /\ UNCHANGED <<driver, out, emitted, late>>

-----------------------------------------------------------------------------
(* The event stream pump: _event_stream_pump over apacket_decode.            *)

(* FilterConnectCommunicationPort(EventPort): the driver's OnConnect. *)
PumpConnects ==
    /\ pump.at = "connect"
    /\ connected' = TRUE
    /\ pump' = [pump EXCEPT !.at = "get"]
    /\ UNCHANGED <<driver, port, service, emitted, gone, counts>>

(* FilterGetMessage polls until the filter manager has filled the buffer. *)
FilterGetMessage ==
    /\ pump.at = "get" /\ port = "pending"
    /\ port' = "got"
    /\ pump' = [at |-> "reply", evt |-> held, valid |-> TRUE]
    /\ UNCHANGED <<driver, connected, service, emitted, gone, counts>>

(* FilterReplyMessage; an error, as for a message that is void, is logged. *)
FilterReplyMessage ==
    /\ pump.at = "reply"
    /\ port' = IF pump.valid THEN "replied" ELSE port
    /\ pump' = [pump EXCEPT !.at = "event", !.valid = FALSE]
    /\ UNCHANGED <<driver, connected, service, emitted, gone, counts>>

(* The packet is decoded and put on the queue of its sensor. *)
_event_stream_pump ==
    /\ pump.at = "event"
    /\ LET e == pump.evt
       IN  IF ~running
           THEN pump' = [NoPump EXCEPT !.at = "ended"] /\ gone' = Gone(e, "stopped") /\ UNCHANGED queues
           ELSE /\ pump' = [NoPump EXCEPT !.at = "get"]
                /\ IF e.probe \in sensors
                   THEN queues' = [queues EXCEPT ![e.probe] = Append(@, e)] /\ UNCHANGED gone
                   ELSE gone' = Gone(e, "unlisted") /\ UNCHANGED queues
    /\ UNCHANGED <<driver, port, connected, svc, running, sensors, wrapper, level, out, emitted, counts>>

(* evtdata_consumer takes a message: it is skipped when the sensor's own           *)
(* priority is above the level.                                                     *)
evtdata_consumer_stuck(p) ==
    /\ wrapper[p] = "sensing" /\ queues[p] # <<>> /\ running /\ LocalPrio[p] <= level[p]
    /\ queues' = [queues EXCEPT ![p] = Tail(@)]
    /\ out' = [out EXCEPT ![p] = Append(@, Head(queues[p]).n)]
    /\ UNCHANGED <<driver, port, connected, svc, running, sensors, pump, wrapper, level, emitted, gone, counts>>
evtdata_consumer(p) ==
    /\ wrapper[p] = "sensing" /\ queues[p] # <<>>
    /\ queues' = [queues EXCEPT ![p] = Tail(@)]
    /\ LET e == Head(queues[p])
       IN  \/ /\ ~running
              /\ wrapper' = [wrapper EXCEPT ![p] = "idle"]
              /\ gone' = Gone(e, "stopped") /\ UNCHANGED out
           \/ /\ running /\ LocalPrio[p] > level[p]
              /\ gone' = Gone(e, "skipped") /\ UNCHANGED <<wrapper, out>>
           \/ /\ running /\ LocalPrio[p] <= level[p]
              /\ out' = [out EXCEPT ![p] = Append(@, e.n)] /\ UNCHANGED <<wrapper, gone>>
    /\ UNCHANGED <<driver, port, connected, svc, running, sensors, pump, level, emitted, counts>>

-----------------------------------------------------------------------------
Comms == WaitForQueueAndPortConnect \/ Dequeue \/ Dispose \/ SendFails
Pump == PumpConnects \/ FilterGetMessage \/ FilterReplyMessage \/ _event_stream_pump
Next ==
    \/ Comms \/ Pump
    \/ _update_sensor_info \/ SvcDoRun \/ SvcStop \/ ProcessEnds \/ _load_config_data
    \/ \E p \in Probes : \/ Emit(p) \/ RegisterProbe(p)
                         \/ _start_sensors(p) \/ WrapperRegisters(p) \/ evtdata_consumer(p)
                         \/ \E l \in Levels : Actuate(p, l)
Spec == Init /\ [][Next]_vars

(* Threads that can run do run, and the service is started; nothing is assumed of *)
(* probes, commands, stops or ends of the process.  A send that cannot fail any   *)
(* more waits for the reply.                                                      *)
FairSpec ==
    /\ Spec
    /\ WF_vars(Comms) /\ WF_vars(Pump)
    /\ WF_vars(_update_sensor_info) /\ WF_vars(SvcDoRun)
    /\ \A p \in Probes : WF_vars(_start_sensors(p)) /\ WF_vars(WrapperRegisters(p))
                         /\ WF_vars(evtdata_consumer(p))

-----------------------------------------------------------------------------
(* Properties.                                                               *)
(* The semaphore counts the packets of the list that the communications thread    *)
(* has not claimed, and so bounds the list: Enqueue and PutBack trim by Count(),   *)
(* which the thread lowers outside the spin lock, before it removes the packet.    *)
SemaphoreCounts ==
    /\ sem = Len(PDQueue) - (IF comms = "taken" THEN 1 ELSE 0)
    /\ Len(PDQueue) <= PROBEDATAQUEUESZ + 1

(* A sensor's messages come in the order of its events, whatever was put back,     *)
(* trimmed or lost on the way, and only one whose reply was too late comes twice.   *)
OrderKept ==
    \A p \in Probes :
        LET all == out[p] \o [i \in DOMAIN queues[p] |-> queues[p][i].n]
        IN  \A i, j \in DOMAIN all :
                i < j => all[i] < all[j] \/ (all[i] = all[j] /\ all[i] \in late)

(* An event is on its way or has become a message, unless it was given up for one  *)
(* of the reasons there are: a full queue, a sensor that is not listed, its level,  *)
(* the stop or the end of the service.                                              *)
OnTheWay ==
    {e.n : e \in ToSet(PDQueue) \cup ({held, pump.evt} \ {None})}
    \cup UNION {{e.n : e \in ToSet(queues[p])} \cup ToSet(out[p]) : p \in Probes}
NothingVanishes == \A n \in 1..emitted : n \in OnTheWay \/ \E g \in gone : g[1] = n

(* While the service runs, every event in the driver's queue becomes a message or  *)
(* is given up, through restarts of the service; a stop or a failed start ends it.   *)
Finished(n) == (\E p \in Probes : n \in ToSet(out[p])) \/ \E g \in gone : g[1] = n
Delivered ==
    \A n \in 1..MaxEvents :
        emitted >= n ~> Finished(n) \/ svc \in {"stopped", "failed"}
=============================================================================
