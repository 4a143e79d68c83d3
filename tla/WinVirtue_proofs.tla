--------------------------- MODULE WinVirtue_proofs ---------------------------
(* Proofs about WinVirtue, for any capacity and any number of probes and      *)
(* events: the semaphore and the bound of the probe data queue, the order of   *)
(* a sensor's messages, and that no event is lost without a trace.             *)
EXTENDS WinVirtue, SequenceTheorems, TLAPS

(* The semaphore lags behind the list by the packet that the communications   *)
(* thread has claimed and not yet removed.                                     *)
QueueInv ==
    /\ PDQueue \in Seq(Events) /\ sem \in Nat /\ emitted \in 0..MaxEvents
    /\ comms \in {"wait", "taken", "sending"}
    /\ comms = "sending" => held \in Events
    /\ sem = Len(PDQueue) - (IF comms = "taken" THEN 1 ELSE 0)
    /\ sem <= PROBEDATAQUEUESZ

(* TrimProbeDataQueue leaves room for one packet, and list and semaphore lose  *)
(* the same number of packets.                                                 *)
LEMMA TrimKeepsCount ==
    ASSUME QueueInv
    PROVE  LET t == TrimProbeDataQueue
           IN  /\ t.list \in Seq(Events) /\ t.sem \in Nat
               /\ t.sem < PROBEDATAQUEUESZ
               /\ Len(t.list) - t.sem = Len(PDQueue) - sem
<1> DEFINE n == IF sem < PROBEDATAQUEUESZ THEN 0 ELSE sem + 1 - PROBEDATAQUEUESZ
           l == SubSeq(PDQueue, n + 1, Len(PDQueue))
<1>1. PROBEDATAQUEUESZ \in Nat /\ PROBEDATAQUEUESZ > 1
  BY WinVirtueAssumption
<1>2. Len(PDQueue) \in Nat /\ sem <= Len(PDQueue)
  BY DEF QueueInv
<1>3. n \in 0..1 /\ n <= sem /\ sem - n < PROBEDATAQUEUESZ
  <2>1. sem \in Nat /\ sem <= PROBEDATAQUEUESZ  BY DEF QueueInv
  <2>2. CASE sem < PROBEDATAQUEUESZ  BY <1>1, <2>1, <2>2
  <2>3. CASE sem = PROBEDATAQUEUESZ  BY <1>1, <2>1, <2>3
  <2> QED  BY <1>1, <2>1, <2>2, <2>3
<1>4. TrimProbeDataQueue.list = l /\ TrimProbeDataQueue.sem = sem - n
  <2>1. TrimProbeDataQueue =
          [list |-> l, sem |-> sem - n, dropped |-> SubSeq(PDQueue, 1, n)]
    BY DEF TrimProbeDataQueue
  <2> HIDE DEF l, n
  <2> QED  BY <2>1
<1> HIDE DEF n
<1>5. l \in Seq(Events) /\ Len(l) = Len(PDQueue) - n
  <2>1. \A i \in (n + 1)..Len(PDQueue) : PDQueue[i] \in Events
    BY <1>2, <1>3 DEF QueueInv
  <2>2. /\ l \in Seq(Events)
        /\ Len(l) = IF n + 1 <= Len(PDQueue) THEN Len(PDQueue) - (n + 1) + 1 ELSE 0
    BY <1>2, <1>3, <2>1, SubSeqProperties
  <2> QED  BY <1>2, <1>3, <2>2 DEF QueueInv
<1> HIDE DEF l
<1> QED  BY <1>1, <1>2, <1>3, <1>4, <1>5 DEF QueueInv

(* With a packet more at the end or at the head, they still agree.             *)
LEMMA AddKeepsCount ==
    ASSUME QueueInv, NEW e \in Events, Enqueue(e) \/ PutBack(e)
    PROVE  /\ PDQueue' \in Seq(Events) /\ sem' \in Nat
           /\ sem' <= PROBEDATAQUEUESZ
           /\ Len(PDQueue') - sem' = Len(PDQueue) - sem
<1> DEFINE t == TrimProbeDataQueue
<1>1. /\ t.list \in Seq(Events) /\ t.sem \in Nat /\ t.sem < PROBEDATAQUEUESZ
      /\ Len(t.list) - t.sem = Len(PDQueue) - sem
  BY TrimKeepsCount
<1>2. sem' = t.sem + 1 /\ (PDQueue' = Append(t.list, e) \/ PDQueue' = <<e>> \o t.list)
  BY DEF Enqueue, PutBack
<1>3. Len(PDQueue) \in Nat /\ sem \in Nat /\ PROBEDATAQUEUESZ \in Nat
  BY WinVirtueAssumption DEF QueueInv
<1> HIDE DEF t
<1>4. PDQueue' \in Seq(Events) /\ Len(PDQueue') = Len(t.list) + 1
  <2>1. CASE PDQueue' = Append(t.list, e)  BY <1>1, <2>1
  <2>2. CASE PDQueue' = <<e>> \o t.list
    <3>1. <<e>> \in Seq(Events) /\ Len(<<e>>) = 1  OBVIOUS
    <3>2. /\ <<e>> \o t.list \in Seq(Events)
          /\ Len(<<e>> \o t.list) = Len(<<e>>) + Len(t.list)
      BY <1>1, <3>1, ConcatProperties
    <3>3. Len(t.list) \in Nat  BY <1>1
    <3> QED  BY <2>2, <3>1, <3>2, <3>3
  <2> QED  BY <1>2, <2>1, <2>2
<1>5. Len(t.list) \in Nat  BY <1>1
<1>6. sem' \in Nat /\ sem' <= PROBEDATAQUEUESZ  BY <1>1, <1>2, <1>3
<1>7. Len(PDQueue') - sem' = Len(PDQueue) - sem  BY <1>1, <1>2, <1>3, <1>4, <1>5, SMTT(30)
<1> QED  BY <1>4, <1>6, <1>7

(* Every step keeps the invariant: a probe's, the communications thread's, and *)
(* the service's, which does not touch the queue.                              *)
LEMMA QueueStep ==
    ASSUME QueueInv, [Next]_vars
    PROVE  QueueInv'
<1> USE WinVirtueAssumption
<1>1. ASSUME NEW p \in Probes, Emit(p) PROVE QueueInv'
  <2>1. /\ Event(emitted + 1, p) \in Events /\ emitted' \in 0..MaxEvents
        /\ UNCHANGED <<comms, held>>
    BY <1>1 DEF Emit, Event, Events, QueueInv
  <2>2. Enqueue(Event(emitted + 1, p))  BY <1>1 DEF Emit
  <2>3. /\ PDQueue' \in Seq(Events) /\ sem' \in Nat /\ sem' <= PROBEDATAQUEUESZ
        /\ Len(PDQueue') - sem' = Len(PDQueue) - sem
    BY <2>1, <2>2, AddKeepsCount
  <2>4. /\ comms' \in {"wait", "taken", "sending"}
        /\ comms' = "sending" => held' \in Events
    BY <2>1 DEF QueueInv
  <2>5. sem' = Len(PDQueue') - (IF comms' = "taken" THEN 1 ELSE 0)
    <3>1. Len(PDQueue) \in Nat /\ Len(PDQueue') \in Nat  BY <2>3 DEF QueueInv
    <3> QED  BY <2>1, <2>3, <3>1 DEF QueueInv
  <2>6. Events' = Events  BY DEF Events
  <2> QED  BY <2>1, <2>3, <2>4, <2>5, <2>6 DEF QueueInv
<1>2. CASE WaitForQueueAndPortConnect
  BY <1>2 DEF WaitForQueueAndPortConnect, QueueInv, Events
<1>3. CASE Dequeue
  <2>1. CASE PDQueue = <<>>
    BY <1>3, <2>1 DEF Dequeue, QueueInv, Events
  <2>2. CASE PDQueue # <<>>
    <3>1. /\ held' \in Events /\ PDQueue' \in Seq(Events)
          /\ Len(PDQueue') = Len(PDQueue) - 1
      BY <1>3, <2>2, HeadTailProperties, ZenonT(60) DEF Dequeue, QueueInv
    <3>2. comms = "taken" /\ comms' = "sending" /\ UNCHANGED <<sem, emitted>>
      BY <1>3, <2>2 DEF Dequeue
    <3> QED  BY <3>1, <3>2 DEF QueueInv, Events
  <2> QED  BY <2>1, <2>2
<1>4. CASE Dispose
  BY <1>4 DEF Dispose, QueueInv, Events
<1>5. CASE SendFails
  <2>1. held \in Events /\ PutBack(held)
    BY <1>5 DEF SendFails, QueueInv
  <2>2. /\ PDQueue' \in Seq(Events) /\ sem' \in Nat /\ sem' <= PROBEDATAQUEUESZ
        /\ Len(PDQueue') - sem' = Len(PDQueue) - sem
    BY <2>1, AddKeepsCount
  <2>3. comms = "sending" /\ comms' = "wait" /\ UNCHANGED emitted
    BY <1>5 DEF SendFails
  <2> QED  BY <2>2, <2>3 DEF QueueInv, Events
<1>6. ASSUME UNCHANGED <<PDQueue, sem, emitted, comms, held>> PROVE QueueInv'
  BY <1>6 DEF QueueInv, Events
<1>7. Pump => UNCHANGED <<PDQueue, sem, emitted, comms, held>>
  BY DEF Pump, PumpConnects, FilterGetMessage, FilterReplyMessage, _event_stream_pump, driver
<1>8. _update_sensor_info \/ SvcDoRun \/ SvcStop \/ ProcessEnds \/ _load_config_data
        => UNCHANGED <<PDQueue, sem, emitted, comms, held>>
  BY DEF _update_sensor_info, SvcDoRun, SvcStop, ProcessEnds, _load_config_data, driver
<1>9. \A p \in Probes :
        RegisterProbe(p) \/ _start_sensors(p) \/ WrapperRegisters(p) \/ evtdata_consumer(p)
          \/ (\E lv \in Levels : Actuate(p, lv))
        => UNCHANGED <<PDQueue, sem, emitted, comms, held>>
  BY DEF RegisterProbe, _start_sensors, WrapperRegisters, evtdata_consumer, Actuate, driver
<1>10. UNCHANGED vars => UNCHANGED <<PDQueue, sem, emitted, comms, held>>
  BY DEF vars, driver
<1> QED
  BY <1>1, <1>2, <1>3, <1>4, <1>5, <1>6, <1>7, <1>8, <1>9, <1>10 DEF Next, Comms

(* The semaphore, by which TrimProbeDataQueue bounds the queue, never loses     *)
(* count of it, wherever the communications thread is between its wait and the  *)
(* removal and whatever is put back: for any capacity, probes and events.       *)
THEOREM SemaphoreIsExact == Spec => []SemaphoreCounts
<1>1. Init => QueueInv
  BY WinVirtueAssumption DEF Init, QueueInv
<1>2. QueueInv /\ [Next]_vars => QueueInv'
  BY QueueStep
<1>3. QueueInv => SemaphoreCounts
  BY WinVirtueAssumption DEF QueueInv, SemaphoreCounts
<1> QED  BY <1>1, <1>2, <1>3, PTL DEF Spec

-----------------------------------------------------------------------------
(* Where an event can be: before the service, or behind the port.            *)

InDriver(n) ==
    \/ held # None /\ held.n = n
    \/ \E i \in DOMAIN PDQueue : PDQueue[i].n = n
InPump(n) == pump.evt # None /\ pump.evt.n = n
InSensor(n) ==
    \E p \in Probes : \/ \E i \in DOMAIN queues[p] : queues[p][i].n = n
                      \/ \E i \in DOMAIN out[p] : out[p][i] = n
InService(n) == InPump(n) \/ InSensor(n)
IsGone(n) == \E g \in gone : g[1] = n

(* The thread holds a packet exactly while it sends, and the pump one from the    *)
(* message to the queue; a message that is not void is the packet being sent.      *)
FlowTypes ==
    /\ queues \in [Probes -> Seq(Events)] /\ out \in [Probes -> Seq(1..MaxEvents)]
    /\ comms = "sending" => port \in {"pending", "got", "replied", "closed"}
    /\ comms # "sending" => held = None /\ port = "idle"
    /\ pump \in [at : {"off", "connect", "get", "reply", "event", "ended"},
                 evt : Events \cup {None}, valid : BOOLEAN]
    /\ pump.evt # None <=> pump.at \in {"reply", "event"}
    /\ pump.valid <=> port = "got"
    /\ pump.valid => pump.at = "reply" /\ pump.evt = held
    /\ svc \in {"new", "ready"} => pump.at = "off"

(* a may come before b among the messages of a sensor. *)
Before(a, b) == a < b \/ (a = b /\ a \in late)

(* The order along the way, from the messages of a sensor back to the queue of     *)
(* the driver.  A packet whose reply came is compared with nothing: it is dropped.  *)
SensorOrder ==
    \A p \in Probes :
        /\ \A i, j \in DOMAIN out[p] : i < j => Before(out[p][i], out[p][j])
        /\ \A i, j \in DOMAIN queues[p] : i < j => Before(queues[p][i].n, queues[p][j].n)
        /\ \A i \in DOMAIN out[p], j \in DOMAIN queues[p] : Before(out[p][i], queues[p][j].n)
DriverOrder ==
    /\ \A i, j \in DOMAIN PDQueue : i < j => PDQueue[i].n < PDQueue[j].n
    /\ \A i \in DOMAIN PDQueue : PDQueue[i].n <= emitted
    /\ comms = "sending" =>
          held.n <= emitted /\ \A i \in DOMAIN PDQueue : held.n < PDQueue[i].n
PassOrder ==
    /\ \A x \in 1..MaxEvents : InSensor(x) /\ pump.evt # None => Before(x, pump.evt.n)
    /\ \A x \in 1..MaxEvents : InService(x) /\ comms = "sending" /\ port \in {"pending", "closed"}
                                => Before(x, held.n)
    /\ \A x \in 1..MaxEvents : InService(x) =>
          x <= emitted /\ \A i \in DOMAIN PDQueue : Before(x, PDQueue[i].n)
OrderInv == SensorOrder /\ DriverOrder /\ PassOrder

(* Every event is somewhere, and one whose reply came is behind the port.          *)
KeptInv ==
    /\ \A n \in 1..emitted : InDriver(n) \/ InService(n) \/ IsGone(n)
    /\ port = "replied" => InService(held.n) \/ IsGone(held.n)

LEMMA EventsAreNotNone == \A e \in Events : e # None /\ e.n \in 1..MaxEvents /\ e.probe \in Probes
BY WinVirtueAssumption DEF Events

(* Only the packet on the port, the pump and the queues carry events onward.       *)
LEMMA FlowTypesStep ==
    ASSUME QueueInv, FlowTypes, [Next]_vars
    PROVE  FlowTypes'
<1> USE EventsAreNotNone
<1>0. Events' = Events  BY DEF Events
<1>1. ASSUME UNCHANGED <<comms, held, port, pump, svc, queues, out>> PROVE FlowTypes'
  BY <1>0, <1>1 DEF FlowTypes
<1>2. CASE WaitForQueueAndPortConnect
  BY <1>0, <1>2 DEF WaitForQueueAndPortConnect, FlowTypes, service
<1>3. CASE Dequeue
  <2>1. CASE PDQueue = <<>>
    BY <1>0, <1>3, <2>1 DEF Dequeue, FlowTypes, service
  <2>2. CASE PDQueue # <<>>
    BY <1>0, <1>3, <2>2 DEF Dequeue, FlowTypes, service
  <2> QED  BY <2>1, <2>2
<1>4. CASE Dispose
  BY <1>0, <1>4 DEF Dispose, FlowTypes, service
<1>5. CASE SendFails
  <2>1. /\ comms' = "wait" /\ held' = None /\ port' = "idle"
        /\ pump' = [pump EXCEPT !.valid = FALSE] /\ UNCHANGED <<svc, queues, out>>
    BY <1>5 DEF SendFails, service
  <2> QED  BY <1>0, <2>1 DEF FlowTypes
<1>6. CASE PumpConnects
  BY <1>0, <1>6 DEF PumpConnects, FlowTypes, driver, service
<1>7. CASE FilterGetMessage
  <2>1. comms = "sending" /\ held \in Events
    BY <1>7 DEF FilterGetMessage, FlowTypes, QueueInv
  <2> QED  BY <1>0, <1>7, <2>1 DEF FilterGetMessage, FlowTypes, driver, service
<1>8. CASE FilterReplyMessage
  <2>1. CASE pump.valid
    BY <1>0, <1>8, <2>1 DEF FilterReplyMessage, FlowTypes, driver, service
  <2>2. CASE ~pump.valid
    BY <1>0, <1>8, <2>2 DEF FilterReplyMessage, FlowTypes, driver, service
  <2> QED  BY <2>1, <2>2
<1>9. CASE _event_stream_pump
  <2>1. /\ \E a \in {"ended", "get"} : pump' = [at |-> a, evt |-> None, valid |-> FALSE]
        /\ UNCHANGED <<comms, held, port, svc, out>>
    BY <1>9 DEF _event_stream_pump, NoPump, driver
  <2>2. pump.evt \in Events /\ ~pump.valid /\ pump.at = "event"
    BY <1>9 DEF _event_stream_pump, FlowTypes
  <2>3. queues' \in [Probes -> Seq(Events)]
    <3>1. \/ queues' = queues
          \/ queues' = [queues EXCEPT ![pump.evt.probe] = Append(@, pump.evt)]
      BY <1>9 DEF _event_stream_pump
    <3>2. pump.evt.probe \in Probes /\ Append(queues[pump.evt.probe], pump.evt) \in Seq(Events)
      BY <2>2 DEF FlowTypes
    <3> QED  BY <3>1, <3>2 DEF FlowTypes
  <2>4. pump' \in [at : {"off", "connect", "get", "reply", "event", "ended"},
                    evt : Events \cup {None}, valid : BOOLEAN]
        /\ pump'.evt = None /\ pump'.at \notin {"reply", "event"} /\ ~pump'.valid
    BY <2>1
  <2> QED  BY <1>0, <2>1, <2>2, <2>3, <2>4 DEF FlowTypes
<1>10. CASE _update_sensor_info
  BY <1>0, <1>10 DEF _update_sensor_info, FlowTypes, driver
<1>11. CASE SvcDoRun
  BY <1>0, <1>11 DEF SvcDoRun, FlowTypes, driver
<1>12. CASE SvcStop
  BY <1>0, <1>12 DEF SvcStop, FlowTypes, driver
<1>13. CASE _load_config_data
  BY <1>0, <1>13 DEF _load_config_data, FlowTypes, driver
<1>14. CASE ProcessEnds
  <2>1. /\ pump' = [at |-> "off", evt |-> None, valid |-> FALSE]
        /\ queues' = [p \in Probes |-> <<>>]
        /\ port' = IF port \in {"pending", "got"} THEN "closed" ELSE port
        /\ UNCHANGED <<comms, held, out>>
    BY <1>14 DEF ProcessEnds, NoPump, driver
  <2>2. queues' \in [Probes -> Seq(Events)]  BY <2>1
  <2>3. CASE port \in {"pending", "got"}  BY <1>0, <2>1, <2>2, <2>3 DEF FlowTypes
  <2>4. CASE port \notin {"pending", "got"}  BY <1>0, <2>1, <2>2, <2>4 DEF FlowTypes
  <2> QED  BY <2>3, <2>4
<1>15. ASSUME NEW p \in Probes, _start_sensors(p) PROVE FlowTypes'
  BY <1>0, <1>15 DEF _start_sensors, FlowTypes, driver
<1>16. ASSUME NEW p \in Probes, evtdata_consumer(p) PROVE FlowTypes'
  <2>1. /\ queues[p] # <<>> /\ queues' = [queues EXCEPT ![p] = Tail(@)]
        /\ out' = out \/ out' = [out EXCEPT ![p] = Append(@, Head(queues[p]).n)]
        /\ UNCHANGED <<comms, held, port, pump, svc>>
    BY <1>16 DEF evtdata_consumer, driver
  <2>2. /\ queues[p] \in Seq(Events) /\ Head(queues[p]) \in Events
        /\ Tail(queues[p]) \in Seq(Events)
    BY <2>1, HeadTailProperties DEF FlowTypes
  <2>3. queues' \in [Probes -> Seq(Events)]  BY <2>1, <2>2 DEF FlowTypes
  <2>4. out' \in [Probes -> Seq(1..MaxEvents)]
    <3>1. Append(out[p], Head(queues[p]).n) \in Seq(1..MaxEvents)  BY <2>2 DEF FlowTypes
    <3> QED  BY <2>1, <3>1, ZenonT(60) DEF FlowTypes
  <2> QED  BY <1>0, <2>1, <2>3, <2>4 DEF FlowTypes
<1>17. \A p \in Probes :
        Emit(p) \/ RegisterProbe(p) \/ WrapperRegisters(p)
          \/ (\E lv \in Levels : Actuate(p, lv))
        => UNCHANGED <<comms, held, port, pump, svc, queues, out>>
  BY DEF Emit, RegisterProbe, WrapperRegisters, Actuate, driver, service
<1>18. UNCHANGED vars => UNCHANGED <<comms, held, port, pump, svc, queues, out>>
  BY DEF vars, driver, service
<1> QED
  BY <1>1, <1>2, <1>3, <1>4, <1>5, <1>6, <1>7, <1>8, <1>9, <1>10, <1>11, <1>12, <1>13,
     <1>14, <1>15, <1>16, <1>17, <1>18 DEF Next, Comms, Pump

-----------------------------------------------------------------------------
(* What Enqueue and PutBack do to the list, packet by packet: k of the oldest    *)
(* are dropped, and recorded, and e is put at one end.                            *)

LEMMA TrimShifts ==
    ASSUME QueueInv
    PROVE  \E k \in Nat :
             LET t == TrimProbeDataQueue
             IN  /\ k <= Len(PDQueue) /\ Len(t.list) = Len(PDQueue) - k
                 /\ t.list \in Seq(Events)
                 /\ \A i \in 1..(Len(PDQueue) - k) : t.list[i] = PDQueue[i + k]
                 /\ \A i \in 1..k : <<PDQueue[i].n, "trimmed">> \in Trimmed
<1> DEFINE n == IF sem < PROBEDATAQUEUESZ THEN 0 ELSE sem + 1 - PROBEDATAQUEUESZ
           l == SubSeq(PDQueue, n + 1, Len(PDQueue))
           d == SubSeq(PDQueue, 1, n)
<1>1. PROBEDATAQUEUESZ \in Nat /\ PROBEDATAQUEUESZ > 1
  BY WinVirtueAssumption
<1>2. Len(PDQueue) \in Nat /\ sem \in Nat /\ sem <= Len(PDQueue)
  BY DEF QueueInv
<1>3. n \in Nat /\ n <= Len(PDQueue)
  <2>1. CASE sem < PROBEDATAQUEUESZ  BY <1>1, <1>2, <2>1
  <2>2. CASE ~(sem < PROBEDATAQUEUESZ)  BY <1>1, <1>2, <2>2
  <2> QED  BY <2>1, <2>2
<1>4. TrimProbeDataQueue.list = l /\ TrimProbeDataQueue.dropped = d
  <2>1. TrimProbeDataQueue = [list |-> l, sem |-> sem - n, dropped |-> d]
    BY DEF TrimProbeDataQueue
  <2> HIDE DEF l, n, d
  <2> QED  BY <2>1
<1> HIDE DEF n
<1>5. /\ l \in Seq(Events) /\ Len(l) = Len(PDQueue) - n
      /\ \A i \in 1..(Len(PDQueue) - n) : l[i] = PDQueue[i + n]
  <2>1. \A i \in (n + 1)..Len(PDQueue) : PDQueue[i] \in Events
    BY <1>2, <1>3 DEF QueueInv
  <2>2. /\ l \in Seq(Events)
        /\ Len(l) = IF n + 1 <= Len(PDQueue) THEN Len(PDQueue) - (n + 1) + 1 ELSE 0
        /\ \A i \in 1..(Len(PDQueue) - (n + 1) + 1) : l[i] = PDQueue[(n + 1) + i - 1]
    BY <1>2, <1>3, <2>1, SubSeqProperties
  <2> HIDE DEF l
  <2> QED  BY <1>2, <1>3, <2>2
<1>6. \A i \in 1..n : <<PDQueue[i].n, "trimmed">> \in Trimmed
  <2>1. \A i \in 1..n : PDQueue[i] \in Events
    BY <1>2, <1>3 DEF QueueInv
  <2>2. /\ d \in Seq(Events) /\ Len(d) = (IF 1 <= n THEN n - 1 + 1 ELSE 0)
        /\ \A i \in 1..(n - 1 + 1) : d[i] = PDQueue[1 + i - 1]
    BY <1>3, <2>1, SubSeqProperties
  <2> HIDE DEF d
  <2>3. DOMAIN d = 1..n /\ \A i \in 1..n : d[i] = PDQueue[i]
    BY <1>3, <2>2
  <2>4. \A i \in 1..n : PDQueue[i] \in ToSet(TrimProbeDataQueue.dropped)
    BY <1>4, <2>3 DEF ToSet
  <2> QED  BY <2>4 DEF Trimmed
<1> HIDE DEF l, d
<1> QED  BY <1>3, <1>4, <1>5, <1>6

(* The two lists that result: e behind what Enqueue left, or before it.           *)
LEMMA EnqueueShifts ==
    ASSUME QueueInv, NEW e \in Events, Enqueue(e)
    PROVE  \E k \in Nat, m \in Nat :
             /\ Len(PDQueue) = m + k /\ DOMAIN PDQueue = 1..(m + k)
             /\ PDQueue' \in Seq(Events) /\ DOMAIN PDQueue' = 1..(m + 1)
             /\ PDQueue'[m + 1] = e
             /\ \A i \in 1..m : PDQueue'[i] = PDQueue[i + k]
             /\ \A i \in 1..k : <<PDQueue[i].n, "trimmed">> \in gone'
<1> DEFINE l == TrimProbeDataQueue.list
<1>1. PICK k \in Nat :
        /\ k <= Len(PDQueue) /\ Len(l) = Len(PDQueue) - k /\ l \in Seq(Events)
        /\ \A i \in 1..(Len(PDQueue) - k) : l[i] = PDQueue[i + k]
        /\ \A i \in 1..k : <<PDQueue[i].n, "trimmed">> \in Trimmed
  BY TrimShifts
<1>2. PDQueue' = Append(l, e) /\ gone' = gone \cup Trimmed
  BY DEF Enqueue
<1> HIDE DEF l
<1>3. DOMAIN PDQueue = 1..Len(PDQueue) /\ Len(PDQueue) \in Nat
  BY DEF QueueInv
<1>4. /\ Append(l, e) \in Seq(Events) /\ Len(Append(l, e)) = Len(l) + 1
      /\ \A i \in 1..Len(l) : Append(l, e)[i] = l[i]
      /\ Append(l, e)[Len(l) + 1] = e
  BY <1>1, AppendProperties
<1>5. Len(l) \in Nat /\ Len(PDQueue) = Len(l) + k /\ DOMAIN PDQueue' = 1..(Len(l) + 1)
  BY <1>1, <1>2, <1>3, <1>4
<1> QED  BY <1>1, <1>2, <1>3, <1>4, <1>5

LEMMA PutBackShifts ==
    ASSUME QueueInv, NEW e \in Events, PutBack(e)
    PROVE  \E k \in Nat, m \in Nat :
             /\ Len(PDQueue) = m + k /\ DOMAIN PDQueue = 1..(m + k)
             /\ PDQueue' \in Seq(Events) /\ DOMAIN PDQueue' = 1..(m + 1)
             /\ PDQueue'[1] = e
             /\ \A i \in 1..m : PDQueue'[i + 1] = PDQueue[i + k]
             /\ \A i \in 1..k : <<PDQueue[i].n, "trimmed">> \in gone'
<1> DEFINE l == TrimProbeDataQueue.list
<1>1. PICK k \in Nat :
        /\ k <= Len(PDQueue) /\ Len(l) = Len(PDQueue) - k /\ l \in Seq(Events)
        /\ \A i \in 1..(Len(PDQueue) - k) : l[i] = PDQueue[i + k]
        /\ \A i \in 1..k : <<PDQueue[i].n, "trimmed">> \in Trimmed
  BY TrimShifts
<1>2. PDQueue' = <<e>> \o l /\ gone' = gone \cup Trimmed
  BY DEF PutBack
<1> HIDE DEF l
<1>3. DOMAIN PDQueue = 1..Len(PDQueue) /\ Len(PDQueue) \in Nat
  BY DEF QueueInv
<1>4. <<e>> \in Seq(Events) /\ Len(<<e>>) = 1 /\ <<e>>[1] = e  OBVIOUS
<1>5. /\ <<e>> \o l \in Seq(Events) /\ Len(<<e>> \o l) = 1 + Len(l)
      /\ \A i \in 1..(1 + Len(l)) : (<<e>> \o l)[i] = IF i <= 1 THEN <<e>>[i] ELSE l[i - 1]
  BY <1>1, <1>4, ConcatProperties, ZenonT(60)
<1>6. Len(l) \in Nat /\ Len(PDQueue) = Len(l) + k /\ DOMAIN PDQueue' = 1..(Len(l) + 1)
  BY <1>1, <1>2, <1>3, <1>5
<1>7. PDQueue'[1] = e  BY <1>2, <1>4, <1>5, <1>6
<1>8. ASSUME NEW i \in 1..Len(l) PROVE PDQueue'[i + 1] = PDQueue[i + k]
  <2>1. i + 1 \in 1..(1 + Len(l)) /\ ~(i + 1 <= 1) /\ (i + 1) - 1 = i  BY <1>6
  <2>2. PDQueue'[i + 1] = l[i]  BY <1>2, <1>5, <2>1
  <2> QED  BY <1>1, <1>6, <2>2
<1> QED  BY <1>1, <1>2, <1>3, <1>5, <1>6, <1>7, <1>8

(* The list gains e and loses only packets that are recorded as trimmed.          *)
LEMMA AddedList ==
    ASSUME QueueInv, NEW e \in Events, Enqueue(e) \/ PutBack(e)
    PROVE  /\ \E j \in DOMAIN PDQueue' : PDQueue'[j] = e
           /\ \A i \in DOMAIN PDQueue :
                \/ \E j \in DOMAIN PDQueue' : PDQueue'[j] = PDQueue[i]
                \/ <<PDQueue[i].n, "trimmed">> \in gone'
           /\ \A j \in DOMAIN PDQueue' :
                PDQueue'[j] = e \/ \E i \in DOMAIN PDQueue : PDQueue'[j] = PDQueue[i]
           /\ gone \subseteq gone'
<1>1. gone \subseteq gone'  BY DEF Enqueue, PutBack
<1>2. CASE Enqueue(e)
  <2>1. PICK k \in Nat, m \in Nat :
             /\ DOMAIN PDQueue = 1..(m + k) /\ DOMAIN PDQueue' = 1..(m + 1)
             /\ PDQueue'[m + 1] = e
             /\ \A i \in 1..m : PDQueue'[i] = PDQueue[i + k]
             /\ \A i \in 1..k : <<PDQueue[i].n, "trimmed">> \in gone'
    BY <1>2, EnqueueShifts
  <2>2. ASSUME NEW i \in DOMAIN PDQueue, ~(i <= k)
        PROVE  \E j \in DOMAIN PDQueue' : PDQueue'[j] = PDQueue[i]
    <3>1. i - k \in 1..m /\ (i - k) + k = i /\ i - k \in DOMAIN PDQueue'  BY <2>1, <2>2
    <3> QED  BY <2>1, <3>1
  <2>3. ASSUME NEW j \in DOMAIN PDQueue', j # m + 1
        PROVE  \E i \in DOMAIN PDQueue : PDQueue'[j] = PDQueue[i]
    <3>1. j \in 1..m /\ j + k \in DOMAIN PDQueue  BY <2>1, <2>3
    <3> QED  BY <2>1, <3>1
  <2>4. m + 1 \in DOMAIN PDQueue'  BY <2>1
  <2>5. \A i \in DOMAIN PDQueue : i <= k => <<PDQueue[i].n, "trimmed">> \in gone'
    BY <2>1
  <2> QED  BY <1>1, <2>1, <2>2, <2>3, <2>4, <2>5
<1>3. CASE PutBack(e)
  <2>1. PICK k \in Nat, m \in Nat :
             /\ DOMAIN PDQueue = 1..(m + k) /\ DOMAIN PDQueue' = 1..(m + 1)
             /\ PDQueue'[1] = e
             /\ \A i \in 1..m : PDQueue'[i + 1] = PDQueue[i + k]
             /\ \A i \in 1..k : <<PDQueue[i].n, "trimmed">> \in gone'
    BY <1>3, PutBackShifts
  <2>2. ASSUME NEW i \in DOMAIN PDQueue, ~(i <= k)
        PROVE  \E j \in DOMAIN PDQueue' : PDQueue'[j] = PDQueue[i]
    <3>1. i - k \in 1..m /\ (i - k) + k = i /\ (i - k) + 1 \in DOMAIN PDQueue'  BY <2>1, <2>2
    <3> QED  BY <2>1, <3>1
  <2>3. ASSUME NEW j \in DOMAIN PDQueue', j # 1
        PROVE  \E i \in DOMAIN PDQueue : PDQueue'[j] = PDQueue[i]
    <3>1. j - 1 \in 1..m /\ (j - 1) + 1 = j /\ (j - 1) + k \in DOMAIN PDQueue  BY <2>1, <2>3
    <3> QED  BY <2>1, <3>1
  <2>4. 1 \in DOMAIN PDQueue'  BY <2>1
  <2>5. \A i \in DOMAIN PDQueue : i <= k => <<PDQueue[i].n, "trimmed">> \in gone'
    BY <2>1
  <2> QED  BY <1>1, <2>1, <2>2, <2>3, <2>4, <2>5
<1> QED  BY <1>2, <1>3

(* The list stays in the order of the events: a new one is behind all, and the    *)
(* one put back was before all.                                                    *)
LEMMA AddedInOrder ==
    ASSUME QueueInv, NEW e \in Events,
           \A i, j \in DOMAIN PDQueue : i < j => PDQueue[i].n < PDQueue[j].n,
           \/ Enqueue(e) /\ \A i \in DOMAIN PDQueue : PDQueue[i].n < e.n
           \/ PutBack(e) /\ \A i \in DOMAIN PDQueue : e.n < PDQueue[i].n
    PROVE  \A i, j \in DOMAIN PDQueue' : i < j => PDQueue'[i].n < PDQueue'[j].n
<1> SUFFICES ASSUME NEW i \in DOMAIN PDQueue', NEW j \in DOMAIN PDQueue', i < j
             PROVE  PDQueue'[i].n < PDQueue'[j].n
  OBVIOUS
<1>1. CASE Enqueue(e) /\ \A a \in DOMAIN PDQueue : PDQueue[a].n < e.n
  <2>1. PICK k \in Nat, m \in Nat :
             /\ DOMAIN PDQueue = 1..(m + k) /\ DOMAIN PDQueue' = 1..(m + 1)
             /\ PDQueue'[m + 1] = e
             /\ \A a \in 1..m : PDQueue'[a] = PDQueue[a + k]
    BY <1>1, EnqueueShifts
  <2>2. i \in 1..m /\ i + k \in DOMAIN PDQueue /\ PDQueue'[i] = PDQueue[i + k]  BY <2>1
  <2>3. CASE j = m + 1  BY <1>1, <2>1, <2>2, <2>3
  <2>4. CASE j # m + 1
    <3>1. j \in 1..m /\ j + k \in DOMAIN PDQueue /\ i + k < j + k  BY <2>1, <2>4
    <3> QED  BY <2>1, <2>2, <3>1
  <2> QED  BY <2>3, <2>4
<1>2. CASE PutBack(e) /\ \A a \in DOMAIN PDQueue : e.n < PDQueue[a].n
  <2>1. PICK k \in Nat, m \in Nat :
             /\ DOMAIN PDQueue = 1..(m + k) /\ DOMAIN PDQueue' = 1..(m + 1)
             /\ PDQueue'[1] = e
             /\ \A a \in 1..m : PDQueue'[a + 1] = PDQueue[a + k]
    BY <1>2, PutBackShifts
  <2>2. j - 1 \in 1..m /\ (j - 1) + 1 = j /\ (j - 1) + k \in DOMAIN PDQueue  BY <2>1
  <2>3. PDQueue'[j] = PDQueue[(j - 1) + k]  BY <2>1, <2>2
  <2>4. CASE i = 1  BY <1>2, <2>1, <2>2, <2>3, <2>4
  <2>5. CASE i # 1
    <3>1. /\ i - 1 \in 1..m /\ (i - 1) + 1 = i /\ (i - 1) + k \in DOMAIN PDQueue
          /\ (i - 1) + k < (j - 1) + k
      BY <2>1, <2>2, <2>5
    <3>2. PDQueue'[i] = PDQueue[(i - 1) + k]  BY <2>1, <3>1
    <3> QED  BY <2>2, <2>3, <3>1, <3>2
  <2> QED  BY <2>4, <2>5
<1> QED  BY <1>1, <1>2

-----------------------------------------------------------------------------
(* The order of a sensor's messages.                                         *)

(* What the order of the messages of a sensor depends on.                     *)
LEMMA SensorOrderKept ==
    ASSUME SensorOrder, UNCHANGED <<queues, out>>, late \subseteq late'
    PROVE  SensorOrder'
BY DEF SensorOrder, Before

(* No step but those of the packet on the port, the pump and the consumer can     *)
(* change the order.                                                               *)
LEMMA OrderFrame ==
    ASSUME OrderInv, UNCHANGED <<PDQueue, held, port, queues, out, emitted, late>>,
           comms' = "sending" <=> comms = "sending", pump'.evt = pump.evt
    PROVE  OrderInv'
<1>1. SensorOrder'  BY SensorOrderKept DEF OrderInv
<1>2. DriverOrder'  BY DEF OrderInv, DriverOrder
<1>3. \A x : (InSensor(x)' <=> InSensor(x)) /\ (InService(x)' <=> InService(x))
  BY DEF InSensor, InService, InPump
<1>4. PassOrder'  BY <1>3 DEF OrderInv, PassOrder, Before
<1> QED  BY <1>1, <1>2, <1>4 DEF OrderInv

LEMMA DriverOrderStep ==
    ASSUME QueueInv, FlowTypes, OrderInv,
           Comms \/ \E p \in Probes : Emit(p)
    PROVE  OrderInv'
<1> USE EventsAreNotNone
<1>0. /\ emitted \in Nat /\ DOMAIN PDQueue = 1..Len(PDQueue) /\ Len(PDQueue) \in Nat
      /\ \A i \in DOMAIN PDQueue : PDQueue[i] \in Events /\ PDQueue[i].n \in Nat
      /\ SensorOrder /\ DriverOrder /\ PassOrder
  BY DEF QueueInv, OrderInv
<1>1. ASSUME NEW p \in Probes, Emit(p) PROVE OrderInv'
  <2> DEFINE e == Event(emitted + 1, p)
  <2>1. /\ e \in Events /\ e.n = emitted + 1 /\ emitted' = emitted + 1 /\ Enqueue(e)
        /\ UNCHANGED <<comms, held, port, pump, queues, out, late>>
    BY <1>1, WinVirtueAssumption DEF Emit, Event, Events, QueueInv, service, counts
  <2> HIDE DEF e
  <2>2. \A i \in DOMAIN PDQueue : PDQueue[i].n < e.n
    BY <1>0, <2>1 DEF DriverOrder
  <2>3. \A i, j \in DOMAIN PDQueue' : i < j => PDQueue'[i].n < PDQueue'[j].n
    BY <1>0, <2>1, <2>2, AddedInOrder DEF DriverOrder
  <2>4. \A j \in DOMAIN PDQueue' :
           PDQueue'[j] = e \/ \E i \in DOMAIN PDQueue : PDQueue'[j] = PDQueue[i]
    BY <2>1, AddedList
  <2>5. \A j \in DOMAIN PDQueue' : PDQueue'[j].n <= emitted'
    BY <1>0, <2>1, <2>2, <2>4
  <2>6. comms = "sending" =>
          held.n \in Nat /\ held.n <= emitted' /\ \A j \in DOMAIN PDQueue' : held.n < PDQueue'[j].n
    BY <1>0, <2>1, <2>4 DEF DriverOrder, QueueInv
  <2>7. DriverOrder'  BY <2>1, <2>3, <2>5, <2>6 DEF DriverOrder
  <2>8. SensorOrder'  BY <1>0, <2>1, SensorOrderKept
  <2>9. \A x : (InSensor(x)' <=> InSensor(x)) /\ (InService(x)' <=> InService(x))
    BY <2>1 DEF InSensor, InService, InPump
  <2>10. \A x \in 1..MaxEvents : InService(x) =>
          x <= emitted' /\ \A j \in DOMAIN PDQueue' : Before(x, PDQueue'[j].n)
    BY <1>0, <2>1, <2>4 DEF PassOrder, Before
  <2>11. PassOrder'  BY <1>0, <2>1, <2>9, <2>10 DEF PassOrder, Before
  <2> QED  BY <2>7, <2>8, <2>11 DEF OrderInv
<1>2. CASE WaitForQueueAndPortConnect
  BY <1>2, OrderFrame DEF WaitForQueueAndPortConnect, service, counts
<1>3. CASE Dequeue
  <2>1. CASE PDQueue = <<>>
    BY <1>3, <2>1, OrderFrame DEF Dequeue, service, counts
  <2>2. CASE PDQueue # <<>>
    <3>1. /\ comms = "taken" /\ comms' = "sending" /\ port' \in {"pending", "closed"}
          /\ held' = Head(PDQueue) /\ PDQueue' = Tail(PDQueue)
          /\ UNCHANGED <<pump, queues, out, late, emitted>>
      BY <1>3, <2>2 DEF Dequeue, service, counts
    <3>2. /\ held' = PDQueue[1] /\ 1 \in DOMAIN PDQueue
          /\ \A i \in DOMAIN PDQueue' : i + 1 \in DOMAIN PDQueue /\ PDQueue'[i] = PDQueue[i + 1]
          /\ DOMAIN PDQueue' \subseteq Nat \ {0}
      <4>1. /\ Tail(PDQueue) \in Seq(Events) /\ Len(Tail(PDQueue)) = Len(PDQueue) - 1
            /\ \A i \in 1..Len(Tail(PDQueue)) : Tail(PDQueue)[i] = PDQueue[i + 1]
        BY <2>2, HeadTailProperties DEF QueueInv
      <4>2. Head(PDQueue) = PDQueue[1] /\ Len(PDQueue) > 0  BY <2>2 DEF QueueInv
      <4> QED  BY <1>0, <3>1, <4>1, <4>2
    <3>3. DriverOrder'
      <4>1. ASSUME NEW i \in DOMAIN PDQueue', NEW j \in DOMAIN PDQueue', i < j
            PROVE  PDQueue'[i].n < PDQueue'[j].n
        <5>1. i + 1 \in DOMAIN PDQueue /\ j + 1 \in DOMAIN PDQueue /\ i + 1 < j + 1  BY <3>2, <4>1
        <5>2. PDQueue[i + 1].n < PDQueue[j + 1].n  BY <1>0, <5>1 DEF DriverOrder
        <5> QED  BY <3>2, <5>2
      <4>2. ASSUME NEW i \in DOMAIN PDQueue' PROVE PDQueue'[i].n <= emitted' /\ held'.n < PDQueue'[i].n
        <5>1. i + 1 \in DOMAIN PDQueue /\ 1 < i + 1 /\ PDQueue'[i] = PDQueue[i + 1]  BY <3>2
        <5>2. PDQueue[i + 1].n <= emitted /\ PDQueue[1].n < PDQueue[i + 1].n  BY <1>0, <3>2, <5>1 DEF DriverOrder
        <5> QED  BY <3>1, <3>2, <5>1, <5>2
      <4>3. held'.n <= emitted'  BY <1>0, <3>1, <3>2 DEF DriverOrder
      <4> QED  BY <4>1, <4>2, <4>3 DEF DriverOrder
    <3>4. SensorOrder'  BY <1>0, <3>1, SensorOrderKept
    <3>5. \A x : (InSensor(x)' <=> InSensor(x)) /\ (InService(x)' <=> InService(x))
      BY <3>1 DEF InSensor, InService, InPump
    <3>6. PassOrder'  BY <1>0, <3>1, <3>2, <3>5 DEF PassOrder, Before
    <3> QED  BY <3>3, <3>4, <3>6 DEF OrderInv
  <2> QED  BY <2>1, <2>2
<1>4. CASE Dispose
  <2>1. comms' = "wait" /\ UNCHANGED <<PDQueue, pump, queues, out, late, emitted>>
    BY <1>4 DEF Dispose, service, counts
  <2>2. DriverOrder'  BY <1>0, <2>1 DEF DriverOrder
  <2>3. SensorOrder'  BY <1>0, <2>1, SensorOrderKept
  <2>4. \A x : (InSensor(x)' <=> InSensor(x)) /\ (InService(x)' <=> InService(x))
    BY <2>1 DEF InSensor, InService, InPump
  <2>5. PassOrder'  BY <1>0, <2>1, <2>4 DEF PassOrder, Before
  <2> QED  BY <2>2, <2>3, <2>5 DEF OrderInv
<1>5. CASE SendFails
  <2>1. /\ comms = "sending" /\ port # "replied" /\ PutBack(held) /\ comms' = "wait"
        /\ late' = (IF port = "got" THEN late \cup {held.n} ELSE late)
        /\ UNCHANGED <<queues, out, emitted>>
    BY <1>5 DEF SendFails, service
  <2>2. held \in Events /\ held.n \in Nat /\ held.n <= emitted
        /\ port \in {"pending", "got", "closed"} /\ pump'.evt = pump.evt
    BY <1>0, <1>5, <2>1 DEF QueueInv, DriverOrder, FlowTypes, SendFails
  <2>3. \A i, j \in DOMAIN PDQueue' : i < j => PDQueue'[i].n < PDQueue'[j].n
    BY <1>0, <2>1, <2>2, AddedInOrder DEF DriverOrder
  <2>4. \A j \in DOMAIN PDQueue' :
           PDQueue'[j] = held \/ \E i \in DOMAIN PDQueue : PDQueue'[j] = PDQueue[i]
    BY <2>1, <2>2, AddedList
  <2>5. DriverOrder'  BY <1>0, <2>1, <2>2, <2>3, <2>4 DEF DriverOrder
  <2>6. late \subseteq late'  BY <2>1
  <2>7. SensorOrder'  BY <1>0, <2>1, <2>6, SensorOrderKept
  <2>8. \A x : (InSensor(x)' <=> InSensor(x)) /\ (InService(x)' <=> InService(x))
    BY <2>1, <2>2 DEF InSensor, InService, InPump
  <2>9. ASSUME NEW x \in 1..MaxEvents, InService(x)
        PROVE  x <= emitted /\ (x < held.n \/ (x = held.n /\ x \in late'))
    <3>0. x <= emitted /\ (InPump(x) \/ InSensor(x))  BY <1>0, <2>9 DEF PassOrder, InService
    <3>1. CASE port = "got"
      <4>1. pump.evt = held /\ pump.evt # None /\ held.n \in late'
        BY <2>1, <2>2, <3>1 DEF FlowTypes
      <4>2. InPump(x) => x = held.n  BY <4>1 DEF InPump
      <4>3. InSensor(x) => Before(x, held.n)  BY <1>0, <4>1 DEF PassOrder
      <4> QED  BY <2>6, <3>0, <4>1, <4>2, <4>3 DEF Before
    <3>2. CASE port # "got"
      <4>1. Before(x, held.n)  BY <1>0, <2>1, <2>2, <2>9, <3>2 DEF PassOrder
      <4> QED  BY <2>6, <3>0, <4>1 DEF Before
    <3> QED  BY <3>1, <3>2
  <2>10. ASSUME NEW x \in 1..MaxEvents, InService(x), NEW j \in DOMAIN PDQueue'
         PROVE  x < PDQueue'[j].n \/ (x = PDQueue'[j].n /\ x \in late')
    BY <1>0, <2>4, <2>6, <2>9, <2>10 DEF PassOrder, Before
  <2>11. PassOrder'
    <3>1. \A x \in 1..MaxEvents : InSensor(x)' /\ pump'.evt # None
             => (x < pump'.evt.n \/ (x = pump'.evt.n /\ x \in late'))
      BY <1>0, <2>2, <2>6, <2>8 DEF PassOrder, Before
    <3> QED  BY <2>1, <2>8, <2>9, <2>10, <3>1 DEF PassOrder, Before
  <2> QED  BY <2>5, <2>7, <2>11 DEF OrderInv
<1> QED  BY <1>1, <1>2, <1>3, <1>4, <1>5 DEF Comms

LEMMA PumpOrderStep ==
    ASSUME QueueInv, FlowTypes, OrderInv, Pump \/ ProcessEnds
    PROVE  OrderInv'
<1> USE EventsAreNotNone
<1>0. SensorOrder /\ DriverOrder /\ PassOrder  BY DEF OrderInv
<1>1. CASE PumpConnects
  <2>1. pump'.evt = pump.evt  BY <1>1 DEF PumpConnects, FlowTypes
  <2> QED  BY <1>1, <2>1, OrderFrame DEF PumpConnects, driver, service, counts
<1>2. CASE FilterGetMessage
  <2>1. /\ port = "pending" /\ port' = "got" /\ pump.at = "get" /\ pump'.evt = held
        /\ UNCHANGED <<PDQueue, comms, held, queues, out, emitted, late>>
    BY <1>2 DEF FilterGetMessage, driver, service, counts
  <2>2. comms = "sending" /\ held \in Events /\ held # None /\ pump.evt = None
    BY <2>1 DEF FlowTypes, QueueInv
  <2>3. SensorOrder' /\ DriverOrder'
    BY <1>0, <2>1, SensorOrderKept DEF DriverOrder
  <2>4. \A x : InSensor(x)' <=> InSensor(x)  BY <2>1 DEF InSensor
  <2>5. \A x \in 1..MaxEvents : InService(x)' => InService(x) \/ x = held.n
    BY <2>1, <2>2, <2>4 DEF InService, InPump
  <2>6. \A x \in 1..MaxEvents : InSensor(x) => Before(x, held.n)
    BY <1>0, <2>1, <2>2 DEF PassOrder, InService
  <2>7. held.n <= emitted /\ \A i \in DOMAIN PDQueue : Before(held.n, PDQueue[i].n)
    BY <1>0, <2>2 DEF DriverOrder, Before
  <2>8. PassOrder'
    BY <1>0, <2>1, <2>4, <2>5, <2>6, <2>7 DEF PassOrder, Before
  <2> QED  BY <2>3, <2>8 DEF OrderInv
<1>3. CASE FilterReplyMessage
  <2>1. /\ port' = port \/ port' = "replied"
        /\ pump'.evt = pump.evt
        /\ UNCHANGED <<PDQueue, comms, held, queues, out, emitted, late>>
    BY <1>3 DEF FilterReplyMessage, FlowTypes, driver, service, counts
  <2>2. SensorOrder' /\ DriverOrder'
    BY <1>0, <2>1, SensorOrderKept DEF DriverOrder
  <2>3. \A x : (InSensor(x)' <=> InSensor(x)) /\ (InService(x)' <=> InService(x))
    BY <2>1 DEF InSensor, InService, InPump
  <2>4. PassOrder'  BY <1>0, <2>1, <2>3 DEF PassOrder, Before
  <2> QED  BY <2>2, <2>4 DEF OrderInv
<1>4. CASE _event_stream_pump
  <2> DEFINE e == pump.evt
  <2>1. /\ e \in Events /\ e # None /\ e.probe \in Probes
        /\ pump'.evt = None
        /\ UNCHANGED <<PDQueue, comms, held, port, out, emitted, late>>
    BY <1>4 DEF _event_stream_pump, FlowTypes, NoPump, driver, counts
  <2>2. \/ queues' = queues
        \/ queues' = [queues EXCEPT ![e.probe] = Append(queues[e.probe], e)]
    BY <1>4 DEF _event_stream_pump
  <2> HIDE DEF e
  <2>3. /\ queues \in [Probes -> Seq(Events)]
        /\ \A q \in Probes : queues[q] \in Seq(Events) /\ DOMAIN queues[q] = 1..Len(queues[q])
                              /\ Len(queues[q]) \in Nat
    BY DEF FlowTypes
  <2>4. ASSUME NEW q \in Probes, NEW i \in DOMAIN queues'[q]
        PROVE  \/ i \in DOMAIN queues[q] /\ queues'[q][i] = queues[q][i]
               \/ q = e.probe /\ i = Len(queues[q]) + 1 /\ queues'[q][i] = e
    <3>1. CASE queues'[q] = queues[q]  BY <3>1, <2>4
    <3>2. CASE q = e.probe /\ queues'[q] = Append(queues[q], e)
      <4>1. /\ Len(Append(queues[q], e)) = Len(queues[q]) + 1 /\ Append(queues[q], e) \in Seq(Events)
            /\ \A a \in 1..Len(queues[q]) : Append(queues[q], e)[a] = queues[q][a]
            /\ Append(queues[q], e)[Len(queues[q]) + 1] = e
        BY <2>1, <2>3, AppendProperties
      <4> QED  BY <2>3, <2>4, <3>2, <4>1
    <3> QED  BY <2>1, <2>2, <2>3, <3>1, <3>2
  <2>5. \A q \in Probes : \A i \in DOMAIN queues[q] : queues[q][i].n \in 1..MaxEvents /\ InSensor(queues[q][i].n)
    BY <2>3 DEF InSensor
  <2>6. \A q \in Probes : \A i \in DOMAIN out[q] : out[q][i] \in 1..MaxEvents /\ InSensor(out[q][i])
    <3> SUFFICES ASSUME NEW q \in Probes, NEW i \in DOMAIN out[q]
                 PROVE  out[q][i] \in 1..MaxEvents /\ InSensor(out[q][i])
      OBVIOUS
    <3>1. out[q] \in Seq(1..MaxEvents)  BY DEF FlowTypes
    <3>2. out[q][i] \in 1..MaxEvents
      <4>1. i \in 1..Len(out[q])  BY <3>1
      <4> QED  BY <3>1, <4>1, ElementOfSeq
    <3> QED  BY <3>2 DEF InSensor
  <2>7. \A x \in 1..MaxEvents : InSensor(x) => Before(x, e.n)
    BY <1>0, <2>1 DEF PassOrder, e
  <2>8. SensorOrder'
    <3> SUFFICES ASSUME NEW q \in Probes
                 PROVE  /\ \A i, j \in DOMAIN queues'[q] : i < j => Before(queues'[q][i].n, queues'[q][j].n)
                        /\ \A i \in DOMAIN out[q], j \in DOMAIN queues'[q] : Before(out[q][i], queues'[q][j].n)
      BY <1>0, <2>1 DEF SensorOrder, Before
    <3>1. ASSUME NEW i \in DOMAIN queues'[q], NEW j \in DOMAIN queues'[q], i < j
          PROVE  Before(queues'[q][i].n, queues'[q][j].n)
      <4>1. i \in DOMAIN queues[q] /\ queues'[q][i] = queues[q][i]
        BY <2>3, <2>4, <3>1
      <4>2. CASE j \in DOMAIN queues[q] /\ queues'[q][j] = queues[q][j]
        BY <1>0, <3>1, <4>1, <4>2 DEF SensorOrder
      <4>3. CASE queues'[q][j] = e
        BY <2>5, <2>7, <4>1, <4>3
      <4> QED  BY <2>4, <4>2, <4>3
    <3>2. ASSUME NEW i \in DOMAIN out[q], NEW j \in DOMAIN queues'[q]
          PROVE  Before(out[q][i], queues'[q][j].n)
      <4>1. CASE j \in DOMAIN queues[q] /\ queues'[q][j] = queues[q][j]
        BY <1>0, <4>1 DEF SensorOrder
      <4>2. CASE queues'[q][j] = e
        BY <2>6, <2>7, <4>2
      <4> QED  BY <2>4, <4>1, <4>2
    <3> QED  BY <3>1, <3>2
  <2>9. DriverOrder'  BY <1>0, <2>1 DEF DriverOrder
  <2>10. \A x : InService(x)' => InService(x)
    BY <2>1, <2>4 DEF InService, InSensor, InPump, e
  <2>11. PassOrder'  BY <1>0, <2>1, <2>10 DEF PassOrder, Before
  <2> QED  BY <2>8, <2>9, <2>11 DEF OrderInv
<1>5. CASE ProcessEnds
  <2>1. /\ pump'.evt = None /\ queues' = [p \in Probes |-> <<>>]
        /\ port' = IF port \in {"pending", "got"} THEN "closed" ELSE port
        /\ UNCHANGED <<PDQueue, comms, held, out, emitted, late>>
    BY <1>5 DEF ProcessEnds, NoPump, driver
  <2>2. \A q \in Probes : DOMAIN queues'[q] = {}  BY <2>1
  <2>3. SensorOrder'  BY <1>0, <2>1, <2>2 DEF SensorOrder, Before
  <2>4. DriverOrder'  BY <1>0, <2>1 DEF DriverOrder
  <2>5. \A x : InService(x)' => InSensor(x)
    BY <2>1, <2>2 DEF InService, InSensor, InPump
  <2>6. ASSUME NEW x \in 1..MaxEvents, InSensor(x), comms = "sending", port' \in {"pending", "closed"}
        PROVE  Before(x, held.n)
    <3>1. CASE port = "got"
      BY <1>0, <2>6, <3>1 DEF PassOrder, FlowTypes, QueueInv
    <3>2. CASE port # "got"
      BY <1>0, <2>1, <2>6, <3>2 DEF PassOrder, InService
    <3> QED  BY <3>1, <3>2
  <2>7. PassOrder'
    BY <1>0, <2>1, <2>5, <2>6 DEF PassOrder, Before, InService
  <2> QED  BY <2>3, <2>4, <2>7 DEF OrderInv
<1> QED  BY <1>1, <1>2, <1>3, <1>4, <1>5 DEF Pump

LEMMA ConsumerOrderStep ==
    ASSUME QueueInv, FlowTypes, OrderInv, NEW p \in Probes, evtdata_consumer(p)
    PROVE  OrderInv'
<1> USE EventsAreNotNone
<1>0. SensorOrder /\ DriverOrder /\ PassOrder  BY DEF OrderInv
<1>1. /\ queues[p] # <<>> /\ queues' = [queues EXCEPT ![p] = Tail(queues[p])]
      /\ out' = out \/ out' = [out EXCEPT ![p] = Append(out[p], Head(queues[p]).n)]
      /\ UNCHANGED <<PDQueue, comms, held, port, pump, emitted, late>>
  BY DEF evtdata_consumer, driver, counts
<1>2. /\ queues \in [Probes -> Seq(Events)] /\ out \in [Probes -> Seq(1..MaxEvents)]
      /\ queues[p] \in Seq(Events) /\ out[p] \in Seq(1..MaxEvents)
  BY DEF FlowTypes
<1>3. /\ 1 \in DOMAIN queues[p] /\ Head(queues[p]) = queues[p][1]
      /\ queues[p][1].n \in 1..MaxEvents
      /\ DOMAIN queues[p] = 1..Len(queues[p]) /\ Len(queues[p]) \in Nat
  BY <1>1, <1>2
<1>4. /\ \A q \in Probes \ {p} : queues'[q] = queues[q] /\ out'[q] = out[q]
      /\ queues'[p] = Tail(queues[p])
      /\ out'[p] = out[p] \/ out'[p] = Append(out[p], Head(queues[p]).n)
  BY <1>1, <1>2
<1>5. \A i \in DOMAIN queues'[p] :
        i \in Nat \ {0} /\ i + 1 \in DOMAIN queues[p] /\ queues'[p][i] = queues[p][i + 1]
  <2>1. /\ Tail(queues[p]) \in Seq(Events) /\ Len(Tail(queues[p])) = Len(queues[p]) - 1
        /\ \A i \in 1..Len(Tail(queues[p])) : Tail(queues[p])[i] = queues[p][i + 1]
    BY <1>1, <1>2, HeadTailProperties
  <2> QED  BY <1>3, <1>4, <2>1
<1>6. /\ DOMAIN out[p] = 1..Len(out[p]) /\ Len(out[p]) \in Nat
      /\ \A i \in DOMAIN out'[p] :
           \/ i \in DOMAIN out[p] /\ out'[p][i] = out[p][i]
           \/ i = Len(out[p]) + 1 /\ out'[p][i] = queues[p][1].n
  <2>1. DOMAIN out[p] = 1..Len(out[p]) /\ Len(out[p]) \in Nat  BY <1>2
  <2>2. CASE out'[p] = out[p]
    <3>1. \A i \in DOMAIN out'[p] : i \in DOMAIN out[p] /\ out'[p][i] = out[p][i]
      BY <2>2
    <3> QED  BY <2>1, <3>1
  <2>3. CASE out'[p] = Append(out[p], queues[p][1].n)
    <3> DEFINE h == queues[p][1].n
               a == Append(out[p], h)
    <3>1. /\ Len(a) = Len(out[p]) + 1 /\ a \in Seq(1..MaxEvents)
          /\ \A i \in 1..Len(out[p]) : a[i] = out[p][i]
          /\ a[Len(out[p]) + 1] = h
      BY <1>2, <1>3, AppendProperties
    <3>2. out'[p] = a  BY <2>3
    <3> HIDE DEF a, h
    <3>3. DOMAIN a = 1..(Len(out[p]) + 1)  BY <3>1
    <3>4. ASSUME NEW i \in DOMAIN a
          PROVE  \/ i \in DOMAIN out[p] /\ a[i] = out[p][i]
                 \/ i = Len(out[p]) + 1 /\ a[i] = h
      <4>1. CASE i = Len(out[p]) + 1  BY <3>1, <4>1
      <4>2. CASE i # Len(out[p]) + 1
        <5>1. i \in 1..Len(out[p])  BY <2>1, <3>3, <4>2
        <5>2. i \in DOMAIN out[p]  BY <2>1, <5>1
        <5> QED  BY <3>1, <5>1, <5>2
      <4> QED  BY <4>1, <4>2
    <3> QED  BY <2>1, <3>2, <3>4 DEF h
  <2> QED  BY <1>3, <1>4, <2>1, <2>2, <2>3
<1>7. SensorOrder'
  <2> SUFFICES ASSUME NEW q \in Probes
               PROVE  /\ \A i, j \in DOMAIN out'[q] : i < j => Before(out'[q][i], out'[q][j])
                      /\ \A i, j \in DOMAIN queues'[q] : i < j => Before(queues'[q][i].n, queues'[q][j].n)
                      /\ \A i \in DOMAIN out'[q], j \in DOMAIN queues'[q] : Before(out'[q][i], queues'[q][j].n)
    BY <1>1 DEF SensorOrder, Before
  <2>1. CASE q # p  BY <1>0, <1>4, <2>1 DEF SensorOrder
  <2>2. CASE q = p
    <3>1. ASSUME NEW i \in DOMAIN out'[p], NEW j \in DOMAIN out'[p], i < j
          PROVE  Before(out'[p][i], out'[p][j])
      BY <1>0, <1>3, <1>6, <3>1, SMTT(30) DEF SensorOrder
    <3>2. ASSUME NEW i \in DOMAIN queues'[p], NEW j \in DOMAIN queues'[p], i < j
          PROVE  Before(queues'[p][i].n, queues'[p][j].n)
      <4>1. i + 1 < j + 1  BY <1>5, <3>2
      <4> QED  BY <1>0, <1>5, <4>1 DEF SensorOrder
    <3>3. ASSUME NEW i \in DOMAIN out'[p], NEW j \in DOMAIN queues'[p]
          PROVE  Before(out'[p][i], queues'[p][j].n)
      <4>1. 1 < j + 1  BY <1>5
      <4> QED  BY <1>0, <1>3, <1>5, <1>6, <4>1, ZenonT(60) DEF SensorOrder
    <3> QED  BY <2>2, <3>1, <3>2, <3>3
  <2> QED  BY <2>1, <2>2
<1>8. DriverOrder'  BY <1>0, <1>1 DEF DriverOrder
<1>9. \A x : InSensor(x)' => InSensor(x)
  <2> SUFFICES ASSUME NEW x, NEW q \in Probes,
                      \/ \E i \in DOMAIN queues'[q] : queues'[q][i].n = x
                      \/ \E i \in DOMAIN out'[q] : out'[q][i] = x
               PROVE  InSensor(x)
    BY DEF InSensor
  <2>1. CASE q # p  BY <1>4, <2>1 DEF InSensor
  <2>2. CASE q = p  BY <1>3, <1>5, <1>6, <2>2 DEF InSensor
  <2> QED  BY <2>1, <2>2
<1>10. \A x : InService(x)' => InService(x)
  BY <1>1, <1>9 DEF InService, InPump
<1>11. PassOrder'  BY <1>0, <1>1, <1>9, <1>10 DEF PassOrder, Before
<1> QED  BY <1>7, <1>8, <1>11 DEF OrderInv

(* Every step keeps the order. *)
LEMMA OrderStep ==
    ASSUME QueueInv, FlowTypes, OrderInv, [Next]_vars
    PROVE  OrderInv'
<1>1. CASE Comms \/ \E p \in Probes : Emit(p)  BY <1>1, DriverOrderStep
<1>2. CASE Pump \/ ProcessEnds  BY <1>2, PumpOrderStep
<1>3. CASE \E p \in Probes : evtdata_consumer(p)  BY <1>3, ConsumerOrderStep
<1>4. ASSUME UNCHANGED <<PDQueue, comms, held, port, queues, out, emitted, late>>, pump'.evt = pump.evt
      PROVE  OrderInv'
  BY <1>4, OrderFrame
<1>5. SvcDoRun => UNCHANGED <<PDQueue, comms, held, port, queues, out, emitted, late>> /\ pump'.evt = pump.evt
  BY DEF SvcDoRun, FlowTypes, driver, counts
<1>6. _update_sensor_info \/ SvcStop \/ _load_config_data
        => UNCHANGED <<PDQueue, comms, held, port, queues, out, emitted, late, pump>>
  BY DEF _update_sensor_info, SvcStop, _load_config_data, driver, counts
<1>7. \A p \in Probes :
        RegisterProbe(p) \/ _start_sensors(p) \/ WrapperRegisters(p)
          \/ (\E lv \in Levels : Actuate(p, lv))
        => UNCHANGED <<PDQueue, comms, held, port, queues, out, emitted, late, pump>>
  BY DEF RegisterProbe, _start_sensors, WrapperRegisters, Actuate, driver, service, counts
<1>8. UNCHANGED vars => UNCHANGED <<PDQueue, comms, held, port, queues, out, emitted, late, pump>>
  BY DEF vars, driver, service, counts
<1> QED  BY <1>1, <1>2, <1>3, <1>4, <1>5, <1>6, <1>7, <1>8 DEF Next

(* A sensor's messages, with those that wait in its queue, are in order. *)
LEMMA OrderImplied ==
    ASSUME FlowTypes, OrderInv
    PROVE  OrderKept
<1> SUFFICES ASSUME NEW p \in Probes
             PROVE  LET all == out[p] \o [i \in DOMAIN queues[p] |-> queues[p][i].n]
                    IN  \A i, j \in DOMAIN all :
                          i < j => all[i] < all[j] \/ (all[i] = all[j] /\ all[i] \in late)
  BY DEF OrderKept
<1> DEFINE w == [i \in DOMAIN queues[p] |-> queues[p][i].n]
           all == out[p] \o w
<1> USE EventsAreNotNone
<1>1. out[p] \in Seq(1..MaxEvents) /\ queues[p] \in Seq(Events)  BY DEF FlowTypes
<1>2. /\ w \in Seq(1..MaxEvents) /\ DOMAIN w = DOMAIN queues[p] /\ Len(w) = Len(queues[p])
      /\ \A i \in DOMAIN queues[p] : w[i] = queues[p][i].n
  <2>1. DOMAIN queues[p] = 1..Len(queues[p]) /\ Len(queues[p]) \in Nat  BY <1>1
  <2>2. \A i \in DOMAIN queues[p] : queues[p][i].n \in 1..MaxEvents  BY <1>1
  <2>3. w \in [1..Len(queues[p]) -> 1..MaxEvents]  BY <2>1, <2>2
  <2> QED  BY <2>1, <2>3
<1> HIDE DEF w
<1>3. /\ all \in Seq(1..MaxEvents) /\ Len(all) = Len(out[p]) + Len(w)
      /\ \A i \in 1..(Len(out[p]) + Len(w)) :
           all[i] = IF i <= Len(out[p]) THEN out[p][i] ELSE w[i - Len(out[p])]
  <2> DEFINE S == 1..MaxEvents
             o == out[p]
  <2>1. o \in Seq(S) /\ w \in Seq(S)  BY <1>1, <1>2
  <2> HIDE DEF S, o
  <2>2. /\ o \o w \in Seq(S) /\ Len(o \o w) = Len(o) + Len(w)
        /\ \A i \in 1..(Len(o) + Len(w)) : (o \o w)[i] = IF i <= Len(o) THEN o[i] ELSE w[i - Len(o)]
    BY <2>1, ConcatProperties
  <2> QED  BY <2>2, Zenon DEF S, o
<1> HIDE DEF all
<1>4. DOMAIN all = 1..(Len(out[p]) + Len(w)) /\ Len(out[p]) \in Nat /\ Len(w) \in Nat
      /\ DOMAIN out[p] = 1..Len(out[p]) /\ DOMAIN queues[p] = 1..Len(w)
  BY <1>1, <1>2, <1>3
<1>5. ASSUME NEW i \in DOMAIN all, NEW j \in DOMAIN all, i < j
      PROVE  Before(all[i], all[j])
  <2>1. CASE j <= Len(out[p])
    <3>1. i \in DOMAIN out[p] /\ j \in DOMAIN out[p] /\ all[i] = out[p][i] /\ all[j] = out[p][j]
      BY <1>3, <1>4, <1>5, <2>1
    <3> QED  BY <1>5, <3>1 DEF OrderInv, SensorOrder
  <2>2. CASE ~(j <= Len(out[p]))
    <3> DEFINE jj == j - Len(out[p])
    <3>1. jj \in DOMAIN queues[p]  BY <1>4, <2>2
    <3>2. all[j] = queues[p][jj].n  BY <1>2, <1>3, <1>4, <2>2, <3>1
    <3>3. CASE i <= Len(out[p])
      <4>1. i \in DOMAIN out[p] /\ all[i] = out[p][i]  BY <1>3, <1>4, <3>3
      <4> HIDE DEF jj
      <4> QED  BY <3>1, <3>2, <4>1 DEF OrderInv, SensorOrder
    <3>4. CASE ~(i <= Len(out[p]))
      <4> DEFINE ii == i - Len(out[p])
      <4>1. ii \in DOMAIN queues[p] /\ ii < jj  BY <1>4, <1>5, <3>4
      <4>2. all[i] = queues[p][ii].n  BY <1>2, <1>3, <1>4, <3>4, <4>1
      <4> HIDE DEF ii, jj
      <4> QED  BY <3>1, <3>2, <4>1, <4>2 DEF OrderInv, SensorOrder
    <3> QED  BY <3>3, <3>4
  <2> QED  BY <2>1, <2>2
<1> QED  BY <1>5 DEF Before, all, w

(* A sensor's messages come in the order in which its probe reported the events,   *)
(* and only an event whose reply was too late comes twice: through packets put      *)
(* back at the head, trims at the capacity, late replies and restarts of the        *)
(* service, for any number of probes and events.                                     *)
THEOREM MessagesInOrder == Spec => []OrderKept
<1>1. Init => QueueInv /\ FlowTypes /\ OrderInv
  <2> SUFFICES ASSUME Init PROVE QueueInv /\ FlowTypes /\ OrderInv  OBVIOUS
  <2>1. QueueInv  BY WinVirtueAssumption DEF Init, QueueInv
  <2>2. \A p \in Probes : DOMAIN queues[p] = {} /\ DOMAIN out[p] = {}  BY DEF Init
  <2>3. queues \in [Probes -> Seq(Events)] /\ out \in [Probes -> Seq(1..MaxEvents)]  BY DEF Init
  <2>4. FlowTypes  BY <2>3 DEF Init, FlowTypes, NoPump
  <2>5. DOMAIN PDQueue = {} /\ pump.evt = None /\ comms = "wait"  BY DEF Init, NoPump
  <2>6. SensorOrder /\ DriverOrder  BY <2>2, <2>5 DEF SensorOrder, DriverOrder
  <2>7. \A x : ~InService(x)  BY <2>2, <2>5 DEF InService, InSensor, InPump
  <2>8. PassOrder  BY <2>5, <2>7 DEF PassOrder
  <2> QED  BY <2>1, <2>4, <2>6, <2>8 DEF OrderInv
<1>2. QueueInv /\ FlowTypes /\ OrderInv /\ [Next]_vars => QueueInv' /\ FlowTypes' /\ OrderInv'
  BY QueueStep, FlowTypesStep, OrderStep
<1>3. FlowTypes /\ OrderInv => OrderKept
  BY OrderImplied
<1> QED  BY <1>1, <1>2, <1>3, PTL DEF Spec

-----------------------------------------------------------------------------
(* No event is lost without a trace.                                         *)

(* A step that leaves every event where it was, or further on, keeps them all. *)
LEMMA KeptMonotone ==
    ASSUME KeptInv, emitted' = emitted,
           \A x \in 1..emitted : InDriver(x) => InDriver(x)' \/ InService(x)' \/ IsGone(x)',
           \A x : InService(x) => InService(x)' \/ IsGone(x)',
           gone \subseteq gone',
           port' = "replied" => port = "replied" /\ held' = held
    PROVE  KeptInv'
<1>1. \A x : IsGone(x) => IsGone(x)'  BY DEF IsGone
<1> QED  BY <1>1 DEF KeptInv

LEMMA CommsKeeps ==
    ASSUME QueueInv, FlowTypes, KeptInv, Comms \/ \E p \in Probes : Emit(p)
    PROVE  KeptInv'
<1> USE EventsAreNotNone
<1>0. /\ emitted \in Nat /\ DOMAIN PDQueue = 1..Len(PDQueue) /\ Len(PDQueue) \in Nat
      /\ \A i \in DOMAIN PDQueue : PDQueue[i] \in Events /\ PDQueue[i].n \in Nat
  BY DEF QueueInv
<1>1. ASSUME NEW p \in Probes, Emit(p) PROVE KeptInv'
  <2> DEFINE e == Event(emitted + 1, p)
  <2>1. /\ e \in Events /\ e.n = emitted + 1 /\ emitted' = emitted + 1 /\ Enqueue(e)
        /\ UNCHANGED <<comms, held, port, pump, queues, out>>
    BY <1>1, WinVirtueAssumption DEF Emit, Event, Events, QueueInv, service
  <2> HIDE DEF e
  <2>2. /\ \E j \in DOMAIN PDQueue' : PDQueue'[j] = e
        /\ \A i \in DOMAIN PDQueue :
             \/ \E j \in DOMAIN PDQueue' : PDQueue'[j] = PDQueue[i]
             \/ <<PDQueue[i].n, "trimmed">> \in gone'
        /\ gone \subseteq gone'
    BY <2>1, AddedList
  <2>3. \A x : x = emitted + 1 => InDriver(x)'  BY <2>1, <2>2 DEF InDriver
  <2>4. \A x : InService(x) => InService(x)'  BY <2>1 DEF InService, InSensor, InPump
  <2>5. \A x : IsGone(x) => IsGone(x)'  BY <2>2 DEF IsGone
  <2>6. \A x : <<x, "trimmed">> \in gone' => IsGone(x)'
    BY DEF IsGone
  <2>7. \A x : InDriver(x) => InDriver(x)' \/ IsGone(x)'
    BY <2>1, <2>2, <2>6 DEF InDriver
  <2>8. \A x \in 1..emitted' : x \in 1..emitted \/ x = emitted + 1  BY <1>0, <2>1
  <2> QED  BY <2>1, <2>3, <2>4, <2>5, <2>7, <2>8 DEF KeptInv
<1>2. CASE WaitForQueueAndPortConnect
  <2>1. UNCHANGED <<PDQueue, held, port, pump, queues, out, emitted, gone>>
    BY <1>2 DEF WaitForQueueAndPortConnect, service
  <2> QED  BY <2>1, KeptMonotone DEF InDriver, InService, InSensor, InPump
<1>3. CASE Dequeue
  <2>1. CASE PDQueue = <<>>
    <3>1. UNCHANGED <<PDQueue, held, port, pump, queues, out, emitted, gone>>
      BY <1>3, <2>1 DEF Dequeue, service
    <3> QED  BY <3>1, KeptMonotone DEF InDriver, InService, InSensor, InPump
  <2>2. CASE PDQueue # <<>>
    <3>1. /\ comms = "taken" /\ comms' = "sending" /\ port' \in {"pending", "closed"}
          /\ held' = Head(PDQueue) /\ PDQueue' = Tail(PDQueue)
          /\ UNCHANGED <<pump, queues, out, emitted, gone>>
      BY <1>3, <2>2 DEF Dequeue, service
    <3>2. held = None  BY <3>1 DEF FlowTypes
    <3>3. /\ Tail(PDQueue) \in Seq(Events) /\ Len(Tail(PDQueue)) = Len(PDQueue) - 1
          /\ \A i \in 1..Len(Tail(PDQueue)) : Tail(PDQueue)[i] = PDQueue[i + 1]
          /\ Head(PDQueue) \in Events
      BY <2>2, HeadTailProperties DEF QueueInv
    <3>4. Head(PDQueue) = PDQueue[1]  BY <2>2 DEF QueueInv
    <3>5. ASSUME NEW i \in DOMAIN PDQueue
          PROVE  PDQueue[i] = held' \/ \E j \in DOMAIN PDQueue' : PDQueue'[j] = PDQueue[i]
      <4>1. CASE i = 1  BY <3>1, <3>4, <4>1
      <4>2. CASE i # 1
        <5>1. i - 1 \in 1..Len(PDQueue') /\ (i - 1) + 1 = i /\ DOMAIN PDQueue' = 1..Len(PDQueue')
          BY <1>0, <3>1, <3>3, <4>2
        <5> QED  BY <3>1, <3>3, <5>1
      <4> QED  BY <4>1, <4>2
    <3>6. \A x : InDriver(x) => InDriver(x)'
      BY <3>1, <3>2, <3>3, <3>5 DEF InDriver
    <3>7. \A x : InService(x) => InService(x)'  BY <3>1 DEF InService, InSensor, InPump
    <3> QED  BY <3>1, <3>6, <3>7, KeptMonotone
  <2> QED  BY <2>1, <2>2
<1>4. CASE Dispose
  <2>1. /\ comms = "sending" /\ port = "replied" /\ held' = None /\ port' = "idle"
        /\ UNCHANGED <<PDQueue, pump, queues, out, emitted, gone>>
    BY <1>4 DEF Dispose, service
  <2>2. \A x : InService(x) => InService(x)'  BY <2>1 DEF InService, InSensor, InPump
  <2>3. \A x : IsGone(x) => IsGone(x)'  BY <2>1 DEF IsGone
  <2>4. \A x : InDriver(x) => InDriver(x)' \/ x = held.n  BY <2>1 DEF InDriver
  <2>5. InService(held.n) \/ IsGone(held.n)  BY <2>1 DEF KeptInv
  <2> QED  BY <2>1, <2>2, <2>3, <2>4, <2>5 DEF KeptInv
<1>5. CASE SendFails
  <2>1. /\ comms = "sending" /\ PutBack(held) /\ port' = "idle"
        /\ pump' = [pump EXCEPT !.valid = FALSE]
        /\ UNCHANGED <<queues, out, emitted>>
    BY <1>5 DEF SendFails, service
  <2>2. held \in Events /\ pump'.evt = pump.evt
    BY <2>1 DEF QueueInv, FlowTypes
  <2>3. /\ \E j \in DOMAIN PDQueue' : PDQueue'[j] = held
        /\ \A i \in DOMAIN PDQueue :
             \/ \E j \in DOMAIN PDQueue' : PDQueue'[j] = PDQueue[i]
             \/ <<PDQueue[i].n, "trimmed">> \in gone'
        /\ gone \subseteq gone'
    BY <2>1, <2>2, AddedList
  <2>4. \A x : <<x, "trimmed">> \in gone' => IsGone(x)'
    BY DEF IsGone
  <2>5. \A x : InDriver(x) => InDriver(x)' \/ IsGone(x)'
    BY <2>3, <2>4 DEF InDriver
  <2>6. \A x : InService(x) => InService(x)'  BY <2>1, <2>2 DEF InService, InSensor, InPump
  <2> QED  BY <2>1, <2>3, <2>5, <2>6, KeptMonotone
<1> QED  BY <1>1, <1>2, <1>3, <1>4, <1>5 DEF Comms

(* The pump hands its event to a queue or gives it up; the end of the process       *)
(* takes the queues, but a packet without a reply stays with the driver.            *)
LEMMA PumpKeeps ==
    ASSUME QueueInv, FlowTypes, KeptInv, Pump \/ ProcessEnds
    PROVE  KeptInv'
<1> USE EventsAreNotNone
<1>1. CASE PumpConnects
  <2>1. pump'.evt = pump.evt /\ UNCHANGED <<PDQueue, held, port, queues, out, emitted, gone>>
    BY <1>1 DEF PumpConnects, FlowTypes, driver, service
  <2> QED  BY <2>1, KeptMonotone DEF InDriver, InService, InSensor, InPump
<1>2. CASE FilterGetMessage
  <2>1. pump.at = "get" /\ port' = "got" /\ UNCHANGED <<PDQueue, held, queues, out, emitted, gone>>
    BY <1>2 DEF FilterGetMessage, driver, service
  <2>2. pump.evt = None  BY <2>1 DEF FlowTypes
  <2> QED  BY <2>1, <2>2, KeptMonotone DEF InDriver, InService, InSensor, InPump
<1>3. CASE FilterReplyMessage
  <2>1. /\ pump'.evt = pump.evt /\ UNCHANGED <<PDQueue, held, queues, out, emitted, gone>>
        /\ pump.at = "reply" /\ port' = IF pump.valid THEN "replied" ELSE port
    BY <1>3 DEF FilterReplyMessage, FlowTypes, driver, service
  <2>2. \A x : InService(x) <=> InService(x)'  BY <2>1 DEF InService, InSensor, InPump
  <2>3. pump.valid => InService(held.n)
    BY <2>1 DEF FlowTypes, InService, InPump
  <2>4. \A x : (InDriver(x) <=> InDriver(x)') /\ (IsGone(x) <=> IsGone(x)')
    BY <2>1 DEF InDriver, IsGone
  <2> QED  BY <2>1, <2>2, <2>3, <2>4 DEF KeptInv
<1>4. CASE _event_stream_pump
  <2> DEFINE e == pump.evt
  <2>1. /\ e \in Events /\ e.probe \in Probes
        /\ UNCHANGED <<PDQueue, held, port, out, emitted>>
        /\ \/ <<e.n, "stopped">> \in gone' /\ queues' = queues
           \/ <<e.n, "unlisted">> \in gone' /\ queues' = queues
           \/ queues' = [queues EXCEPT ![e.probe] = Append(queues[e.probe], e)]
        /\ gone \subseteq gone'
    BY <1>4 DEF _event_stream_pump, FlowTypes, Gone, driver
  <2> HIDE DEF e
  <2>2. queues \in [Probes -> Seq(Events)]  BY DEF FlowTypes
  <2>3. \A x : x = e.n => IsGone(x)' \/ InSensor(x)'
    <3>1. CASE queues' = [queues EXCEPT ![e.probe] = Append(queues[e.probe], e)]
      <4> DEFINE q == queues[e.probe]
      <4>1. q \in Seq(Events) /\ queues'[e.probe] = Append(q, e)  BY <2>1, <2>2, <3>1
      <4>2. Len(q) + 1 \in DOMAIN Append(q, e) /\ Append(q, e)[Len(q) + 1] = e
        BY <2>1, <4>1
      <4> HIDE DEF q
      <4>3. \E i \in DOMAIN queues'[e.probe] : queues'[e.probe][i].n = e.n  BY <4>1, <4>2
      <4> QED  BY <2>1, <4>3 DEF InSensor
    <3> QED  BY <2>1, <3>1 DEF IsGone
  <2>4. \A x : InSensor(x) => InSensor(x)'
    <3> SUFFICES ASSUME NEW x, NEW r \in Probes,
                        \/ \E i \in DOMAIN queues[r] : queues[r][i].n = x
                        \/ \E i \in DOMAIN out[r] : out[r][i] = x
                 PROVE  InSensor(x)'
      BY DEF InSensor
    <3>1. CASE \E i \in DOMAIN out[r] : out[r][i] = x  BY <2>1, <3>1 DEF InSensor
    <3>2. CASE \E i \in DOMAIN queues[r] : queues[r][i].n = x
      <4>1. PICK i \in DOMAIN queues[r] : queues[r][i].n = x  BY <3>2
      <4>2. CASE queues'[r] = queues[r]  BY <4>1, <4>2 DEF InSensor
      <4>3. CASE queues'[r] = Append(queues[r], e)
        <5>1. queues[r] \in Seq(Events)  BY <2>2
        <5>2. i \in DOMAIN Append(queues[r], e) /\ Append(queues[r], e)[i] = queues[r][i]
          BY <2>1, <4>1, <5>1
        <5>3. i \in DOMAIN queues'[r] /\ queues'[r][i].n = x  BY <4>1, <4>3, <5>2
        <5> QED  BY <5>3 DEF InSensor
      <4> QED  BY <2>1, <2>2, <4>2, <4>3
    <3> QED  BY <3>1, <3>2
  <2>5. \A x : InService(x) => InService(x)' \/ IsGone(x)'
    BY <2>3, <2>4 DEF InService, InPump, e
  <2>6. \A x : InDriver(x) => InDriver(x)'  BY <2>1 DEF InDriver
  <2> QED  BY <2>1, <2>5, <2>6, KeptMonotone
<1>5. CASE ProcessEnds
  <2>1. /\ port' = IF port \in {"pending", "got"} THEN "closed" ELSE port
        /\ gone \subseteq gone'
        /\ pump.evt # None => <<pump.evt.n, "restart">> \in gone'
        /\ \A p \in Probes : \A ev \in ToSet(queues[p]) : <<ev.n, "restart">> \in gone'
        /\ UNCHANGED <<PDQueue, held, out, emitted>>
    BY <1>5 DEF ProcessEnds, driver
  <2>2. \A x : \A p \in Probes : \A i \in DOMAIN queues[p] : queues[p][i].n = x => IsGone(x)'
    <3>1. \A p \in Probes : \A i \in DOMAIN queues[p] : queues[p][i] \in ToSet(queues[p])
      BY DEF ToSet
    <3>2. \A x : <<x, "restart">> \in gone' => IsGone(x)'  BY DEF IsGone
    <3> QED  BY <2>1, <3>1, <3>2
  <2>3. \A x : InPump(x) => IsGone(x)'
    BY <2>1 DEF InPump, IsGone
  <2>4. \A x : InService(x) => InService(x)' \/ IsGone(x)'
    BY <2>1, <2>2, <2>3 DEF InService, InSensor, InPump
  <2>5. \A x : InDriver(x) => InDriver(x)'  BY <2>1 DEF InDriver
  <2> QED  BY <2>1, <2>4, <2>5, KeptMonotone
<1> QED  BY <1>1, <1>2, <1>3, <1>4, <1>5 DEF Pump

LEMMA ConsumerKeeps ==
    ASSUME QueueInv, FlowTypes, KeptInv, NEW p \in Probes, evtdata_consumer(p)
    PROVE  KeptInv'
<1> USE EventsAreNotNone
<1> DEFINE e == Head(queues[p])
<1>1. /\ queues[p] # <<>> /\ queues' = [queues EXCEPT ![p] = Tail(queues[p])]
      /\ \/ out' = out /\ <<e.n, "stopped">> \in gone'
         \/ out' = out /\ <<e.n, "skipped">> \in gone'
         \/ out' = [out EXCEPT ![p] = Append(out[p], e.n)]
      /\ gone \subseteq gone'
      /\ UNCHANGED <<PDQueue, held, port, pump, emitted>>
  BY DEF evtdata_consumer, driver, Gone
<1>2. /\ queues \in [Probes -> Seq(Events)] /\ out \in [Probes -> Seq(1..MaxEvents)]
      /\ queues[p] \in Seq(Events) /\ out[p] \in Seq(1..MaxEvents)
  BY DEF FlowTypes
<1>3. e = queues[p][1] /\ e.n \in 1..MaxEvents  BY <1>1, <1>2
<1>4. \A i \in 1..Len(out[p]) :
        /\ i \in DOMAIN Append(out[p], e.n) /\ Append(out[p], e.n)[i] = out[p][i]
  <2>1. /\ Append(out[p], e.n) \in Seq(1..MaxEvents) /\ Len(Append(out[p], e.n)) = Len(out[p]) + 1
        /\ \A i \in 1..Len(out[p]) : Append(out[p], e.n)[i] = out[p][i]
    BY <1>2, <1>3, AppendProperties
  <2>2. Len(out[p]) \in Nat  BY <1>2
  <2>3. DOMAIN Append(out[p], e.n) = 1..(Len(out[p]) + 1)  BY <2>1
  <2> QED  BY <2>1, <2>2, <2>3
<1>5. Len(out[p]) + 1 \in DOMAIN Append(out[p], e.n) /\ Append(out[p], e.n)[Len(out[p]) + 1] = e.n
  BY <1>2, <1>3
<1> HIDE DEF e
<1>6. \A x : x = e.n => IsGone(x)' \/ InSensor(x)'
  <2>1. CASE out' = [out EXCEPT ![p] = Append(out[p], e.n)]
    <3>1. out'[p] = Append(out[p], e.n)  BY <1>2, <2>1
    <3> QED  BY <1>5, <3>1 DEF InSensor
  <2> QED  BY <1>1, <2>1 DEF IsGone
<1>7. \A x : \A r \in Probes : \A i \in DOMAIN out[r] : out[r][i] = x => InSensor(x)'
  <2> SUFFICES ASSUME NEW x, NEW r \in Probes, NEW i \in DOMAIN out[r], out[r][i] = x
               PROVE  InSensor(x)'
    OBVIOUS
  <2>1. CASE out'[r] = out[r]  BY <2>1 DEF InSensor
  <2>2. CASE r = p /\ out'[p] = Append(out[p], e.n)
    <3>1. i \in 1..Len(out[p])  BY <1>2, <2>2
    <3>2. i \in DOMAIN out'[p] /\ out'[p][i] = out[p][i]  BY <1>4, <2>2, <3>1
    <3> QED  BY <2>2, <3>2 DEF InSensor
  <2> QED  BY <1>1, <1>2, <2>1, <2>2
<1>8. ASSUME NEW x, NEW r \in Probes, NEW i \in DOMAIN queues[r], queues[r][i].n = x
      PROVE  queues[r][i] = e \/ InSensor(x)'
  <2>1. CASE r # p
    <3>1. queues'[r] = queues[r]  BY <1>1, <1>2, <2>1
    <3> QED  BY <1>8, <3>1 DEF InSensor
  <2>2. CASE r = p /\ i # 1
    <3>1. /\ Tail(queues[p]) \in Seq(Events) /\ Len(Tail(queues[p])) = Len(queues[p]) - 1
          /\ \A j \in 1..Len(Tail(queues[p])) : Tail(queues[p])[j] = queues[p][j + 1]
      BY <1>1, <1>2, HeadTailProperties
    <3>2. queues'[p] = Tail(queues[p])  BY <1>1, <1>2
    <3>3. i - 1 \in 1..Len(Tail(queues[p])) /\ (i - 1) + 1 = i
      BY <1>2, <2>2, <3>1
    <3>4. i - 1 \in DOMAIN queues'[p] /\ queues'[p][i - 1] = queues[p][i]
      BY <3>1, <3>2, <3>3
    <3> QED  BY <1>8, <2>2, <3>4 DEF InSensor
  <2>3. CASE r = p /\ i = 1  BY <1>3, <2>3
  <2> QED  BY <2>1, <2>2, <2>3
<1>9. \A x : InService(x) => InService(x)' \/ IsGone(x)'
  <2>1. \A x : InSensor(x) => InSensor(x)' \/ IsGone(x)'
    BY <1>6, <1>7, <1>8 DEF InSensor
  <2> QED  BY <1>1, <2>1 DEF InService, InPump
<1>10. \A x : InDriver(x) => InDriver(x)'  BY <1>1 DEF InDriver
<1> QED  BY <1>1, <1>9, <1>10, KeptMonotone

LEMMA KeptStep ==
    ASSUME QueueInv, FlowTypes, KeptInv, [Next]_vars
    PROVE  KeptInv'
<1>1. CASE Comms \/ \E p \in Probes : Emit(p)  BY <1>1, CommsKeeps
<1>2. CASE Pump \/ ProcessEnds  BY <1>2, PumpKeeps
<1>3. CASE \E p \in Probes : evtdata_consumer(p)  BY <1>3, ConsumerKeeps
<1>4. ASSUME UNCHANGED <<PDQueue, held, port, queues, out, emitted, gone>>, pump'.evt = pump.evt
      PROVE  KeptInv'
  BY <1>4, KeptMonotone DEF InDriver, InService, InSensor, InPump
<1>5. SvcDoRun => UNCHANGED <<PDQueue, held, port, queues, out, emitted, gone>> /\ pump'.evt = pump.evt
  BY DEF SvcDoRun, FlowTypes, driver
<1>6. _update_sensor_info \/ SvcStop \/ _load_config_data
        => UNCHANGED <<PDQueue, held, port, queues, out, emitted, gone, pump>>
  BY DEF _update_sensor_info, SvcStop, _load_config_data, driver
<1>7. \A p \in Probes :
        RegisterProbe(p) \/ _start_sensors(p) \/ WrapperRegisters(p)
          \/ (\E lv \in Levels : Actuate(p, lv))
        => UNCHANGED <<PDQueue, held, port, queues, out, emitted, gone, pump>>
  BY DEF RegisterProbe, _start_sensors, WrapperRegisters, Actuate, driver, service
<1>8. UNCHANGED vars => UNCHANGED <<PDQueue, held, port, queues, out, emitted, gone, pump>>
  BY DEF vars, driver, service
<1> QED  BY <1>1, <1>2, <1>3, <1>4, <1>5, <1>6, <1>7, <1>8 DEF Next

(* An event that a probe reported is in the driver's queue, on the port, in the     *)
(* pump, in a sensor's queue or among its messages, or it was given up for a         *)
(* recorded reason: no race of a send that fails with the pump that has the          *)
(* message, and no restart, makes one disappear.                                     *)
THEOREM NoEventVanishes == Spec => []NothingVanishes
<1>1. Init => QueueInv /\ FlowTypes /\ KeptInv
  <2> SUFFICES ASSUME Init PROVE QueueInv /\ FlowTypes /\ KeptInv  OBVIOUS
  <2>1. QueueInv  BY WinVirtueAssumption DEF Init, QueueInv
  <2>2. queues \in [Probes -> Seq(Events)] /\ out \in [Probes -> Seq(1..MaxEvents)]  BY DEF Init
  <2>3. FlowTypes  BY <2>2 DEF Init, FlowTypes, NoPump
  <2>4. KeptInv  BY DEF Init, KeptInv
  <2> QED  BY <2>1, <2>3, <2>4
<1>2. QueueInv /\ FlowTypes /\ KeptInv /\ [Next]_vars => QueueInv' /\ FlowTypes' /\ KeptInv'
  BY QueueStep, FlowTypesStep, KeptStep
<1>3. FlowTypes /\ KeptInv => NothingVanishes
  <2> SUFFICES ASSUME FlowTypes, KeptInv, NEW n \in 1..emitted
               PROVE  n \in OnTheWay \/ IsGone(n)
    BY DEF NothingVanishes, IsGone
  <2>1. InDriver(n) => n \in OnTheWay
    BY DEF InDriver, OnTheWay, ToSet
  <2>2. InPump(n) => n \in OnTheWay
    BY DEF InPump, OnTheWay
  <2>3. InSensor(n) => n \in OnTheWay
    BY DEF InSensor, OnTheWay, ToSet
  <2> QED  BY <2>1, <2>2, <2>3 DEF KeptInv, InService
<1> QED  BY <1>1, <1>2, <1>3, PTL DEF Spec
=============================================================================
