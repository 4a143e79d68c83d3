--------------------------- MODULE SensingMethods ---------------------------
(* The sensors that run a command or a system call, report what it lists and  *)
(* sleep, and the service classes around the Windows ones.  One sensor process *)
(* at a time: its sensing methods are the tasks of one curio TaskGroup, which   *)
(* call_sensing_method of the wrapper starts, cancels and starts again.         *)
(* A line of a command's output is a number: a row is the process, socket or    *)
(* file it is about.                                                            *)
EXTENDS Integers, Sequences, FiniteSets, SequencesExt

CONSTANTS Entities,    \* what a host may have to list
          MaxOps       \* bound: changes of the host, actuations and faults

ASSUME SensingMethodsAssumption == Entities \subseteq Nat \ {0} /\ IsFiniteSet(Entities) /\ MaxOps \in Nat

(* The sensor's own process, or the idle process; a header; lsof's separator. *)
Own == 0
Header == -1
Separator == -2
(* The rows of a listing, in their order: of one that lists all there is, there is one. *)
Rows(listed) ==
    {rows \in [1..Cardinality(listed) -> listed] : \A i, j \in DOMAIN rows : i < j => rows[i] < rows[j]}
Listing(host) == Rows(host \cup {Own})

-----------------------------------------------------------------------------
(* The sensing methods.                                                       *)
(*   command  "listing" ends by itself, "cycles" (lsof -r) lists for ever,      *)
(*            "packets" (tcpdump) prints what comes, "query" is a system call,  *)
(*            "profile" is report_on_file and "constant" a fixed message        *)
(*   header   lines passed over;   skips   rows passed over                     *)
(*   gathers  the whole output is read before any of it is reported             *)
(*   late     a row is reported when the next one comes, the last one never     *)
(*   managed  "async with Popen": leaving it waits for the child                *)
(*   blocks   the output is read without awaiting: no other task runs meanwhile  *)
(*   loop     "always", "running" (while the service runs) or "once"            *)
Method == [command |-> "listing", header |-> 0, skips |-> {}, gathers |-> FALSE, late |-> FALSE,
           managed |-> FALSE, blocks |-> FALSE, loop |-> "always"]
Profile(loop) == [Method EXCEPT !.command = "profile", !.loop = loop]

ps == [Method EXCEPT !.header = 1, !.skips = {Own}, !.gathers = TRUE, !.managed = TRUE]
assess_ps == Profile("always")
demo_ps == [Method EXCEPT !.header = 1, !.skips = {Own}]
demo_assess_ps == Profile("always")
kernel_ps == [Method EXCEPT !.header = 1, !.skips = {Own}]
kernel_assess_ps == Profile("always")
netstat == [Method EXCEPT !.header = 2, !.gathers = TRUE, !.managed = TRUE]
assess_netstat == Profile("always")
demo_netstat == [Method EXCEPT !.header = 2]
demo_assess_netstat == Profile("always")
(* The output of lsof -r does not end, so what is gathered is never reported. *)
lsof == [Method EXCEPT !.command = "cycles", !.skips = {Separator}, !.gathers = TRUE, !.managed = TRUE,
                       !.loop = "once"]
assess_lsof == Profile("always")
demo_lsof_gathers ==
    [Method EXCEPT !.command = "cycles", !.skips = {Separator}, !.gathers = TRUE, !.loop = "once"]
demo_lsof == [Method EXCEPT !.command = "cycles", !.skips = {Separator}, !.loop = "once"]
demo_assess_lsof == Profile("always")
tcpdump == [Method EXCEPT !.command = "packets", !.managed = TRUE, !.loop = "once"]
assess_tcpdump == Profile("always")
demo_tcpdump == [Method EXCEPT !.command = "packets", !.loop = "once"]
demo_assess_tcpdump == Profile("always")
(* A process of handle.exe is reported when the line of dashes of the next one comes. *)
handlelist == [Method EXCEPT !.late = TRUE, !.blocks = TRUE, !.loop = "running"]
assess_handlelist_deaf == Profile("always")
assess_handlelist == Profile("running")
tasklist == [Method EXCEPT !.skips = {Own}, !.blocks = TRUE, !.loop = "running"]
assess_tasklist == Profile("running")
kernelprobe == [Method EXCEPT !.command = "constant", !.loop = "running"]
assess_kernelprobe == Profile("running")
(* get_process_objects leaves the loop at the entry that has no next one. *)
process_monitor ==
    [Method EXCEPT !.command = "query", !.skips = {Own}, !.late = TRUE, !.blocks = TRUE, !.loop = "running"]

(* The sensors: their methods, and for a service class the sections its          *)
(* configuration file must have.                                                 *)
Sensor(methods) == [methods |-> methods, service |-> FALSE, sections |-> {}]
Service(methods, sections) == [methods |-> methods, service |-> TRUE, sections |-> sections]
sensor_handlelist == Service(<<handlelist, assess_handlelist>>, {"parameters", "runtime"})
sensor_tasklist == Service(<<tasklist, assess_tasklist>>, {"parameters"})
sensor_kernelprobe == Service(<<kernelprobe, assess_kernelprobe>>, {"parameters", "runtime"})
sensor_processlist == Service(<<process_monitor>>, {"parameters", "runtime"})
Sensors ==
    [ps |-> Sensor(<<ps, assess_ps>>), demo_ps |-> Sensor(<<demo_ps, demo_assess_ps>>),
     kernel_ps |-> Sensor(<<kernel_ps, kernel_assess_ps>>),
     netstat |-> Sensor(<<netstat, assess_netstat>>),
     demo_netstat |-> Sensor(<<demo_netstat, demo_assess_netstat>>),
     lsof |-> Sensor(<<lsof, assess_lsof>>), demo_lsof |-> Sensor(<<demo_lsof, demo_assess_lsof>>),
     tcpdump |-> Sensor(<<tcpdump, assess_tcpdump>>),
     demo_tcpdump |-> Sensor(<<demo_tcpdump, demo_assess_tcpdump>>),
     handlelist |-> sensor_handlelist, tasklist |-> sensor_tasklist,
     kernelprobe |-> sensor_kernelprobe, processlist |-> sensor_processlist]

-----------------------------------------------------------------------------
VARIABLES
    sensor,    \* the sensor this process is
    onPath,    \* which_file finds the program
    config,    \* sections of the configuration file
    phase,     \* "new", "sensing", "failed" (a method raised), "stopping" or "exited"
    running,   \* _running of a service
    stopped,   \* stop() was called
    host,      \* what there is to list
    task,      \* the sensing methods' tasks
    ops        \* number of changes, actuations and faults so far
methodVars == <<sensor, onPath, config, phase, running, stopped, host, task, ops>>
still == <<sensor, onPath, config, stopped>>

Methods == Sensors[sensor].methods
Slots == 1..2
Fresh(at) == [at |-> at, output |-> <<>>, heads |-> 0, kept |-> <<>>, listed |-> <<>>,
              reported |-> <<>>, need |-> 0, cut |-> FALSE]
Operate == ops < MaxOps /\ ops' = ops + 1
Becomes(i, t) == task' = [task EXCEPT ![i] = t]
GoesTo(i, at) == Becomes(i, [task[i] EXCEPT !.at = at])
(* The task keeps the event loop to itself. *)
Blocks(i) == i \in DOMAIN Methods /\ Methods[i].blocks /\ task[i].at \in {"sized", "reading"}
(* A step of the task of a method. *)
Runs(i, at) ==
    /\ phase = "sensing" /\ i \in DOMAIN Methods /\ task[i].at = at
    /\ \A j \in Slots \ {i} : ~Blocks(j)
Goes == UNCHANGED <<still, phase, running, host, ops>>
MayLoop(M) == M.loop = "running" => running

MethodsInit ==
    /\ sensor \in DOMAIN Sensors /\ onPath \in BOOLEAN /\ host \in SUBSET Entities
    /\ config \in SUBSET {"parameters", "runtime"}
    /\ ~Sensors[sensor].service => config = {}
    /\ phase = "new" /\ running = FALSE /\ stopped = FALSE /\ ops = 0
    /\ task = [i \in Slots |-> Fresh("off")]

-----------------------------------------------------------------------------
(* The process and its task group.                                            *)

(* start(): a service whose configuration lacks a section exits; the wrapper      *)
(* registers and calls the sensing methods.                                       *)
Start ==
    /\ phase = "new"
    /\ IF Sensors[sensor].sections \subseteq config
       THEN /\ phase' = "sensing" /\ running' = Sensors[sensor].service
            /\ task' = [i \in Slots |-> Fresh(IF i \in DOMAIN Methods THEN "top" ELSE "off")]
       ELSE phase' = "exited" /\ UNCHANGED <<running, task>>
    /\ UNCHANGED <<still, host, ops>>

(* stop() of a service, called from the thread of the service manager. *)
Stop ==
    /\ Sensors[sensor].service /\ phase \notin {"new", "exited"} /\ ~stopped
    /\ stopped' = TRUE /\ running' = FALSE
    /\ UNCHANGED <<sensor, onPath, config, phase, host, task, ops>>

Cancelled_asleep(i) ==
    IF task[i].at = "sleeping" THEN task[i] ELSE Fresh("off")
(* The tasks of the group are cancelled; one that is inside a managed command     *)
(* waits for the child.                                                           *)
Cancelled(i) ==
    IF i \in DOMAIN Methods /\ Methods[i].managed /\ task[i].at \in {"reading", "closing"}
    THEN Fresh("closing") ELSE Fresh("off")
ChildExits(i) ==
    /\ task[i].at = "closing"
    /\ GoesTo(i, "off") /\ Goes

(* An actuation: call_sensing_method cancels what remains of the group, and        *)
(* starts every method anew when all are gone.                                     *)
Actuate ==
    /\ phase \in {"sensing", "failed"} /\ (\A i \in Slots : ~Blocks(i)) /\ Operate
    /\ phase' = "stopping" /\ task' = [i \in Slots |-> Cancelled(i)]
    /\ UNCHANGED <<still, running, host>>
Restart ==
    /\ phase = "stopping" /\ \A i \in Slots : task[i].at = "off"
    /\ phase' = "sensing"
    /\ task' = [i \in Slots |-> Fresh(IF i \in DOMAIN Methods THEN "top" ELSE "off")]
    /\ UNCHANGED <<still, running, host, ops>>

(* A method raises: the group cancels the others too. *)
Fail ==
    /\ phase' = "failed" /\ task' = [i \in Slots |-> Cancelled(i)]
    /\ UNCHANGED <<still, running, host>>
(* which_file has found nothing: Popen, and exists() in report_on_file, raise. *)
Unfound(i) ==
    /\ Runs(i, "top") /\ MayLoop(Methods[i]) /\ ~onPath
    /\ Methods[i].command \notin {"query", "constant"}
    /\ Fail /\ UNCHANGED ops
(* A row that cannot be taken apart, such as netstat's for a program with a slash in    *)
(* its name; process_monitor catches what is raised.                                    *)
Malformed(i) ==
    /\ (Runs(i, "reading") \/ Runs(i, "reporting")) /\ Methods[i].command # "query"
    /\ Operate /\ Fail

HostChanges ==
    /\ Operate
    /\ \E e \in Entities : host' = IF e \in host THEN host \ {e} ELSE host \cup {e}
    /\ UNCHANGED <<still, phase, running, task>>

-----------------------------------------------------------------------------
(* A pass of a method.                                                        *)

(* The loop ends. *)
Leave(i) ==
    /\ Runs(i, "top") /\ ~MayLoop(Methods[i])
    /\ GoesTo(i, "ended") /\ Goes

Printed(M, rows) == [n \in 1..M.header |-> Header] \o rows
RunCommand(i) ==
    /\ Runs(i, "top") /\ MayLoop(Methods[i]) /\ onPath
    /\ Methods[i].command \in {"listing", "cycles", "packets"}
    /\ \E rows \in Listing(host) :
          Becomes(i, [Fresh("reading") EXCEPT
                         !.output = IF Methods[i].command = "listing" THEN Printed(Methods[i], rows) ELSE <<>>,
                         !.listed = rows])
    /\ Goes

(* report_on_file, or the fixed message. *)
ReportProfile(i) ==
    /\ Runs(i, "top") /\ MayLoop(Methods[i])
    /\ \/ Methods[i].command = "constant"
       \/ Methods[i].command = "profile" /\ onPath
    /\ GoesTo(i, "sleeping") /\ Goes

(* A child that does not end prints: lsof another cycle, tcpdump a packet. *)
ChildPrints(i) ==
    /\ Runs(i, "reading") /\ task[i].output = <<>> /\ Len(task[i].kept) < 2
    /\ \/ /\ Methods[i].command = "cycles"
          /\ \E rows \in Listing(host) :
                Becomes(i, [task[i] EXCEPT !.output = <<Header>> \o rows \o <<Separator>>])
       \/ /\ Methods[i].command = "packets"
          /\ \E e \in Entities : Becomes(i, [task[i] EXCEPT !.output = <<e>>])
    /\ Goes
(* It ends after all. *)
ChildEnds(i) ==
    /\ Runs(i, "reading") /\ task[i].output = <<>> /\ Methods[i].command \in {"cycles", "packets"}
    /\ Operate
    /\ GoesTo(i, IF Methods[i].gathers THEN "reporting" ELSE "ended")
    /\ UNCHANGED <<still, phase, running, host>>

(* The messages of a listing are those of this pass, of an endless output the last. *)
Reported(i, row) ==
    IF Methods[i].command \in {"listing", "query"} THEN Append(task[i].reported, row) ELSE <<row>>
ReadLine_header(i) ==
    /\ Runs(i, "reading") /\ task[i].output # <<>>
    /\ LET t == task[i]
       IN  \/ /\ t.heads <= Methods[i].header
              /\ Becomes(i, [t EXCEPT !.output = Tail(@), !.heads = @ + 1])
           \/ /\ t.heads > Methods[i].header
              /\ Becomes(i, [t EXCEPT !.output = Tail(@), !.reported = Reported(i, Head(t.output))])
    /\ Goes
ReadLine(i) ==
    /\ Runs(i, "reading") /\ task[i].output # <<>>
    /\ LET M == Methods[i]
           t == task[i]
           line == Head(t.output)
           rest == Tail(t.output)
       IN  \/ t.heads < M.header /\ Becomes(i, [t EXCEPT !.output = rest, !.heads = @ + 1])
           \/ /\ t.heads = M.header /\ M.gathers
              /\ Becomes(i, [t EXCEPT !.output = rest, !.kept = Append(@, line)])
           \/ /\ t.heads = M.header /\ ~M.gathers
              /\ Becomes(i, [t EXCEPT !.output = rest,
                                      !.reported = IF line \in M.skips \/ (M.late /\ rest = <<>>) THEN @
                                                   ELSE Reported(i, line)])
    /\ Goes
EndOfOutput(i) ==
    /\ Runs(i, "reading") /\ task[i].output = <<>> /\ Methods[i].command \in {"listing", "query"}
    /\ GoesTo(i, IF Methods[i].gathers THEN "reporting" ELSE "sleeping") /\ Goes
(* What was gathered is reported; then the method sleeps, or is done. *)
ReportLine(i) ==
    /\ Runs(i, "reporting")
    /\ LET t == task[i]
       IN  IF t.kept = <<>>
           THEN GoesTo(i, IF Methods[i].loop = "once" THEN "ended" ELSE "sleeping")
           ELSE Becomes(i, [t EXCEPT !.kept = Tail(@),
                                     !.reported = IF Head(t.kept) \in Methods[i].skips THEN @
                                                  ELSE Reported(i, Head(t.kept))])
    /\ Goes

(* get_process_objects asks for the size, and then for the data: when there is     *)
(* more by then, it yields nothing.                                                *)
QuerySize(i) ==
    /\ Runs(i, "top") /\ MayLoop(Methods[i]) /\ Methods[i].command = "query"
    /\ Becomes(i, [Fresh("sized") EXCEPT !.need = Cardinality(host)])
    /\ Goes
QueryData(i) ==
    /\ Runs(i, "sized")
    /\ LET fits == Cardinality(host) <= task[i].need
       IN  \E rows \in Listing(host) :
              Becomes(i, [task[i] EXCEPT !.at = "reading", !.output = IF fits THEN rows ELSE <<>>,
                                         !.listed = rows, !.cut = ~fits])
    /\ Goes
(* An exception becomes an error message, and the pass is over. *)
QueryFails(i) ==
    /\ (Runs(i, "sized") \/ Runs(i, "reading")) /\ Methods[i].command = "query"
    /\ Operate
    /\ Becomes(i, [task[i] EXCEPT !.at = "sleeping", !.output = <<>>, !.cut = TRUE])
    /\ UNCHANGED <<still, phase, running, host>>

Wake(i) ==
    /\ Runs(i, "sleeping")
    /\ GoesTo(i, "top") /\ Goes

(* What a task, its child or the wrapper does by itself. *)
TaskStep(i) ==
    \/ Leave(i) \/ RunCommand(i) \/ ReportProfile(i) \/ ChildPrints(i) \/ ReadLine(i) \/ EndOfOutput(i)
    \/ ReportLine(i) \/ QuerySize(i) \/ QueryData(i) \/ Wake(i) \/ Unfound(i) \/ ChildExits(i)
MethodsNext ==
    \/ Start \/ Stop \/ Actuate \/ Restart \/ HostChanges
    \/ \E i \in Slots : TaskStep(i) \/ Malformed(i) \/ ChildEnds(i) \/ QueryFails(i)
MethodsSpec == MethodsInit /\ [][MethodsNext]_methodVars

-----------------------------------------------------------------------------
(* Properties.                                                               *)

(* What a pass over a listing has to report: the rows there were, but for those the     *)
(* method passes over and, in a late one, the last.                                     *)
Expected(M, rows) == {rows[j] : j \in {k \in DOMAIN rows : M.late => k < Len(rows)}} \ M.skips
(* A pass reports exactly that and reports it in order, each row once and none before     *)
(* those that come earlier, however the host changes meanwhile; only a failed or short    *)
(* query leaves some out.                                                                 *)
PassReports ==
    \A i \in DOMAIN Methods :
        Methods[i].command \in {"listing", "query"} =>
            LET all == Expected(Methods[i], task[i].listed)
                told == task[i].reported
            IN  /\ ToSet(told) \subseteq all
                /\ \A a, b \in DOMAIN told : a < b => told[a] < told[b]
                /\ \A row \in all, a \in DOMAIN told : row < told[a] => row \in ToSet(told)
                /\ task[i].at = "sleeping" /\ ~task[i].cut => ToSet(told) = all

(* What stays on the host is reported again and again while the sensor runs: by     *)
(* every method that lists it, except the last row of a late one, and except lsof.  *)
Visible(i, e) ==
    /\ phase = "sensing" /\ e \in host /\ i \in DOMAIN Methods
    /\ task[i].at # "ended"
    /\ \/ Methods[i].command = "cycles" /\ sensor # "lsof"
       \/ /\ Methods[i].command \in {"listing", "query"}
          /\ Methods[i].late => \E f \in host : f > e
Found == \A i \in Slots, e \in Entities :
            <>[]Visible(i, e) => []<>(e \in ToSet(task[i].reported))

(* After stop() every method of a service comes to its end. *)
StopEnds == stopped ~> \A i \in Slots : task[i].at \in {"ended", "off"}

(* An actuation gets the sensor sensing again, although it waits for the children of    *)
(* "async with Popen", provided these exit when their pipe is closed.                   *)
ActuationEnds == phase = "stopping" ~> phase = "sensing"
=============================================================================
