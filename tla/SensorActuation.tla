--------------------------- MODULE SensorActuation ---------------------------
(***************************************************************************)
(* Setting the observation level of a registered sensor: the observe       *)
(* requests of the API server (web/controllers/observe_controller.ex,      *)
(* lib/actuation_utils.ex) and the tasks of the sensor wrapper that carry  *)
(* them out (sensors/wrapper/sensor_wrapper.py).                           *)
(*                                                                         *)
(* The wrapper is a cooperative scheduler of curio tasks: a task is left   *)
(* only where it blocks, so an action is what happens between two blocking *)
(* calls.  A configuration is named by its level: a component has one      *)
(* "latest" configuration per level.                                       *)
(***************************************************************************)
EXTENDS Naturals, Sequences

CONSTANTS
    Observers,   \* observe requests, each issued at most once
    Levels,      \* observation levels
    Configured,  \* levels the sensor's component has a configuration for
    Default,     \* the level a sensor is registered at
    None,
    MaxTimeouts  \* requests to the sensor that may time out

ASSUME LevelsAssumption ==
    /\ Default \in Configured /\ Configured \subseteq Levels /\ None \notin Levels
ASSUME NamesAssumption == None \notin Observers \cup {"main"} /\ "main" \notin Observers
ASSUME LimitsAssumption == MaxTimeouts \in Nat

\* What starts tasks in the wrapper: an actuation request, or main().
Starters == Observers \cup {"main"}

VARIABLES
    \* the API server and its database
    row,       \* level of the sensor's row; None when the row is deleted
    obs,       \* where an observe request is
    level,     \* the level it asks for
    loaded,    \* the level in the copy of the row it works on
    timeouts,  \* timeouts so far
    overlap,   \* history: a request was issued before another was answered
    \* the wrapper
    pc,        \* where main() is
    handler,   \* where route_sensor_actuate is for a request
    bounces,   \* the starter whose log_drain it has cancelled
    spawned,   \* starters of call_sensing_method, in order
    csm,       \* call_sensing_method, per starter
    waits,     \* the starter whose task group it is cancelling
    group,     \* sensing_method_task_group: the starter that made it
    drain,     \* log_drain, per starter
    drainTask  \* log_drain_task

api  == <<row, obs, level, loaded, timeouts, overlap>>
sensing == <<spawned, csm, waits, group>>
drains == <<drain, drainTask>>
vars == <<api, pc, handler, bounces, sensing, drains>>

Answered(o) == obs[o] \in {"ok", "error"}

\* The row has been written, main() waits for the answer to its registration.
Init ==
    /\ row = Default
    /\ obs = [o \in Observers |-> "idle"]
    /\ level = [o \in Observers |-> None]
    /\ loaded = [o \in Observers |-> None]
    /\ timeouts = 0 /\ overlap = FALSE
    /\ pc = "registering"
    /\ handler = [o \in Observers |-> "none"]
    /\ bounces = [o \in Observers |-> None]
    /\ spawned = <<>>
    /\ csm = [t \in Starters |-> "none"]
    /\ waits = [t \in Starters |-> None]
    /\ group = None
    /\ drain = [t \in Starters |-> "none"]
    /\ drainTask = None

-----------------------------------------------------------------------------
(* The API server: observe/2 on the sensor.                                *)

\* observe: select_sensors_from_targeting and preload load the row; the
\* announcement of the level changes nothing here.  Without a row nothing is
\* selected, and the request is answered.
SelectSensor(o, l) ==
    /\ obs[o] = "idle"
    /\ obs' = [obs EXCEPT ![o] = IF row = None THEN "ok" ELSE "assign"]
    /\ level' = [level EXCEPT ![o] = l]
    /\ loaded' = [loaded EXCEPT ![o] = row]
    /\ overlap' = (overlap \/ \E p \in Observers : obs[p] # "idle" /\ ~Answered(p))
    /\ UNCHANGED <<row, timeouts, pc, handler, bounces, sensing, drains>>

\* Mutant: the row is written before the configuration is looked up.
AssignConfigurationFirst(o) ==
    /\ obs[o] = "assign"
    /\ row' = level[o]
    /\ obs' = [obs EXCEPT ![o] = IF level[o] \in Configured THEN "put" ELSE "error"]
    /\ UNCHANGED <<level, loaded, timeouts, overlap, pc, handler, bounces, sensing,
                   drains>>

\* assign_configuration: no configuration for the level is an error; when the
\* loaded copy has the level already the changeset is empty and Repo.update
\* issues no statement; otherwise it updates the row, and raises without one.
AssignConfiguration(o) ==
    /\ obs[o] = "assign"
    /\ IF level[o] \notin Configured \/ (level[o] # loaded[o] /\ row = None)
       THEN obs' = [obs EXCEPT ![o] = "error"] /\ UNCHANGED row
       ELSE /\ obs' = [obs EXCEPT ![o] = "put"]
            /\ row' = IF level[o] = loaded[o] THEN row ELSE level[o]
    /\ UNCHANGED <<level, loaded, timeouts, overlap, pc, handler, bounces, sensing,
                   drains>>

\* put_sensor: the request reaches the wrapper's HTTPS server, if it is up.
PutSensor(o) ==
    /\ obs[o] = "put"
    /\ IF pc \in {"stopping", "stopped"}
       THEN obs' = [obs EXCEPT ![o] = "error"] /\ UNCHANGED handler
       ELSE /\ obs' = [obs EXCEPT ![o] = "await"]
            /\ handler' = [handler EXCEPT ![o] = "headers"]
    /\ UNCHANGED <<row, level, loaded, timeouts, overlap, pc, bounces, sensing, drains>>

\* recv_timeout: the request fails, the wrapper carries on with it.
TimeOut(o) ==
    /\ obs[o] = "await"
    /\ timeouts < MaxTimeouts
    /\ timeouts' = timeouts + 1
    /\ obs' = [obs EXCEPT ![o] = "error"]
    /\ UNCHANGED <<row, level, loaded, overlap, pc, handler, bounces, sensing, drains>>

\* What the wrapper answers reaches a request that still waits for it.
Reply(o, result) == obs' = [obs EXCEPT ![o] = IF @ = "await" THEN result ELSE @]

-----------------------------------------------------------------------------
(* The wrapper.  Tasks that are ready run in the order they became so.     *)

\* main(), registered: it starts log_drain and call_sensing_method.
StartSensing ==
    /\ pc = "registering"
    /\ pc' = "running"
    /\ drain' = [drain EXCEPT !["main"] = "running"]
    /\ drainTask' = "main"
    /\ csm' = [csm EXCEPT !["main"] = "ready"]
    /\ spawned' = Append(spawned, "main")
    /\ UNCHANGED <<api, handler, bounces, waits, group>>

\* http_handler reads to the end of the headers and finds the route.
HttpHandler(o) ==
    /\ handler[o] = "headers"
    /\ handler' = [handler EXCEPT ![o] = "body"]
    /\ UNCHANGED <<api, pc, bounces, sensing, drains>>

\* wait_for_json reads until the body is a JSON document, which may take longer
\* than the caller waits.
WaitForJson(o) ==
    /\ handler[o] = "body"
    /\ handler' = [handler EXCEPT ![o] = "read"]
    /\ UNCHANGED <<api, pc, bounces, sensing, drains>>

\* route_sensor_actuate, the body being read: call_sensing_method is spawned,
\* then log_drain_task is cancelled.  Before main() has set log_drain_task
\* this raises, and the connection is closed without an answer.
SpawnSensingMethod(o) ==
    /\ handler[o] = "read"
    /\ csm' = [csm EXCEPT ![o] = "ready"]
    /\ spawned' = Append(spawned, o)
    /\ bounces' = [bounces EXCEPT ![o] = drainTask]
    /\ IF drainTask = None
       THEN /\ handler' = [handler EXCEPT ![o] = "closed"]
            /\ Reply(o, "error")
            /\ UNCHANGED drain
       ELSE /\ handler' = [handler EXCEPT ![o] = "bounce"]
            /\ drain' = [drain EXCEPT ![drainTask] = IF @ = "running" THEN "cancelled" ELSE @]
            /\ UNCHANGED obs
    /\ UNCHANGED <<row, level, loaded, timeouts, overlap, pc, waits, group, drainTask>>

\* The cancelled log_drain leaves its loop.
StopDrain(t) ==
    /\ drain[t] = "cancelled"
    /\ drain' = [drain EXCEPT ![t] = "done"]
    /\ UNCHANGED <<api, pc, handler, bounces, sensing, drainTask>>

\* Mutant: log_drain_task is not updated.
BounceLogDrainOnly(o) ==
    /\ handler[o] = "bounce"
    /\ drain[bounces[o]] = "done"
    /\ drain' = [drain EXCEPT ![o] = "running"]
    /\ handler' = [handler EXCEPT ![o] = "closed"]
    /\ Reply(o, "ok")
    /\ UNCHANGED <<row, level, loaded, timeouts, overlap, pc, bounces, sensing,
                   drainTask>>

\* The cancellation has been waited for: a new log_drain, and the answer.
BounceLogDrain(o) ==
    /\ handler[o] = "bounce"
    /\ drain[bounces[o]] = "done"
    /\ drain' = [drain EXCEPT ![o] = "running"]
    /\ drainTask' = o
    /\ handler' = [handler EXCEPT ![o] = "closed"]
    /\ Reply(o, "ok")
    /\ UNCHANGED <<row, level, loaded, timeouts, overlap, pc, bounces, sensing>>

\* Of the starters whose call_sensing_method is in this state, the first.
First(t, state) ==
    \E i \in 1..Len(spawned) :
        /\ spawned[i] = t /\ csm[t] = state
        /\ \A j \in 1..(i - 1) : csm[spawned[j]] # state

\* call_sensing_method starts: there may be a task group to cancel first.
CancelRemaining(t) ==
    /\ First(t, "ready")
    /\ IF group = None
       THEN /\ csm' = [csm EXCEPT ![t] = "running"]
            /\ group' = t
            /\ UNCHANGED waits
       ELSE /\ csm' = [csm EXCEPT ![t] = "cancelling"]
            /\ waits' = [waits EXCEPT ![t] = group]
            /\ UNCHANGED group
    /\ UNCHANGED <<api, pc, handler, bounces, spawned, drains>>

\* The sensing methods of a cancelled group have ended.
EndSensing(t) ==
    /\ csm[t] = "running"
    /\ \E u \in Starters : csm[u] = "cancelling" /\ waits[u] = t
    /\ csm' = [csm EXCEPT ![t] = "done"]
    /\ UNCHANGED <<api, pc, handler, bounces, spawned, waits, group, drains>>

\* Mutant: the old group stays the one to be cancelled.
RestartSensingOnly(t) ==
    /\ First(t, "cancelling")
    /\ csm[waits[t]] = "done"
    /\ csm' = [csm EXCEPT ![t] = "running"]
    /\ UNCHANGED <<api, pc, handler, bounces, spawned, waits, group, drains>>

\* Mutant: call_sensing_method gives up when the group it cancels is gone.
RestartSensingLast(t) ==
    /\ First(t, "cancelling")
    /\ csm[waits[t]] = "done"
    /\ IF group = waits[t]
       THEN csm' = [csm EXCEPT ![t] = "running"] /\ group' = t
       ELSE csm' = [csm EXCEPT ![t] = "none"] /\ UNCHANGED group
    /\ UNCHANGED <<api, pc, handler, bounces, spawned, waits, drains>>

\* cancel_remaining returns; the new group is made and the methods spawned.
RestartSensing(t) ==
    /\ First(t, "cancelling")
    /\ csm[waits[t]] = "done"
    /\ csm' = [csm EXCEPT ![t] = "running"]
    /\ group' = t
    /\ UNCHANGED <<api, pc, handler, bounces, spawned, waits, drains>>

\* A signal: the tasks of wrapper_task_group, the HTTPS server among them, are
\* cancelled once.  A call_sensing_method that is about to cancel the old group,
\* or is waiting for it, takes the CancelledError for the end of that, drops
\* the group and starts its methods.
Stop ==
    LET Eats(t) == csm[t] = "cancelling" \/ (csm[t] = "ready" /\ group # None)
        Latest(t) == \E i \in 1..Len(spawned) :
            /\ spawned[i] = t
            /\ \A j \in (i + 1)..Len(spawned) : ~Eats(spawned[j])
    IN /\ pc = "running"
       /\ pc' = "stopping"
       /\ obs' = [o \in Observers |-> IF obs[o] = "await" THEN "error" ELSE obs[o]]
       /\ handler' = [o \in Observers |-> IF handler[o] = "none" THEN "none" ELSE "closed"]
       /\ csm' = [t \in Starters |-> IF Eats(t) THEN "running"
                                     ELSE IF csm[t] = "none" THEN "none" ELSE "done"]
       /\ group' = IF \E t \in Starters : Eats(t)
                   THEN CHOOSE t \in Starters : Eats(t) /\ Latest(t)
                   ELSE group
       /\ drain' = [t \in Starters |-> IF drain[t] = "none" THEN "none" ELSE "done"]
       /\ UNCHANGED <<row, level, loaded, timeouts, overlap, bounces, spawned, waits,
                      drainTask>>

\* cancel_remaining has seen every task end: deregister_sensor has the row
\* deleted.
Deregister ==
    /\ pc = "stopping"
    /\ \A t \in Starters : csm[t] \in {"none", "done"}
    /\ pc' = "stopped"
    /\ row' = None
    /\ UNCHANGED <<obs, level, loaded, timeouts, overlap, handler, bounces, sensing, drains>>

-----------------------------------------------------------------------------
ApiStep(o) == AssignConfiguration(o) \/ PutSensor(o)

HandlerStep(o) == HttpHandler(o) \/ WaitForJson(o) \/ SpawnSensingMethod(o) \/ BounceLogDrain(o)

TaskStep(t) ==
    StopDrain(t) \/ CancelRemaining(t) \/ EndSensing(t) \/ RestartSensing(t)

Next ==
    \/ \E o \in Observers :
           \/ \E l \in Levels : SelectSensor(o, l)
           \/ ApiStep(o) \/ TimeOut(o) \/ HandlerStep(o)
    \/ \E t \in Starters : TaskStep(t)
    \/ StartSensing \/ Stop \/ Deregister

Spec == Init /\ [][Next]_vars

\* Handlers and tasks that can run do; cancelled sensing methods end.
Fairness ==
    /\ \A o \in Observers : WF_vars(ApiStep(o)) /\ WF_vars(HandlerStep(o))
    /\ \A t \in Starters : WF_vars(TaskStep(t))
    /\ WF_vars(StartSensing) /\ WF_vars(Deregister)

FairSpec == Spec /\ Fairness

-----------------------------------------------------------------------------
(* Properties.                                                             *)

Unsettled == \E t \in Starters : csm[t] \in {"ready", "cancelling"}

LevelOf(t) == IF t = "main" THEN Default ELSE level[t]

\* However actuations overlap with each other and with the start of main(),
\* once call_sensing_method has settled the newest one is running and is the
\* one the next actuation cancels.
NewestIsKept ==
    pc = "running" /\ ~Unsettled =>
        group = spawned[Len(spawned)] /\ csm[group] = "running"

\* While a sensor is running its log messages are drained, or a handler of
\* route_sensor_actuate is about to start the new log_drain: overlapping
\* bounces never leave log_drain_task dead.
DrainIsReplaced ==
    pc = "running" =>
        \/ drain[drainTask] = "running"
        \/ \E o \in Observers : handler[o] = "bounce" /\ bounces[o] = drainTask

\* With one observe request at a time, none of which failed after it wrote the
\* row, the sensor comes to rest at the level the row has.
RowIsApplied ==
    /\ pc = "running" /\ ~Unsettled /\ ~overlap
    /\ \A o \in Observers : obs[o] = "idle" \/ Answered(o)
    /\ \A o \in Observers : obs[o] = "error" => level[o] \notin Configured
    => LevelOf(group) = row

\* An observe request that was counted ok has its sensing method started in
\* the end, unless the sensor stops.
OkIsApplied ==
    \A o \in Observers :
        obs[o] = "ok" /\ loaded[o] # None ~> csm[o] \in {"running", "done"}

-----------------------------------------------------------------------------
(* What the comments say and the code does not do.                         *)

\* "Got SIG: deregistering sensor and shutting down" (sensor_wrapper.py): a
\* signal leads to the deregistration.
SignalDeregisters == pc = "stopping" ~> pc = "stopped"

=============================================================================
