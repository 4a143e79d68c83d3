--------------------------- MODULE SensorRegistry ---------------------------
(***************************************************************************)
(* The life of a sensor in the Sensing API: certificate cycle,             *)
(* registration, heartbeat, deregistration and pruning.                    *)
(*                                                                         *)
(* One side is the sensor wrapper, a process per sensor id                 *)
(* (sensors/wrapper/sensor_wrapper.py); the other is the API server, whose *)
(* HTTP handlers and cron job read and write the sensors and               *)
(* authchallenges tables one statement at a time, without a transaction    *)
(* (control/api_server).  Every statement is an action of its own.         *)
(*                                                                         *)
(* A certificate cycle yields a key pair nobody has used before, and the   *)
(* rows are looked up by public key, so a row is named by its key.  A key  *)
(* no row, handler, prune run or sensor refers to any more stands for a    *)
(* fresh one again.                                                        *)
(***************************************************************************)
EXTENDS Naturals, Sequences, FiniteSets

CONSTANTS
    Sensors,      \* sensor ids, one wrapper process each
    Keys,         \* key pairs, one per certificate cycle
    None,         \* no key, no sensor
    Pruners,      \* prune runs that may overlap
    SyncPeriod,   \* minutes between two heartbeats of a sensor
    PruneAge,     \* rows with an older last_sync_at are pruned
    StopRetrying, \* the wrapper's _stop_retrying flag
    Timely,       \* every request is answered within a minute
    FaultKinds,   \* the faults that may happen
    MaxFaults     \* how many of them

ASSUME SetsAssumption == None \notin Sensors \cup Keys
ASSUME TimesAssumption == SyncPeriod \in Nat /\ PruneAge \in Nat
ASSUME FlagsAssumption == StopRetrying \in BOOLEAN /\ Timely \in BOOLEAN
ASSUME FaultsAssumption ==
    /\ FaultKinds \subseteq {"handler", "connection", "sensor", "api"}
    /\ MaxFaults \in Nat

VARIABLES
    \* the wrapper processes
    pc,         \* where main() is
    key,        \* the key pair of the current certificate cycle
    heartbeat,  \* sync_sensor has been spawned and has not died
    timer,      \* minutes sync_sensor has slept since its last turn
    \* the API server
    api,        \* it is up
    req,        \* handler of the key's certificate and registration requests
    sync,       \* handler of the key's heartbeat
    dereg,      \* handler of the key's deregistration
    todo,       \* rows a prune run has selected and not yet reached
    bare,       \* those of them loaded without component or configuration
    deleted,    \* the row a prune run has deleted and will announce
    \* the database and the command and control topic
    chal,       \* the key's authchallenges row
    owner,      \* sensor_id of the key's row
    db,         \* keys with a row in the sensors table
    fields,     \* columns of the row that are set
    age,        \* minutes since last_sync_at
    c2,         \* what has been announced of the row
    gone,       \* rows that have been deleted
    faults      \* faults so far

wrapper  == <<pc, key, heartbeat, timer>>
handlers == <<req, sync, dereg>>
pruning  == <<todo, bare, deleted>>
rows     == <<owner, db, fields, age, gone>>
vars == <<wrapper, api, handlers, pruning, chal, rows, c2, faults>>

Fields == {"component", "configuration", "registered", "certificates"}

Waiting == {"await_key", "await_cert", "await_registration"}
PCs == {"off", "boot", "want_key", "running", "await_dereg", "backoff",
        "exited"} \cup Waiting

\* Steps of the certificate and registration handlers, in their order.
ReqSteps == {"issue", "challenge", "authsign", "verify", "create",
             "component", "configuration", "registered", "certificates",
             "link", "announce"}
SyncSteps == {"get", "update"}
DeregSteps == {"get", "delete", "announce"}
\* The answers: HTTP 200, another status, a broken connection.
Answers == {"ok", "error", "broken"}

MaxAge == PruneAge + 1

TypeOK ==
    /\ pc \in [Sensors -> PCs]
    /\ key \in [Sensors -> Keys \cup {None}]
    /\ heartbeat \in [Sensors -> BOOLEAN]
    /\ timer \in [Sensors -> 0..SyncPeriod]
    /\ api \in BOOLEAN
    /\ req \in [Keys -> ReqSteps \cup Answers \cup {"idle"}]
    /\ sync \in [Keys -> SyncSteps \cup Answers \cup {"idle"}]
    /\ dereg \in [Keys -> DeregSteps \cup Answers \cup {"idle"}]
    /\ todo \in [Pruners -> SUBSET Keys]
    /\ bare \in [Pruners -> SUBSET Keys]
    /\ deleted \in [Pruners -> Keys \cup {None}]
    /\ chal \in [Keys -> {"none", "issued", "signed", "linked"}]
    /\ owner \in [Keys -> Sensors \cup {None}]
    /\ db \subseteq Keys
    /\ fields \in [Keys -> SUBSET Fields]
    /\ age \in [Keys -> 0..MaxAge]
    /\ c2 \in [Keys -> Seq({"registration", "deregistration"})]
    /\ gone \subseteq Keys
    /\ faults \in Nat

Init ==
    /\ pc = [s \in Sensors |-> "off"]
    /\ key = [s \in Sensors |-> None]
    /\ heartbeat = [s \in Sensors |-> FALSE]
    /\ timer = [s \in Sensors |-> 0]
    /\ api = FALSE
    /\ req = [k \in Keys |-> "idle"]
    /\ sync = [k \in Keys |-> "idle"]
    /\ dereg = [k \in Keys |-> "idle"]
    /\ todo = [p \in Pruners |-> {}]
    /\ bare = [p \in Pruners |-> {}]
    /\ deleted = [p \in Pruners |-> None]
    /\ chal = [k \in Keys |-> "none"]
    /\ owner = [k \in Keys |-> None]
    /\ db = {}
    /\ fields = [k \in Keys |-> {}]
    /\ age = [k \in Keys |-> 0]
    /\ c2 = [k \in Keys |-> <<>>]
    /\ gone = {}
    /\ faults = 0

Fault(kind) ==
    /\ kind \in FaultKinds
    /\ faults < MaxFaults
    /\ faults' = faults + 1

-----------------------------------------------------------------------------
(* Requests.  A request to a server that is down fails at once.            *)

Sent(step) == IF api THEN step ELSE "broken"

\* The wrapper that waits for the answer to its request on key k, if any.
AwaitsReq(k) == \E s \in Sensors : key[s] = k /\ pc[s] \in Waiting
AwaitsSync(k) == \E s \in Sensors : key[s] = k /\ pc[s] = "running" /\ heartbeat[s]
AwaitsDereg(k) == \E s \in Sensors : key[s] = k /\ pc[s] = "await_dereg"

\* create_challenge_handler is served while main() waits for its certificate,
\* route_registration_ping while it waits to be registered.
AnswersChallenge(k) == \E s \in Sensors : key[s] = k /\ pc[s] = "await_cert"
AnswersPing(k) == \E s \in Sensors : key[s] = k /\ pc[s] = "await_registration"

\* CFSSL makes a key pair that is not in use.
Fresh(k) ==
    /\ k \notin db
    /\ req[k] = "idle" /\ sync[k] = "idle" /\ dereg[k] = "idle"
    /\ \A p \in Pruners : k \notin todo[p] /\ k # deleted[p]
    /\ \A s \in Sensors : key[s] # k

-----------------------------------------------------------------------------
(* The wrapper process.                                                    *)

\* start(): identification, then the first run of main().
Start(s) ==
    /\ pc[s] = "off"
    /\ pc' = [pc EXCEPT ![s] = "boot"]
    /\ UNCHANGED <<key, heartbeat, timer, api, handlers, pruning, chal, rows,
                   c2, faults>>

\* wait_for_sensor_api and get_root_ca_pubkey: on to the certificate cycle,
\* or, with the retry limit exceeded, out of main() and into the back-off.
WaitForSensorApi(s) ==
    /\ pc[s] = "boot"
    /\ pc' = [pc EXCEPT ![s] = IF api THEN "want_key" ELSE "backoff"]
    /\ UNCHANGED <<key, heartbeat, timer, api, handlers, pruning, chal, rows,
                   c2, faults>>

\* get_private_key_and_csr asks for a new key pair.
RequestPrivateKey(s, k) ==
    /\ pc[s] = "want_key"
    /\ Fresh(k)
    /\ pc' = [pc EXCEPT ![s] = "await_key"]
    /\ key' = [key EXCEPT ![s] = k]
    /\ req' = [req EXCEPT ![k] = Sent("issue")]
    /\ chal' = [chal EXCEPT ![k] = "none"]
    /\ owner' = [owner EXCEPT ![k] = s]
    /\ fields' = [fields EXCEPT ![k] = {}]
    /\ age' = [age EXCEPT ![k] = 0]
    /\ c2' = [c2 EXCEPT ![k] = <<>>]
    /\ gone' = gone \ {k}
    /\ UNCHANGED <<heartbeat, timer, api, sync, dereg, pruning, db, faults>>

\* With the private key and the CSR at hand, main() serves the challenge and
\* get_signed_public_key asks for the certificate.
RequestSignedPublicKey(s) ==
    /\ pc[s] = "await_key"
    /\ req[key[s]] = "ok"
    /\ pc' = [pc EXCEPT ![s] = "await_cert"]
    /\ req' = [req EXCEPT ![key[s]] = Sent("challenge")]
    /\ UNCHANGED <<key, heartbeat, timer, api, sync, dereg, pruning, chal,
                   rows, c2, faults>>

\* With the certificate written out, main() serves the actuation routes and
\* register_sensor asks to be registered.
RequestRegistration(s) ==
    /\ pc[s] = "await_cert"
    /\ req[key[s]] = "ok"
    /\ pc' = [pc EXCEPT ![s] = "await_registration"]
    /\ req' = [req EXCEPT ![key[s]] = Sent("verify")]
    /\ UNCHANGED <<key, heartbeat, timer, api, sync, dereg, pruning, chal,
                   rows, c2, faults>>

\* Registered: main() spawns sync_sensor, which syncs at once.
StartSensing(s) ==
    /\ pc[s] = "await_registration"
    /\ req[key[s]] = "ok"
    /\ pc' = [pc EXCEPT ![s] = "running"]
    /\ req' = [req EXCEPT ![key[s]] = "idle"]
    /\ heartbeat' = [heartbeat EXCEPT ![s] = TRUE]
    /\ timer' = [timer EXCEPT ![s] = SyncPeriod]
    /\ UNCHANGED <<key, api, sync, dereg, pruning, chal, rows, c2, faults>>

\* A refused or broken request ends main() with a TaskError; start() sleeps
\* for backoff_delay.
AbandonCycle(s) ==
    /\ pc' = [pc EXCEPT ![s] = "backoff"]
    /\ key' = [key EXCEPT ![s] = None]

FailCycle(s) ==
    /\ pc[s] \in Waiting
    /\ req[key[s]] \in {"error", "broken"}
    /\ AbandonCycle(s)
    /\ req' = [req EXCEPT ![key[s]] = "idle"]
    /\ UNCHANGED <<heartbeat, timer, api, sync, dereg, pruning, chal, rows,
                   c2, faults>>

\* The connection is lost after the request was sent: the wrapper sees an
\* exception, the handler carries on.
LoseConnection(s) ==
    /\ pc[s] \in Waiting
    /\ Fault("connection")
    /\ AbandonCycle(s)
    /\ UNCHANGED <<heartbeat, timer, api, handlers, pruning, chal, rows, c2>>

\* start() runs main() again.
Retry(s) ==
    /\ pc[s] = "backoff"
    /\ pc' = [pc EXCEPT ![s] = "boot"]
    /\ UNCHANGED <<key, heartbeat, timer, api, handlers, pruning, chal, rows,
                   c2, faults>>

\* One turn of sync_sensor: the request, ...
SendSync(s) ==
    /\ pc[s] = "running" /\ heartbeat[s]
    /\ timer[s] = SyncPeriod
    /\ sync[key[s]] = "idle"
    /\ sync' = [sync EXCEPT ![key[s]] = Sent("get")]
    /\ UNCHANGED <<wrapper, api, req, dereg, pruning, chal, rows, c2, faults>>

\* ... then the answer, whatever its status, and two minutes of sleep.
EndSync(s) ==
    /\ pc[s] = "running" /\ heartbeat[s]
    /\ sync[key[s]] \in {"ok", "error"}
    /\ sync' = [sync EXCEPT ![key[s]] = "idle"]
    /\ timer' = [timer EXCEPT ![s] = 0]
    /\ UNCHANGED <<pc, key, heartbeat, api, req, dereg, pruning, chal, rows,
                   c2, faults>>

\* Nothing catches the exception of a failed connection: the task dies.
FailSync(s) ==
    /\ pc[s] = "running" /\ heartbeat[s]
    /\ sync[key[s]] = "broken"
    /\ sync' = [sync EXCEPT ![key[s]] = "idle"]
    /\ heartbeat' = [heartbeat EXCEPT ![s] = FALSE]
    /\ timer' = [timer EXCEPT ![s] = 0]
    /\ UNCHANGED <<pc, key, api, req, dereg, pruning, chal, rows, c2, faults>>

LoseSyncConnection(s) ==
    /\ pc[s] = "running" /\ heartbeat[s]
    /\ sync[key[s]] # "idle"
    /\ Fault("connection")
    /\ heartbeat' = [heartbeat EXCEPT ![s] = FALSE]
    /\ timer' = [timer EXCEPT ![s] = 0]
    /\ UNCHANGED <<pc, key, api, handlers, pruning, chal, rows, c2>>

\* SIGINT, SIGTERM or a stop notification: the tasks are cancelled and
\* deregister_sensor blocks on its request.
Terminate(s) ==
    /\ pc[s] = "running"
    /\ pc' = [pc EXCEPT ![s] = "await_dereg"]
    /\ dereg' = [dereg EXCEPT ![key[s]] = Sent("get")]
    /\ UNCHANGED <<key, heartbeat, timer, api, req, sync, pruning, chal, rows,
                   c2, faults>>

\* What main()'s return leads to: start() runs it again unless told to stop.
\* The task group main() leaves raises when sync_sensor has died.
AfterMain(s) ==
    IF StopRetrying THEN {"exited"}
    ELSE IF heartbeat[s] THEN {"boot"} ELSE {"boot", "exited"}

LeaveMain(s, next) ==
    /\ pc' = [pc EXCEPT ![s] = next]
    /\ key' = [key EXCEPT ![s] = None]
    /\ heartbeat' = [heartbeat EXCEPT ![s] = FALSE]
    /\ timer' = [timer EXCEPT ![s] = 0]

\* deregister_sensor only logs the status of the answer.
EndDeregistration(s) ==
    /\ pc[s] = "await_dereg"
    /\ dereg[key[s]] \in {"ok", "error"}
    /\ \E next \in AfterMain(s) : LeaveMain(s, next)
    /\ dereg' = [dereg EXCEPT ![key[s]] = "idle"]
    /\ UNCHANGED <<api, req, sync, pruning, chal, rows, c2, faults>>

\* It does not catch a failed connection, and neither does start().
FailDeregistration(s) ==
    /\ pc[s] = "await_dereg"
    /\ dereg[key[s]] = "broken"
    /\ LeaveMain(s, "exited")
    /\ dereg' = [dereg EXCEPT ![key[s]] = "idle"]
    /\ UNCHANGED <<api, req, sync, pruning, chal, rows, c2, faults>>

LoseDeregConnection(s) ==
    /\ pc[s] = "await_dereg"
    /\ Fault("connection")
    /\ LeaveMain(s, "exited")
    /\ UNCHANGED <<api, handlers, pruning, chal, rows, c2>>

\* The process is killed: no deregistration.  A process that is started anew
\* has a new sensor id (check_identification).
CrashSensor(s) ==
    /\ pc[s] \notin {"off", "exited"}
    /\ Fault("sensor")
    /\ LeaveMain(s, "exited")
    /\ UNCHANGED <<api, handlers, pruning, chal, rows, c2>>

-----------------------------------------------------------------------------
(* Certificate handlers.                                                   *)

\* private_key_new: CFSSL makes key and CSR, the challenge row is stored.
IssuePrivateKey(k) ==
    /\ api /\ req[k] = "issue"
    /\ chal' = [chal EXCEPT ![k] = "issued"]
    /\ req' = [req EXCEPT ![k] = "ok"]
    /\ UNCHANGED <<wrapper, api, sync, dereg, pruning, rows, c2, faults>>

\* public_key_signed: a challenge without a certificate is put to the sensor.
VerifyChallenge(k) ==
    /\ api /\ req[k] = "challenge"
    /\ req' = [req EXCEPT ![k] =
           IF chal[k] = "issued" /\ AnswersChallenge(k) THEN "authsign" ELSE "error"]
    /\ UNCHANGED <<wrapper, api, sync, dereg, pruning, chal, rows, c2, faults>>

\* CFSSL signs, the certificate is stored with the challenge.
SignPublicKey(k) ==
    /\ api /\ req[k] = "authsign"
    /\ chal' = [chal EXCEPT ![k] = "signed"]
    /\ req' = [req EXCEPT ![k] = "ok"]
    /\ UNCHANGED <<wrapper, api, sync, dereg, pruning, rows, c2, faults>>

-----------------------------------------------------------------------------
(* The registration handler: register/2.                                   *)

\* verify_remote_sensor: does the sensor serve its routes with this key?
VerifyRemoteSensor(k) ==
    /\ api /\ req[k] = "verify"
    /\ req' = [req EXCEPT ![k] =
           IF AnswersPing(k) THEN "create" ELSE "error"]
    /\ UNCHANGED <<wrapper, api, sync, dereg, pruning, chal, rows, c2, faults>>

\* Mutant: without the unique index on sensor_id.
CreateSensorTwice(k) ==
    /\ api /\ req[k] = "create"
    /\ req' = [req EXCEPT ![k] = "component"]
    /\ db' = db \cup {k}
    /\ age' = [age EXCEPT ![k] = 0]
    /\ UNCHANGED <<wrapper, api, sync, dereg, pruning, chal, owner, fields,
                   gone, c2, faults>>

\* Sensor.create: the insert raises when the sensor_id or the public_key is
\* in the table already.
CreateSensor(k) ==
    /\ api /\ req[k] = "create"
    /\ IF \E r \in db : r = k \/ owner[r] = owner[k]
       THEN /\ req' = [req EXCEPT ![k] = "error"]
            /\ UNCHANGED rows
       ELSE /\ req' = [req EXCEPT ![k] = "component"]
            /\ db' = db \cup {k}
            /\ age' = [age EXCEPT ![k] = 0]
            /\ UNCHANGED <<owner, fields, gone>>
    /\ UNCHANGED <<wrapper, api, sync, dereg, pruning, chal, c2, faults>>

\* Repo.update of one column; it raises when the row is no longer there.
UpdateRow(k, column, next) ==
    /\ api /\ req[k] = column
    /\ IF k \in db
       THEN /\ req' = [req EXCEPT ![k] = next]
            /\ fields' = [fields EXCEPT ![k] = @ \cup {column}]
       ELSE /\ req' = [req EXCEPT ![k] = "error"]
            /\ UNCHANGED fields
    /\ UNCHANGED <<wrapper, api, sync, dereg, pruning, chal, owner, db, gone,
                   c2, faults>>

\* Mutant: the configuration is left out.
AssignComponentOnly(k) ==
    UpdateRow(k, "component", "registered") /\ UNCHANGED age

AssignComponent(k) ==
    UpdateRow(k, "component", "configuration") /\ UNCHANGED age

AssignConfiguration(k) ==
    UpdateRow(k, "configuration", "registered") /\ UNCHANGED age

\* mark_as_registered sets last_sync_at too.
MarkAsRegistered(k) ==
    /\ UpdateRow(k, "registered", "certificates")
    /\ age' = IF k \in db THEN [age EXCEPT ![k] = 0] ELSE age

MarkHasCertificates(k) ==
    UpdateRow(k, "certificates", "link") /\ UNCHANGED age

\* Mutant: the 200 is sent without the link, and a late one without the row.
LinkAuthChallengeSkipped(k) ==
    /\ api /\ req[k] = "link"
    /\ req' = [req EXCEPT ![k] = "announce"]
    /\ UNCHANGED <<wrapper, api, sync, dereg, pruning, chal, rows, c2, faults>>

\* AuthChallenge.get and Sensor.add: the foreign key needs the row.
LinkAuthChallenge(k) ==
    /\ api /\ req[k] = "link"
    /\ IF k \in db /\ chal[k] = "signed"
       THEN /\ req' = [req EXCEPT ![k] = "announce"]
            /\ chal' = [chal EXCEPT ![k] = "linked"]
       ELSE /\ req' = [req EXCEPT ![k] = "error"]
            /\ UNCHANGED chal
    /\ UNCHANGED <<wrapper, api, sync, dereg, pruning, rows, c2, faults>>

\* Mutant: the 200 is sent without the announcement.
AnnounceNewSensorSkipped(k) ==
    /\ api /\ req[k] = "announce"
    /\ req' = [req EXCEPT ![k] = "ok"]
    /\ UNCHANGED <<wrapper, api, sync, dereg, pruning, chal, rows, c2, faults>>

\* announce_new_sensor works on the record in memory; then the 200.
AnnounceNewSensor(k) ==
    /\ api /\ req[k] = "announce"
    /\ c2' = [c2 EXCEPT ![k] = Append(@, "registration")]
    /\ req' = [req EXCEPT ![k] = "ok"]
    /\ UNCHANGED <<wrapper, api, sync, dereg, pruning, chal, rows, faults>>

-----------------------------------------------------------------------------
(* The heartbeat and deregistration handlers: sync/2, deregister/2.        *)

SyncGet(k) ==
    /\ api /\ sync[k] = "get"
    /\ sync' = [sync EXCEPT ![k] = IF k \in db THEN "update" ELSE "error"]
    /\ UNCHANGED <<wrapper, api, req, dereg, pruning, chal, rows, c2, faults>>

SyncUpdate(k) ==
    /\ api /\ sync[k] = "update"
    /\ IF k \in db
       THEN /\ sync' = [sync EXCEPT ![k] = "ok"]
            /\ age' = [age EXCEPT ![k] = 0]
       ELSE /\ sync' = [sync EXCEPT ![k] = "error"]
            /\ UNCHANGED age
    /\ UNCHANGED <<wrapper, api, req, dereg, pruning, chal, owner, db, fields,
                   gone, c2, faults>>

DeregisterGet(k) ==
    /\ api /\ dereg[k] = "get"
    /\ dereg' = [dereg EXCEPT ![k] = IF k \in db THEN "delete" ELSE "error"]
    /\ UNCHANGED <<wrapper, api, req, sync, pruning, chal, rows, c2, faults>>

\* A row goes, and with it the challenge linked to it (on_delete).
DeleteRow(k) ==
    /\ db' = db \ {k}
    /\ gone' = gone \cup {k}
    /\ chal' = [chal EXCEPT ![k] = IF @ = "linked" THEN "none" ELSE @]
    /\ fields' = [fields EXCEPT ![k] = {}]
    /\ age' = [age EXCEPT ![k] = 0]
    /\ UNCHANGED owner

\* Sensor.delete raises when the row is no longer there.
DeregisterDelete(k) ==
    /\ api /\ dereg[k] = "delete"
    /\ IF k \in db
       THEN DeleteRow(k) /\ dereg' = [dereg EXCEPT ![k] = "announce"]
       ELSE dereg' = [dereg EXCEPT ![k] = "error"] /\ UNCHANGED <<rows, chal>>
    /\ UNCHANGED <<wrapper, api, req, sync, pruning, c2, faults>>

DeregisterAnnounce(k) ==
    /\ api /\ dereg[k] = "announce"
    /\ c2' = [c2 EXCEPT ![k] = Append(@, "deregistration")]
    /\ dereg' = [dereg EXCEPT ![k] = "ok"]
    /\ UNCHANGED <<wrapper, api, req, sync, pruning, chal, rows, faults>>

-----------------------------------------------------------------------------
(* Handlers that fail, and answers nobody waits for.                       *)

\* A database, CFSSL or network error inside a handler: a 500, and what has
\* been written stays written.
FailRequest(k) ==
    /\ api /\ req[k] \in ReqSteps
    /\ Fault("handler")
    /\ req' = [req EXCEPT ![k] = "error"]
    /\ UNCHANGED <<wrapper, api, sync, dereg, pruning, chal, rows, c2>>

FailSyncRequest(k) ==
    /\ api /\ sync[k] \in SyncSteps
    /\ Fault("handler")
    /\ sync' = [sync EXCEPT ![k] = "error"]
    /\ UNCHANGED <<wrapper, api, req, dereg, pruning, chal, rows, c2>>

FailDeregRequest(k) ==
    /\ api /\ dereg[k] \in DeregSteps
    /\ Fault("handler")
    /\ dereg' = [dereg EXCEPT ![k] = "error"]
    /\ UNCHANGED <<wrapper, api, req, sync, pruning, chal, rows, c2>>

DropAnswer(k) ==
    /\ \/ /\ req[k] \in Answers /\ ~AwaitsReq(k)
          /\ req' = [req EXCEPT ![k] = "idle"]
          /\ UNCHANGED <<sync, dereg>>
       \/ /\ sync[k] \in Answers /\ ~AwaitsSync(k)
          /\ sync' = [sync EXCEPT ![k] = "idle"]
          /\ UNCHANGED <<req, dereg>>
       \/ /\ dereg[k] \in Answers /\ ~AwaitsDereg(k)
          /\ dereg' = [dereg EXCEPT ![k] = "idle"]
          /\ UNCHANGED <<req, sync>>
    /\ UNCHANGED <<wrapper, api, pruning, chal, rows, c2, faults>>

StartApi ==
    /\ ~api
    /\ api' = TRUE
    /\ UNCHANGED <<wrapper, handlers, pruning, chal, rows, c2, faults>>

\* Open connections break, prune runs are lost, the database stays.
CrashApi ==
    LET Broken(h) == [k \in Keys |-> IF h[k] = "idle" THEN "idle" ELSE "broken"]
    IN /\ api
       /\ Fault("api")
       /\ api' = FALSE
       /\ req' = Broken(req) /\ sync' = Broken(sync) /\ dereg' = Broken(dereg)
       /\ todo' = [p \in Pruners |-> {}]
       /\ bare' = [p \in Pruners |-> {}]
       /\ deleted' = [p \in Pruners |-> None]
       /\ UNCHANGED <<wrapper, chal, rows, c2>>

-----------------------------------------------------------------------------
(* prune_old_sensors, a cron job that may overlap with itself.             *)

\* Mutant: a limit below the heartbeat's period.
OldSooner(k) == k \in db /\ age[k] + 1 >= PruneAge

\* Mutant: rows whose registration was not completed are left alone.
OldRegistered(k) == k \in db /\ age[k] > PruneAge /\ "registered" \in fields[k]

Old(k) == k \in db /\ age[k] > PruneAge

\* sensors_older_than loads the rows; what follows works on these copies.
PruneSelect(p) ==
    /\ api
    /\ todo[p] = {} /\ deleted[p] = None
    /\ \E k \in Keys : Old(k)
    /\ todo' = [todo EXCEPT ![p] = {k \in Keys : Old(k)}]
    /\ bare' = [bare EXCEPT ![p] =
           {k \in Keys : Old(k) /\ ~({"component", "configuration"} \subseteq fields[k])}]
    /\ UNCHANGED <<wrapper, api, handlers, deleted, chal, rows, c2, faults>>

EndRun(p) ==
    /\ todo' = [todo EXCEPT ![p] = {}]
    /\ bare' = [bare EXCEPT ![p] = {}]

\* The job raises on a database or Kafka error; cron starts the next one.
FailPrune(p) ==
    /\ todo[p] # {} \/ deleted[p] # None
    /\ Fault("handler")
    /\ EndRun(p)
    /\ deleted' = [deleted EXCEPT ![p] = None]
    /\ UNCHANGED <<wrapper, api, handlers, chal, rows, c2>>

\* Mutant: a delete that does not mind a missing row, as delete_all would be.
PruneDeleteAll(p, k) ==
    /\ k \in todo[p] /\ deleted[p] = None
    /\ DeleteRow(k)
    /\ todo' = [todo EXCEPT ![p] = @ \ {k}]
    /\ deleted' = [deleted EXCEPT ![p] = k]
    /\ UNCHANGED <<wrapper, api, handlers, bare, c2, faults>>

\* Mutant: the announcement is built before the row is deleted, and raises.
PruneDeleteLast(p, k) ==
    /\ k \in todo[p] /\ deleted[p] = None
    /\ IF k \in db /\ k \notin bare[p]
       THEN /\ DeleteRow(k)
            /\ todo' = [todo EXCEPT ![p] = @ \ {k}]
            /\ deleted' = [deleted EXCEPT ![p] = k]
            /\ UNCHANGED bare
       ELSE /\ EndRun(p)
            /\ UNCHANGED <<rows, chal, deleted>>
    /\ UNCHANGED <<wrapper, api, handlers, c2, faults>>

\* Repo.delete raises when the row has gone since, which ends the run.
PruneDelete(p, k) ==
    /\ k \in todo[p] /\ deleted[p] = None
    /\ IF k \in db
       THEN /\ DeleteRow(k)
            /\ todo' = [todo EXCEPT ![p] = @ \ {k}]
            /\ deleted' = [deleted EXCEPT ![p] = k]
            /\ UNCHANGED bare
       ELSE /\ EndRun(p)
            /\ UNCHANGED <<rows, chal, deleted>>
    /\ UNCHANGED <<wrapper, api, handlers, c2, faults>>

\* The announcement names component and configuration, and raises without.
PruneAnnounce(p) ==
    LET k == deleted[p]
    IN /\ k # None
       /\ deleted' = [deleted EXCEPT ![p] = None]
       /\ IF k \in bare[p]
          THEN EndRun(p) /\ UNCHANGED c2
          ELSE /\ c2' = [c2 EXCEPT ![k] = Append(@, "deregistration")]
               /\ UNCHANGED <<todo, bare>>
       /\ UNCHANGED <<wrapper, api, handlers, chal, rows, faults>>

-----------------------------------------------------------------------------
(* A minute passes.  Timely: no request takes that long, and a heartbeat   *)
(* that is due has been sent.                                              *)

Quiet ==
    /\ \A k \in Keys : /\ req[k] \notin ReqSteps \cup Answers
                       /\ sync[k] = "idle"
                       /\ dereg[k] = "idle"
    /\ \A p \in Pruners : todo[p] = {} /\ deleted[p] = None
    /\ \A s \in Sensors : ~(pc[s] = "running" /\ heartbeat[s] /\ timer[s] = SyncPeriod)

Tick ==
    /\ Timely => Quiet
    /\ age' = [k \in Keys |-> IF k \in db /\ age[k] < MaxAge THEN age[k] + 1 ELSE age[k]]
    /\ timer' = [s \in Sensors |-> IF heartbeat[s] /\ timer[s] < SyncPeriod
                                 THEN timer[s] + 1 ELSE timer[s]]
    /\ UNCHANGED <<pc, key, heartbeat, api, handlers, pruning, chal, owner, db,
                   fields, gone, c2, faults>>

-----------------------------------------------------------------------------
WrapperStep(s) ==
    \/ Start(s) \/ WaitForSensorApi(s) \/ Retry(s)
    \/ \E k \in Keys : RequestPrivateKey(s, k)
    \/ RequestSignedPublicKey(s) \/ RequestRegistration(s) \/ StartSensing(s)
    \/ FailCycle(s)
    \/ SendSync(s) \/ EndSync(s) \/ FailSync(s)
    \/ EndDeregistration(s) \/ FailDeregistration(s)

WrapperFault(s) ==
    LoseConnection(s) \/ LoseSyncConnection(s) \/ LoseDeregConnection(s)
    \/ CrashSensor(s)

HandlerStep(k) ==
    \/ IssuePrivateKey(k) \/ VerifyChallenge(k) \/ SignPublicKey(k)
    \/ VerifyRemoteSensor(k) \/ CreateSensor(k) \/ AssignComponent(k)
    \/ AssignConfiguration(k) \/ MarkAsRegistered(k) \/ MarkHasCertificates(k)
    \/ LinkAuthChallenge(k) \/ AnnounceNewSensor(k)
    \/ SyncGet(k) \/ SyncUpdate(k)
    \/ DeregisterGet(k) \/ DeregisterDelete(k) \/ DeregisterAnnounce(k)
    \/ DropAnswer(k)

HandlerFault(k) == FailRequest(k) \/ FailSyncRequest(k) \/ FailDeregRequest(k)

PruneStep(p) ==
    PruneSelect(p) \/ (\E k \in Keys : PruneDelete(p, k)) \/ PruneAnnounce(p)

Next ==
    \/ \E s \in Sensors : WrapperStep(s) \/ WrapperFault(s) \/ Terminate(s)
    \/ \E k \in Keys : HandlerStep(k) \/ HandlerFault(k)
    \/ \E p \in Pruners : PruneStep(p) \/ FailPrune(p)
    \/ StartApi \/ CrashApi \/ Tick

Spec == Init /\ [][Next]_vars

(***************************************************************************)
(* Processes that are up take their next step, cron starts the prune job   *)
(* every minute, and the clock does not stop.  Nothing is assumed of       *)
(* signals and faults.                                                     *)
(***************************************************************************)
Fairness ==
    /\ \A s \in Sensors : WF_vars(WrapperStep(s))
    /\ \A k \in Keys : WF_vars(HandlerStep(k))
    /\ \A p \in Pruners : WF_vars(PruneStep(p))
    /\ WF_vars(StartApi)
    /\ SF_vars(Tick)

FairSpec == Spec /\ Fairness

-----------------------------------------------------------------------------
(* Safety.                                                                 *)

Complete(k) == k \in db /\ fields[k] = Fields /\ chal[k] = "linked"

\* A wrapper that got its 200 (register/2) has a row with component,
\* configuration, both marks and a linked certificate, unless the row has been
\* deleted since, whatever prune runs and failures did between the handler's
\* statements.
AcknowledgedIsComplete ==
    \A s \in Sensors : pc[s] \in {"running", "await_dereg"} =>
        key[s] \in gone \/ Complete(key[s])

\* A row marked has_registered can be actuated: it has a component and a
\* configuration, and its certificate was signed, though register/2 writes
\* them one by one and may stop in between.
RegisteredIsUsable ==
    \A k \in db : "registered" \in fields[k] =>
        /\ {"component", "configuration"} \subseteq fields[k]
        /\ chal[k] \in {"signed", "linked"}

\* A sensor id has one row, however often the wrapper retries under its id
\* while earlier handlers are still at work.
OneRowPerSensor ==
    \A j, k \in db : owner[j] = owner[k] => j = k

\* Subscribers of the C2 topic hear of a registration and of a deregistration
\* at most once, whoever of deregister/2 and the prune runs removes the row,
\* and hear of the deregistration only when the row is gone.
AnnouncedOnce ==
    \A k \in Keys :
        /\ \A i, j \in 1..Len(c2[k]) : c2[k][i] = c2[k][j] => i = j
        /\ k \in db => \A i \in 1..Len(c2[k]) : c2[k][i] # "deregistration"

\* When requests are answered within the minute, a sensor whose heartbeat
\* task lives keeps its row: prune_old_sensors never removes it.
HealthyKeepsRow ==
    \A s \in Sensors : pc[s] = "running" /\ heartbeat[s] => key[s] \in db

\* When requests are answered within the minute and handlers run to their end,
\* subscribers hear of a registration before they hear of its deregistration.
RegistrationHeardFirst ==
    \A k \in Keys : Len(c2[k]) > 0 => c2[k][1] = "registration"

(***************************************************************************)
(* The inductive invariant behind these: how far a handler has come is how *)
(* much of the row is written, what a wrapper waits for is what its key's  *)
(* handler can answer, and a row has one remover, who announces once.      *)
(***************************************************************************)
Heard(k, m) == \E i \in 1..Len(c2[k]) : c2[k][i] = m

Settled(k) == k \in gone \/ Complete(k)

EarlySteps == {"issue", "challenge", "authsign", "verify", "create"}
RowSteps == ReqSteps \ EarlySteps

\* The columns written before each statement of register/2.
Written(step) ==
    CASE step = "configuration" -> {"component"}
      [] step = "registered"    -> {"component", "configuration"}
      [] step = "certificates"  -> {"component", "configuration", "registered"}
      [] step \in {"link", "announce"} -> Fields
      [] OTHER -> {}

WrapperInv(s) ==
    LET k == key[s]
    IN /\ pc[s] \in Waiting \cup {"running", "await_dereg"} => k \in Keys /\ owner[k] = s
       /\ pc[s] = "await_key" =>
              /\ req[k] \in {"issue"} \cup Answers
              /\ k \notin db \cup gone /\ ~Heard(k, "registration")
       /\ pc[s] = "await_cert" =>
              /\ req[k] \in {"challenge", "authsign"} \cup Answers
              /\ k \notin db \cup gone /\ ~Heard(k, "registration")
              /\ req[k] = "ok" => chal[k] = "signed"
       /\ pc[s] = "await_registration" =>
              /\ req[k] \in {"verify", "create"} \cup RowSteps \cup Answers
              /\ req[k] = "ok" => Settled(k)
       /\ pc[s] \in {"running", "await_dereg"} => req[k] = "idle" /\ Settled(k)

RowInv(k) ==
    /\ k \in db => k \notin gone /\ chal[k] \in {"signed", "linked"}
    /\ k \notin db => fields[k] = {}
    /\ req[k] \in EarlySteps => k \notin db \cup gone
    /\ req[k] \in {"verify", "create"} => chal[k] = "signed"
    /\ req[k] \in RowSteps => k \in db \cup gone
    /\ k \in db => Written(req[k]) \subseteq fields[k]
    /\ k \in db /\ req[k] = "announce" => chal[k] = "linked"
    /\ k \in db /\ "registered" \in fields[k] =>
           {"component", "configuration"} \subseteq fields[k]

RemovalInv(k) ==
    /\ dereg[k] = "announce" => \A p \in Pruners : deleted[p] # k
    /\ \A p, q \in Pruners : deleted[p] = k /\ deleted[q] = k => p = q
    /\ dereg[k] = "announce" \/ (\E p \in Pruners : deleted[p] = k) =>
           k \in gone /\ ~Heard(k, "deregistration")
    /\ Heard(k, "deregistration") => k \in gone
    /\ Heard(k, "registration") => req[k] \notin ReqSteps
    /\ \A i, j \in 1..Len(c2[k]) : c2[k][i] = c2[k][j] => i = j

\* What the theorems rest on, checked here on the small instance.
RegistryInv ==
    /\ \A s \in Sensors : WrapperInv(s)
    /\ \A k \in Keys : RowInv(k) /\ RemovalInv(k)
    /\ OneRowPerSensor

\* The registry implements the abstract life of a registration: what the
\* statements of register/2, deregister/2 and prune_old_sensors do to a row,
\* seen from outside.
Status(k) ==
    IF k \in gone THEN "removed"
    ELSE IF Complete(k) THEN "registered"
    ELSE IF k \in db THEN "pending" ELSE "unused"

Lifecycle == INSTANCE SensorLifecycle
    WITH status <- [k \in Keys |-> Status(k)], holder <- owner, log <- c2

ImplementsLifecycle == Lifecycle!Spec

-----------------------------------------------------------------------------
(* Liveness.                                                               *)

\* A row whose sensor does not come to sync it, or stops to, is removed by
\* prune_old_sensors in the end, half-registered rows included.
UnsyncedRowsRemoved ==
    \A k \in Keys : k \in db ~> k \notin db \/ AwaitsSync(k)

\* A wrapper that sets out to register gets registered, though the row of an
\* earlier attempt may hold its sensor id: that row is pruned in the end.
EventuallyRegistered ==
    \A s \in Sensors : pc[s] = "boot" ~> pc[s] \in {"running", "exited"}

=============================================================================
