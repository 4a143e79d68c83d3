-------------------------- MODULE KernelConnections --------------------------
(***************************************************************************)
(* The socket interface of the Linux kernel controller: the thread that    *)
(* accepts clients, a thread per connected client, and the unloading of    *)
(* the module (control/kernel/controller-interface.c, and the teardown in  *)
(* controller-common.c).                                                   *)
(*                                                                         *)
(* A thread runs one work item at a time; k_accept and k_echo_server queue *)
(* themselves again as their last act.  An action is what a thread does    *)
(* between two accesses to state another thread writes: SHOULD_SHUTDOWN,   *)
(* the semaphores s_lock, the sockets and the lists of k_sensor.           *)
(***************************************************************************)
EXTENDS Naturals, Sequences

CONSTANTS
    Conns,       \* clients, each of which connects at most once
    None,
    AllocFails,  \* kernel memory may run out
    Interrupts   \* the process that unloads the module may get a signal

ASSUME NamesAssumption == None \notin Conns /\ "awaken" \notin Conns
ASSUME FaultsAssumption == AllocFails \in BOOLEAN /\ Interrupts \in BOOLEAN

VARIABLES
    \* the clients
    client,    \* off, connected or closed
    inbox,     \* what the client has sent and nobody has read
    backlog,   \* connects that wait to be accepted
    \* the listener
    lpc,       \* where k_accept is
    newsock,   \* the client it has accepted
    llock,     \* who holds listener.s_lock
    lsock,     \* the listening socket is open
    \* the connections
    wpc,       \* where k_echo_server is
    lock,      \* who holds the connection's s_lock
    sock,      \* the connected socket is open
    flagged,   \* connections with SENSOR_CONNECT set
    linked,    \* k_sensor.connections
    freed,     \* connections whose memory has been freed
    \* the unloading of the module
    shutdown,  \* SHOULD_SHUTDOWN
    cpc,       \* where controller_cleanup is
    target,    \* the connection it destroys
    signalled  \* history: a signal has ended one of its waits for an s_lock

clients  == <<client, inbox, backlog>>
listener == <<lpc, newsock, llock, lsock>>
conns    == <<wpc, lock, sock, flagged, linked, freed>>
cleanup  == <<cpc, target, signalled>>
vars == <<clients, listener, conns, shutdown, cleanup>>

Holders == {"free", "worker"}

\* echo, discover, a session or a request; what is no valid JSON message; and
\* less than the five bytes k_echo_server wants.
Messages == {"message", "invalid", "short"}

TypeOK ==
    /\ client \in [Conns -> {"off", "connected", "closed"}]
    /\ inbox \in [Conns -> {"empty"} \cup Messages]
    /\ backlog \in Seq(Conns \cup {"awaken"})
    /\ lpc \in {"starting", "queued", "accept", "accepted", "link", "start", "requeue",
                "up_queued", "up_idle", "idle", "stopped"}
    /\ newsock \in Conns \cup {"awaken", None}
    /\ llock \in Holders /\ lsock \in BOOLEAN
    /\ wpc \in [Conns -> {"none", "starting", "queued", "peek", "requeue",
                          "up_queued", "up_idle", "idle", "close", "destroy",
                          "flush", "oops", "stopped"}]
    /\ lock \in [Conns -> Holders]
    /\ sock \in [Conns -> BOOLEAN]
    /\ flagged \subseteq Conns /\ linked \subseteq Conns /\ freed \subseteq Conns
    /\ shutdown \in BOOLEAN
    /\ cpc \in {"loaded", "connect", "wait", "listener", "lflush", "conns",
                "del", "destroy", "flush", "unloaded", "oops"}
    /\ target \in Conns \cup {None} /\ signalled \in BOOLEAN

\* socket_interface_init: the listener is bound, its first work item queued,
\* its thread created.
Init ==
    /\ client = [c \in Conns |-> "off"]
    /\ inbox = [c \in Conns |-> "empty"]
    /\ backlog = <<>>
    /\ lpc = "starting" /\ newsock = None /\ llock = "free" /\ lsock = TRUE
    /\ wpc = [c \in Conns |-> "none"]
    /\ lock = [c \in Conns |-> "free"]
    /\ sock = [c \in Conns |-> FALSE]
    /\ flagged = {} /\ linked = {} /\ freed = {}
    /\ shutdown = FALSE
    /\ cpc = "loaded" /\ target = None /\ signalled = FALSE

-----------------------------------------------------------------------------
(* Clients.                                                                *)

\* A client finds the socket by its name, which unloading unlinks.
Connect(c) ==
    /\ client[c] = "off"
    /\ lsock /\ cpc \in {"loaded", "connect", "wait"}
    /\ client' = [client EXCEPT ![c] = "connected"]
    /\ backlog' = Append(backlog, c)
    /\ UNCHANGED <<inbox, listener, conns, shutdown, cleanup>>

Send(c, m) ==
    /\ client[c] = "connected" /\ inbox[c] = "empty"
    /\ inbox' = [inbox EXCEPT ![c] = m]
    /\ UNCHANGED <<client, backlog, listener, conns, shutdown, cleanup>>

Close(c) ==
    /\ client[c] = "connected"
    /\ client' = [client EXCEPT ![c] = "closed"]
    /\ UNCHANGED <<inbox, backlog, listener, conns, shutdown, cleanup>>

-----------------------------------------------------------------------------
(* The listener thread: k_accept.                                          *)

\* The new thread enters kthread_worker_fn, which sets worker->task.
StartListener ==
    /\ lpc = "starting"
    /\ lpc' = "queued"
    /\ UNCHANGED <<clients, newsock, llock, lsock, conns, shutdown, cleanup>>

\* Work is taken from the queue, s_lock is acquired, SHOULD_SHUTDOWN is read.
RunAccept ==
    /\ lpc = "queued" /\ llock = "free"
    /\ llock' = "worker"
    /\ lpc' = IF shutdown THEN "requeue" ELSE "accept"
    /\ UNCHANGED <<clients, newsock, lsock, conns, shutdown, cleanup>>

\* kernel_accept blocks until somebody connects.
Accept ==
    /\ lpc = "accept" /\ backlog # <<>>
    /\ newsock' = Head(backlog)
    /\ backlog' = Tail(backlog)
    /\ lpc' = "accepted"
    /\ UNCHANGED <<client, inbox, llock, lsock, conns, shutdown, cleanup>>

\* kernel_accept fails: k_accept ends without queueing itself.
FailAccept ==
    /\ AllocFails
    /\ lpc = "accept" /\ backlog # <<>>
    /\ lpc' = "up_idle"
    /\ UNCHANGED <<clients, newsock, llock, lsock, conns, shutdown, cleanup>>

\* A connection is made of the new socket unless the module shuts down; if
\* there is no memory for it, k_accept shuts down what can be.
NewConnection ==
    /\ lpc = "accepted"
    /\ \/ /\ lpc' = IF shutdown THEN "requeue" ELSE "link"
          /\ UNCHANGED shutdown
       \/ /\ AllocFails /\ ~shutdown
          /\ shutdown' = TRUE
          /\ lpc' = "requeue"
    /\ UNCHANGED <<clients, newsock, llock, lsock, conns, cleanup>>

\* init_connection, link_new_connection_work: the connection is linked, unless
\* SHOULD_SHUTDOWN has been set meanwhile; then it is forgotten.
LinkNewConnection ==
    /\ lpc = "link"
    /\ sock' = [sock EXCEPT ![newsock] = TRUE]
    /\ flagged' = flagged \cup {newsock}
    /\ IF shutdown
       THEN lpc' = "requeue" /\ UNCHANGED linked
       ELSE lpc' = "start" /\ linked' = linked \cup {newsock}
    /\ UNCHANGED <<clients, newsock, llock, lsock, wpc, lock, freed, shutdown,
                   cleanup>>

\* The rest of it: the work is queued and the connection's thread created.
StartWorker ==
    /\ lpc = "start"
    /\ wpc' = [wpc EXCEPT ![newsock] = "starting"]
    /\ lpc' = "requeue"
    /\ UNCHANGED <<clients, newsock, llock, lsock, lock, sock, flagged, linked,
                   freed, shutdown, cleanup>>

RequeueAccept ==
    /\ lpc = "requeue"
    /\ lpc' = IF shutdown THEN "up_idle" ELSE "up_queued"
    /\ newsock' = None
    /\ UNCHANGED <<clients, llock, lsock, conns, shutdown, cleanup>>

UpAccept ==
    /\ lpc \in {"up_queued", "up_idle"}
    /\ llock' = "free"
    /\ lpc' = IF lpc = "up_queued" THEN "queued" ELSE "idle"
    /\ UNCHANGED <<clients, newsock, lsock, conns, shutdown, cleanup>>

-----------------------------------------------------------------------------
(* The thread of a connection: k_echo_server.                              *)

StartThread(c) ==
    /\ wpc[c] = "starting"
    /\ wpc' = [wpc EXCEPT ![c] = "queued"]
    /\ UNCHANGED <<clients, listener, lock, sock, flagged, linked, freed,
                   shutdown, cleanup>>

\* s_lock is acquired, and with it the socket; without one the read faults.
RunEcho(c) ==
    /\ wpc[c] = "queued" /\ lock[c] = "free"
    /\ lock' = [lock EXCEPT ![c] = "worker"]
    /\ wpc' = [wpc EXCEPT ![c] = IF sock[c] THEN "peek" ELSE "oops"]
    /\ UNCHANGED <<clients, listener, sock, flagged, linked, freed, shutdown,
                   cleanup>>

\* The read blocks until there is something to read.  What was sent is
\* answered; what is no valid message closes the connection, s_lock released.
Echo(c) ==
    /\ wpc[c] = "peek" /\ inbox[c] \in {"message", "invalid"}
    /\ inbox' = [inbox EXCEPT ![c] = "empty"]
    /\ IF inbox[c] = "message"
       THEN wpc' = [wpc EXCEPT ![c] = "requeue"] /\ UNCHANGED lock
       ELSE /\ wpc' = [wpc EXCEPT ![c] = "close"]
            /\ lock' = [lock EXCEPT ![c] = "free"]
    /\ UNCHANGED <<client, backlog, listener, sock, flagged, linked, freed,
                   shutdown, cleanup>>

\* The client has closed its end, or sent too little: on to close_out, with
\* s_lock held.
EndOfStream(c) ==
    /\ wpc[c] = "peek"
    /\ \/ inbox[c] = "empty" /\ client[c] = "closed"
       \/ inbox[c] = "short"
    /\ wpc' = [wpc EXCEPT ![c] = "close"]
    /\ UNCHANGED <<clients, listener, lock, sock, flagged, linked, freed,
                   shutdown, cleanup>>

\* No memory for the read buffer (SENSOR_CONNECT is cleared) or for the
\* message: the same.
FailEcho(c) ==
    /\ AllocFails
    /\ wpc[c] = "peek" /\ inbox[c] \in {"message", "invalid"}
    /\ wpc' = [wpc EXCEPT ![c] = "close"]
    /\ \/ flagged' = flagged \ {c} /\ UNCHANGED inbox
       \/ inbox' = [inbox EXCEPT ![c] = "empty"] /\ UNCHANGED flagged
    /\ UNCHANGED <<client, backlog, listener, lock, sock, linked, freed,
                   shutdown, cleanup>>

\* Mutant: k_echo_server serves one request.
RequeueEchoNever(c) ==
    /\ wpc[c] = "requeue"
    /\ wpc' = [wpc EXCEPT ![c] = "up_idle"]
    /\ UNCHANGED <<clients, listener, lock, sock, flagged, linked, freed,
                   shutdown, cleanup>>

RequeueEcho(c) ==
    /\ wpc[c] = "requeue"
    /\ wpc' = [wpc EXCEPT ![c] = IF shutdown THEN "up_idle" ELSE "up_queued"]
    /\ UNCHANGED <<clients, listener, lock, sock, flagged, linked, freed,
                   shutdown, cleanup>>

UpEcho(c) ==
    /\ wpc[c] \in {"up_queued", "up_idle"}
    /\ wpc' = [wpc EXCEPT ![c] = IF @ = "up_queued" THEN "queued" ELSE "idle"]
    /\ lock' = [lock EXCEPT ![c] = "free"]
    /\ UNCHANGED <<clients, listener, sock, flagged, linked, freed, shutdown,
                   cleanup>>

\* close_out: the connection is taken off the list; list_del_rcu of an entry
\* that is off it already faults on the poisoned pointer ...
Unlink(c) ==
    /\ wpc[c] = "close"
    /\ wpc' = [wpc EXCEPT ![c] = IF c \in linked THEN "destroy" ELSE "oops"]
    /\ linked' = linked \ {c}
    /\ UNCHANGED <<clients, listener, lock, sock, flagged, freed, shutdown,
                   cleanup>>

\* ... and destroys itself: destroy_connection acquires s_lock, releases the
\* socket, and flushes the worker whose thread it runs on, which waits for
\* this work to end.
DestroySelf(c) ==
    /\ wpc[c] = "destroy" /\ lock[c] = "free"
    /\ sock' = [sock EXCEPT ![c] = FALSE]
    /\ wpc' = [wpc EXCEPT ![c] = "flush"]
    /\ UNCHANGED <<clients, listener, lock, flagged, linked, freed, shutdown,
                   cleanup>>

-----------------------------------------------------------------------------
(* Unloading the module: controller_cleanup.                               *)

Cleanup ==
    /\ cpc = "loaded"
    /\ shutdown' = TRUE
    /\ cpc' = "connect"
    /\ UNCHANGED <<clients, listener, conns, target, signalled>>

\* awaken_accept_thread: a connect wakes kernel_accept.  Without a socket to
\* connect with, the listener is not waited for either.
AwakenAcceptThread ==
    /\ cpc = "connect"
    /\ \/ backlog' = Append(backlog, "awaken") /\ cpc' = "wait"
       \/ AllocFails /\ cpc' = "listener" /\ UNCHANGED backlog
    /\ UNCHANGED <<client, inbox, listener, conns, shutdown, target, signalled>>

\* down_interruptible and up: the wait for the listener, which a signal ends;
\* then the name of the socket is unlinked.
WaitForListener ==
    /\ cpc = "wait"
    /\ cpc' = "listener"
    /\ \/ llock = "free" /\ UNCHANGED signalled
       \/ llock # "free" /\ Interrupts /\ signalled' = TRUE
    /\ UNCHANGED <<clients, listener, conns, shutdown, target>>

\* Mutant: down_trylock instead of down_interruptible.
DestroyListenerTry ==
    /\ cpc = "listener"
    /\ \/ llock = "free" /\ lsock' = FALSE /\ cpc' = "lflush"
       \/ llock # "free" /\ cpc' = "conns" /\ UNCHANGED lsock
    /\ UNCHANGED <<clients, lpc, newsock, llock, conns, shutdown, target, signalled>>

\* destroy_kernel_sensor, the listener: destroy_connection releases the socket
\* under s_lock, or returns at once when a signal ends the wait for it.
DestroyListener ==
    /\ cpc = "listener"
    /\ \/ /\ llock = "free"
          /\ lsock' = FALSE /\ cpc' = "lflush"
          /\ UNCHANGED signalled
       \/ /\ llock # "free" /\ Interrupts
          /\ signalled' = TRUE /\ cpc' = "conns"
          /\ UNCHANGED lsock
    /\ UNCHANGED <<clients, lpc, newsock, llock, conns, shutdown, target>>

\* controller_destroy_worker: flush the work, stop the thread.  Of a thread
\* that has not begun there is no worker->task yet, and it is left alone.
StopListener ==
    /\ cpc = "lflush" /\ lpc \in {"idle", "starting"}
    /\ lpc' = IF lpc = "idle" THEN "stopped" ELSE "starting"
    /\ cpc' = "conns"
    /\ UNCHANGED <<clients, newsock, llock, lsock, conns, shutdown, target, signalled>>

\* The connections, one after the other; the order is left open.
FirstConnection ==
    /\ cpc = "conns"
    /\ IF linked = {}
       THEN cpc' = "unloaded" /\ UNCHANGED target
       ELSE cpc' = "del" /\ target' \in linked
    /\ UNCHANGED <<clients, listener, conns, shutdown, signalled>>

UnlinkTarget ==
    /\ cpc = "del"
    /\ linked' = linked \ {target}
    /\ cpc' = IF target \notin linked THEN "oops"
              ELSE IF target \in flagged THEN "destroy" ELSE "conns"
    /\ UNCHANGED <<clients, listener, wpc, lock, sock, flagged, freed, shutdown,
                   target, signalled>>

\* Mutant: the socket is released without s_lock.
DestroyTargetUnlocked ==
    /\ cpc = "destroy"
    /\ sock' = [sock EXCEPT ![target] = FALSE]
    /\ cpc' = "flush"
    /\ UNCHANGED <<clients, listener, wpc, lock, flagged, linked, freed,
                   shutdown, target, signalled>>

\* destroy_connection, as for the listener; its caller frees the connection
\* when it returns, in either case.
DestroyTarget ==
    /\ cpc = "destroy"
    /\ \/ /\ lock[target] = "free"
          /\ sock' = [sock EXCEPT ![target] = FALSE]
          /\ cpc' = "flush"
          /\ UNCHANGED <<freed, signalled>>
       \/ /\ lock[target] # "free" /\ Interrupts
          /\ signalled' = TRUE
          /\ freed' = freed \cup {target}
          /\ cpc' = "conns"
          /\ UNCHANGED sock
    /\ UNCHANGED <<clients, listener, wpc, lock, flagged, linked, shutdown,
                   target>>

\* Mutant: the thread is told to stop and not waited for.
StopTargetLater ==
    /\ cpc = "flush"
    /\ freed' = freed \cup {target}
    /\ cpc' = "conns"
    /\ UNCHANGED <<clients, listener, wpc, lock, sock, flagged, linked,
                   shutdown, target, signalled>>

\* The same; a connection without SENSOR_HAS_WORK has no thread to stop.
StopTarget ==
    /\ cpc = "flush" /\ wpc[target] \in {"idle", "none", "starting"}
    /\ wpc' = [wpc EXCEPT ![target] = IF @ = "idle" THEN "stopped" ELSE @]
    /\ freed' = freed \cup {target}
    /\ cpc' = "conns"
    /\ UNCHANGED <<clients, listener, lock, sock, flagged, linked, shutdown,
                   target, signalled>>

-----------------------------------------------------------------------------
(* What a thread does whose code has been unloaded or whose connection has *)
(* been freed or cleared is undefined, and not followed any further.       *)

ListenerStep ==
    /\ cpc # "unloaded" /\ (lsock \/ cpc = "lflush")
    /\ \/ StartListener \/ RunAccept \/ Accept \/ FailAccept \/ NewConnection
       \/ LinkNewConnection \/ StartWorker \/ RequeueAccept \/ UpAccept

WorkerStep(c) ==
    /\ cpc # "unloaded" /\ c \notin freed
    /\ \/ StartThread(c) \/ RunEcho(c) \/ Echo(c) \/ EndOfStream(c) \/ FailEcho(c)
       \/ RequeueEcho(c) \/ UpEcho(c) \/ Unlink(c) \/ DestroySelf(c)

CleanupStep ==
    \/ AwakenAcceptThread \/ WaitForListener \/ DestroyListener \/ StopListener
    \/ FirstConnection \/ UnlinkTarget \/ DestroyTarget \/ StopTarget

Next ==
    \/ \E c \in Conns :
           \/ Connect(c) \/ Close(c)
           \/ \E m \in Messages : Send(c, m)
           \/ WorkerStep(c)
    \/ ListenerStep
    \/ Cleanup \/ CleanupStep

Spec == Init /\ [][Next]_vars

\* Kernel threads that can run do; clients may be silent for ever.
Fairness ==
    /\ WF_vars(ListenerStep) /\ WF_vars(CleanupStep)
    /\ \A c \in Conns : WF_vars(WorkerStep(c))

FairSpec == Spec /\ Fairness

-----------------------------------------------------------------------------
(* Properties.                                                             *)

\* Nobody releases a socket that a thread is blocked on: k_accept in kernel_accept,
\* k_echo_server in its read, whenever the module is unloaded and signals included.
BlocksOnOpenSocket ==
    /\ lpc \in {"accept", "accepted"} => lsock
    /\ \A c \in Conns : wpc[c] = "peek" => sock[c]

\* When destroy_kernel_sensor turns to the connections no more are added: one
\* that k_accept was about to link has been linked, or is given up.  A signal
\* that ends the wait for the listener voids this.
NoLateConnection ==
    ~signalled /\ cpc \in {"conns", "del", "destroy", "flush", "unloaded"} =>
        lpc \notin {"accept", "accepted", "link", "start"}

\* Of a thread that has begun its work, the connection is freed only when the
\* thread has stopped, unless a signal ended the wait for it.
FreedIsStopped ==
    ~signalled => \A c \in freed : wpc[c] \in {"none", "starting", "stopped"}

\* While the module is in use, what a client sends is read, however many
\* clients come and however many requests each sends, unless the connection is
\* being closed, because of what was sent or for want of memory, or kernel_accept
\* has failed, after which k_accept does not come back.
SentIsRead ==
    \A c \in Conns :
        inbox[c] # "empty" ~>
            \/ inbox[c] = "empty" \/ shutdown \/ lpc \in {"up_idle", "idle"}
            \/ wpc[c] \in {"close", "destroy", "flush"}

-----------------------------------------------------------------------------
(* What the documentation and the assertions say and the code does not do. *)

\* "When the client closes the protocol, the connection kills itself"
\* (sensor-interface.md), even while nobody unloads the module.
ClosedIsDestroyed ==
    \A c \in Conns : wpc[c] = "close" ~> c \in freed \/ shutdown

=============================================================================
