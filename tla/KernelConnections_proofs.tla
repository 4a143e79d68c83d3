----------------------- MODULE KernelConnections_proofs -----------------------
(***************************************************************************)
(* Proofs about KernelConnections, for any number of clients, with and     *)
(* without failing allocations and signals.                                *)
(***************************************************************************)
EXTENDS KernelConnections, TLAPS

\* k_accept holds listener.s_lock from down_interruptible to up, and what it
\* works on is a client or, once the module shuts down, the connect that wakes
\* it.
ListenerInv ==
    /\ lpc \in {"accept", "accepted", "link", "start", "requeue", "up_queued",
                "up_idle"} => llock = "worker"
    /\ lpc \in {"accept", "accepted"} => lsock
    /\ shutdown \/ backlog \in Seq(Conns)
    /\ lpc = "accepted" => newsock \in Conns \/ shutdown
    /\ lpc \in {"link", "start"} => newsock \in Conns

\* k_echo_server holds the connection's s_lock while it uses the socket.
WorkerInv ==
    \A c \in Conns :
        /\ wpc[c] \in {"peek", "requeue", "up_queued", "up_idle"} => lock[c] = "worker"
        /\ wpc[c] = "peek" => sock[c]

\* The listening socket is released by controller_cleanup alone, after it has
\* set SHOULD_SHUTDOWN; past the flush, k_accept does not run any more.
CleanupInv ==
    /\ cpc # "loaded" => shutdown
    /\ ~lsock => shutdown
    /\ cpc = "lflush" => ~lsock
    /\ cpc \in {"del", "destroy", "flush"} => target \in Conns
    /\ ~signalled /\ cpc \in {"conns", "del", "destroy", "flush", "unloaded"} =>
           ~lsock /\ lpc \in {"idle", "stopped", "starting"}

KernelInv == TypeOK /\ ListenerInv /\ WorkerInv /\ CleanupInv /\ FreedIsStopped

-----------------------------------------------------------------------------
(* Each step keeps the invariant.                                          *)

\* A step of k_accept keeps the invariant.
LEMMA ListenerKeepsInv == KernelInv /\ ListenerStep => KernelInv'
<1> SUFFICES ASSUME KernelInv, ListenerStep PROVE KernelInv'
  OBVIOUS
<1>0. cpc # "unloaded" /\ (lsock \/ cpc = "lflush")
  BY DEF ListenerStep
<1> USE <1>0, NamesAssumption DEF KernelInv, clients, listener, conns, cleanup
<1>1. ASSUME StartListener PROVE KernelInv'
  <2>1. TypeOK'
    BY <1>1 DEF StartListener, TypeOK, Holders, Messages
  <2>2. ListenerInv'
    BY <1>1 DEF StartListener, ListenerInv
  <2>3. WorkerInv'
    BY <1>1 DEF StartListener, WorkerInv
  <2>4. CleanupInv'
    BY <1>1 DEF StartListener, CleanupInv
  <2>5. FreedIsStopped'
    BY <1>1 DEF StartListener, FreedIsStopped
  <2> QED  BY <2>1, <2>2, <2>3, <2>4, <2>5 DEF KernelInv
<1>2. ASSUME RunAccept PROVE KernelInv'
  <2>1. TypeOK'
    BY <1>2 DEF RunAccept, TypeOK, Holders, Messages
  <2>2. ListenerInv'
    BY <1>2 DEF RunAccept, ListenerInv, CleanupInv, TypeOK
  <2>3. WorkerInv'
    BY <1>2 DEF RunAccept, WorkerInv
  <2>4. CleanupInv'
    BY <1>2 DEF RunAccept, CleanupInv
  <2>5. FreedIsStopped'
    BY <1>2 DEF RunAccept, FreedIsStopped
  <2> QED  BY <2>1, <2>2, <2>3, <2>4, <2>5 DEF KernelInv
<1>3. ASSUME Accept PROVE KernelInv'
  <2>1. TypeOK'
    BY <1>3 DEF Accept, TypeOK, Holders, Messages
  <2>2. ListenerInv'
    BY <1>3 DEF Accept, ListenerInv
  <2>3. WorkerInv'
    BY <1>3 DEF Accept, WorkerInv
  <2>4. CleanupInv'
    BY <1>3 DEF Accept, CleanupInv
  <2>5. FreedIsStopped'
    BY <1>3 DEF Accept, FreedIsStopped
  <2> QED  BY <2>1, <2>2, <2>3, <2>4, <2>5 DEF KernelInv
<1>4. ASSUME FailAccept PROVE KernelInv'
  <2>1. TypeOK'
    BY <1>4 DEF FailAccept, TypeOK, Holders, Messages
  <2>2. ListenerInv'
    BY <1>4 DEF FailAccept, ListenerInv
  <2>3. WorkerInv'
    BY <1>4 DEF FailAccept, WorkerInv
  <2>4. CleanupInv'
    BY <1>4 DEF FailAccept, CleanupInv
  <2>5. FreedIsStopped'
    BY <1>4 DEF FailAccept, FreedIsStopped
  <2> QED  BY <2>1, <2>2, <2>3, <2>4, <2>5 DEF KernelInv
<1>5. ASSUME NewConnection PROVE KernelInv'
  <2>1. TypeOK'
    BY <1>5, ZenonT(60) DEF NewConnection, TypeOK, Holders, Messages
  <2>2. ListenerInv'
    BY <1>5 DEF NewConnection, ListenerInv
  <2>3. WorkerInv'
    BY <1>5 DEF NewConnection, WorkerInv
  <2>4. CleanupInv'
    BY <1>5 DEF NewConnection, CleanupInv
  <2>5. FreedIsStopped'
    BY <1>5 DEF NewConnection, FreedIsStopped
  <2> QED  BY <2>1, <2>2, <2>3, <2>4, <2>5 DEF KernelInv
<1>6. ASSUME LinkNewConnection PROVE KernelInv'
  <2>1. TypeOK'
    BY <1>6 DEF LinkNewConnection, TypeOK, ListenerInv, Holders, Messages
  <2>2. ListenerInv'
    BY <1>6 DEF LinkNewConnection, ListenerInv
  <2>3. WorkerInv'
    BY <1>6 DEF LinkNewConnection, WorkerInv
  <2>4. CleanupInv'
    BY <1>6 DEF LinkNewConnection, CleanupInv
  <2>5. FreedIsStopped'
    BY <1>6 DEF LinkNewConnection, FreedIsStopped
  <2> QED  BY <2>1, <2>2, <2>3, <2>4, <2>5 DEF KernelInv
<1>7. ASSUME StartWorker PROVE KernelInv'
  <2>1. TypeOK'
    BY <1>7, ZenonT(60) DEF StartWorker, TypeOK, Holders, Messages
  <2>2. ListenerInv'
    BY <1>7 DEF StartWorker, ListenerInv
  <2>3. WorkerInv'
    BY <1>7 DEF StartWorker, WorkerInv
  <2>4. CleanupInv'
    BY <1>7 DEF StartWorker, CleanupInv
  <2>5. FreedIsStopped'
    BY <1>7 DEF StartWorker, FreedIsStopped
  <2> QED  BY <2>1, <2>2, <2>3, <2>4, <2>5 DEF KernelInv
<1>8. ASSUME RequeueAccept PROVE KernelInv'
  <2>1. TypeOK'
    BY <1>8 DEF RequeueAccept, TypeOK, Holders, Messages
  <2>2. ListenerInv'
    BY <1>8 DEF RequeueAccept, ListenerInv
  <2>3. WorkerInv'
    BY <1>8 DEF RequeueAccept, WorkerInv
  <2>4. CleanupInv'
    BY <1>8 DEF RequeueAccept, CleanupInv
  <2>5. FreedIsStopped'
    BY <1>8 DEF RequeueAccept, FreedIsStopped
  <2> QED  BY <2>1, <2>2, <2>3, <2>4, <2>5 DEF KernelInv
<1>9. ASSUME UpAccept PROVE KernelInv'
  <2>1. TypeOK'
    BY <1>9 DEF UpAccept, TypeOK, Holders, Messages
  <2>2. ListenerInv'
    BY <1>9 DEF UpAccept, ListenerInv
  <2>3. WorkerInv'
    BY <1>9 DEF UpAccept, WorkerInv
  <2>4. CleanupInv'
    BY <1>9 DEF UpAccept, CleanupInv
  <2>5. FreedIsStopped'
    BY <1>9 DEF UpAccept, FreedIsStopped
  <2> QED  BY <2>1, <2>2, <2>3, <2>4, <2>5 DEF KernelInv
<1> QED  BY <1>1, <1>2, <1>3, <1>4, <1>5, <1>6, <1>7, <1>8, <1>9 DEF ListenerStep

\* A step of k_echo_server keeps it.
LEMMA WorkerKeepsInv == \A c \in Conns : KernelInv /\ WorkerStep(c) => KernelInv'
<1> SUFFICES ASSUME NEW c \in Conns, KernelInv, WorkerStep(c) PROVE KernelInv'
  OBVIOUS
<1>0. c \notin freed
  BY DEF WorkerStep
<1> USE <1>0, NamesAssumption DEF KernelInv, clients, listener, conns, cleanup
<1>1. ASSUME StartThread(c) PROVE KernelInv'
  <2>1. TypeOK'
    BY <1>1 DEF StartThread, TypeOK, Holders, Messages
  <2>2. ListenerInv'
    BY <1>1 DEF StartThread, ListenerInv
  <2>3. WorkerInv'
    BY <1>1 DEF StartThread, WorkerInv
  <2>4. CleanupInv'
    BY <1>1 DEF StartThread, CleanupInv
  <2>5. FreedIsStopped'
    BY <1>1 DEF StartThread, FreedIsStopped
  <2> QED  BY <2>1, <2>2, <2>3, <2>4, <2>5 DEF KernelInv
<1>2. ASSUME RunEcho(c) PROVE KernelInv'
  <2>1. TypeOK'
    BY <1>2 DEF RunEcho, TypeOK, Holders, Messages
  <2>2. ListenerInv'
    BY <1>2 DEF RunEcho, ListenerInv
  <2>3. WorkerInv'
    BY <1>2 DEF RunEcho, WorkerInv, TypeOK
  <2>4. CleanupInv'
    BY <1>2 DEF RunEcho, CleanupInv
  <2>5. FreedIsStopped'
    BY <1>2 DEF RunEcho, FreedIsStopped
  <2> QED  BY <2>1, <2>2, <2>3, <2>4, <2>5 DEF KernelInv
<1>3. ASSUME Echo(c) PROVE KernelInv'
  <2>1. TypeOK'
    BY <1>3 DEF Echo, TypeOK, Holders, Messages
  <2>2. ListenerInv'
    BY <1>3 DEF Echo, ListenerInv
  <2>3. WorkerInv'
    BY <1>3 DEF Echo, WorkerInv, TypeOK
  <2>4. CleanupInv'
    BY <1>3 DEF Echo, CleanupInv
  <2>5. FreedIsStopped'
    BY <1>3 DEF Echo, FreedIsStopped, TypeOK
  <2> QED  BY <2>1, <2>2, <2>3, <2>4, <2>5 DEF KernelInv
<1>4. ASSUME EndOfStream(c) PROVE KernelInv'
  <2>1. TypeOK'
    BY <1>4 DEF EndOfStream, TypeOK, Holders, Messages
  <2>2. ListenerInv'
    BY <1>4 DEF EndOfStream, ListenerInv
  <2>3. WorkerInv'
    BY <1>4 DEF EndOfStream, WorkerInv
  <2>4. CleanupInv'
    BY <1>4 DEF EndOfStream, CleanupInv
  <2>5. FreedIsStopped'
    BY <1>4 DEF EndOfStream, FreedIsStopped
  <2> QED  BY <2>1, <2>2, <2>3, <2>4, <2>5 DEF KernelInv
<1>5. ASSUME FailEcho(c) PROVE KernelInv'
  <2>1. TypeOK'
    BY <1>5 DEF FailEcho, TypeOK, Holders, Messages
  <2>2. ListenerInv'
    BY <1>5 DEF FailEcho, ListenerInv
  <2>3. WorkerInv'
    BY <1>5 DEF FailEcho, WorkerInv
  <2>4. CleanupInv'
    BY <1>5 DEF FailEcho, CleanupInv
  <2>5. FreedIsStopped'
    BY <1>5 DEF FailEcho, FreedIsStopped
  <2> QED  BY <2>1, <2>2, <2>3, <2>4, <2>5 DEF KernelInv
<1>6. ASSUME RequeueEcho(c) PROVE KernelInv'
  <2>1. TypeOK'
    BY <1>6 DEF RequeueEcho, TypeOK, Holders, Messages
  <2>2. ListenerInv'
    BY <1>6 DEF RequeueEcho, ListenerInv
  <2>3. WorkerInv'
    BY <1>6 DEF RequeueEcho, WorkerInv
  <2>4. CleanupInv'
    BY <1>6 DEF RequeueEcho, CleanupInv
  <2>5. FreedIsStopped'
    BY <1>6 DEF RequeueEcho, FreedIsStopped
  <2> QED  BY <2>1, <2>2, <2>3, <2>4, <2>5 DEF KernelInv
<1>7. ASSUME UpEcho(c) PROVE KernelInv'
  <2>1. TypeOK'
    BY <1>7 DEF UpEcho, TypeOK, Holders, Messages
  <2>2. ListenerInv'
    BY <1>7 DEF UpEcho, ListenerInv
  <2>3. WorkerInv'
    BY <1>7 DEF UpEcho, WorkerInv, TypeOK
  <2>4. CleanupInv'
    BY <1>7 DEF UpEcho, CleanupInv
  <2>5. FreedIsStopped'
    BY <1>7 DEF UpEcho, FreedIsStopped
  <2> QED  BY <2>1, <2>2, <2>3, <2>4, <2>5 DEF KernelInv
<1>8. ASSUME Unlink(c) PROVE KernelInv'
  <2>1. TypeOK'
    BY <1>8 DEF Unlink, TypeOK, Holders, Messages
  <2>2. ListenerInv'
    BY <1>8 DEF Unlink, ListenerInv
  <2>3. WorkerInv'
    BY <1>8 DEF Unlink, WorkerInv
  <2>4. CleanupInv'
    BY <1>8 DEF Unlink, CleanupInv
  <2>5. FreedIsStopped'
    BY <1>8 DEF Unlink, FreedIsStopped
  <2> QED  BY <2>1, <2>2, <2>3, <2>4, <2>5 DEF KernelInv
<1>9. ASSUME DestroySelf(c) PROVE KernelInv'
  <2>1. TypeOK'
    BY <1>9 DEF DestroySelf, TypeOK, Holders, Messages
  <2>2. ListenerInv'
    BY <1>9 DEF DestroySelf, ListenerInv
  <2>3. WorkerInv'
    BY <1>9 DEF DestroySelf, WorkerInv
  <2>4. CleanupInv'
    BY <1>9 DEF DestroySelf, CleanupInv
  <2>5. FreedIsStopped'
    BY <1>9 DEF DestroySelf, FreedIsStopped
  <2> QED  BY <2>1, <2>2, <2>3, <2>4, <2>5 DEF KernelInv
<1> QED  BY <1>1, <1>2, <1>3, <1>4, <1>5, <1>6, <1>7, <1>8, <1>9 DEF WorkerStep

\* A step of controller_cleanup keeps it.
LEMMA CleanupKeepsInv == KernelInv /\ (Cleanup \/ CleanupStep) => KernelInv'
<1> SUFFICES ASSUME KernelInv, Cleanup \/ CleanupStep PROVE KernelInv'
  OBVIOUS
<1> USE NamesAssumption DEF KernelInv, clients, listener, conns, cleanup
<1>1. ASSUME Cleanup PROVE KernelInv'
  <2>1. TypeOK'
    BY <1>1 DEF Cleanup, TypeOK, Holders, Messages
  <2>2. ListenerInv'
    BY <1>1 DEF Cleanup, ListenerInv
  <2>3. WorkerInv'
    BY <1>1 DEF Cleanup, WorkerInv
  <2>4. CleanupInv'
    BY <1>1 DEF Cleanup, CleanupInv
  <2>5. FreedIsStopped'
    BY <1>1 DEF Cleanup, FreedIsStopped
  <2> QED  BY <2>1, <2>2, <2>3, <2>4, <2>5 DEF KernelInv
<1>2. ASSUME AwakenAcceptThread PROVE KernelInv'
  <2>1. TypeOK'
    BY <1>2, SMTT(30) DEF AwakenAcceptThread, TypeOK, Holders, Messages
  <2>2. ListenerInv'
    BY <1>2 DEF AwakenAcceptThread, ListenerInv, CleanupInv, TypeOK
  <2>3. WorkerInv'
    BY <1>2 DEF AwakenAcceptThread, WorkerInv
  <2>4. CleanupInv'
    BY <1>2 DEF AwakenAcceptThread, CleanupInv
  <2>5. FreedIsStopped'
    BY <1>2 DEF AwakenAcceptThread, FreedIsStopped
  <2> QED  BY <2>1, <2>2, <2>3, <2>4, <2>5 DEF KernelInv
<1>3. ASSUME WaitForListener PROVE KernelInv'
  <2>1. TypeOK'
    BY <1>3, ZenonT(60) DEF WaitForListener, TypeOK, Holders, Messages
  <2>2. ListenerInv'
    BY <1>3 DEF WaitForListener, ListenerInv
  <2>3. WorkerInv'
    BY <1>3 DEF WaitForListener, WorkerInv
  <2>4. CleanupInv'
    BY <1>3 DEF WaitForListener, CleanupInv
  <2>5. FreedIsStopped'
    BY <1>3 DEF WaitForListener, FreedIsStopped
  <2> QED  BY <2>1, <2>2, <2>3, <2>4, <2>5 DEF KernelInv
<1>4. ASSUME DestroyListener PROVE KernelInv'
  <2>1. TypeOK'
    BY <1>4, ZenonT(60) DEF DestroyListener, TypeOK, Holders, Messages
  <2>2. ListenerInv'
    BY <1>4 DEF DestroyListener, ListenerInv
  <2>3. WorkerInv'
    BY <1>4 DEF DestroyListener, WorkerInv
  <2>4. CleanupInv'
    BY <1>4 DEF DestroyListener, CleanupInv
  <2>5. FreedIsStopped'
    BY <1>4 DEF DestroyListener, FreedIsStopped
  <2> QED  BY <2>1, <2>2, <2>3, <2>4, <2>5 DEF KernelInv
<1>5. ASSUME StopListener PROVE KernelInv'
  <2>1. TypeOK'
    BY <1>5 DEF StopListener, TypeOK, Holders, Messages
  <2>2. ListenerInv'
    BY <1>5 DEF StopListener, ListenerInv
  <2>3. WorkerInv'
    BY <1>5 DEF StopListener, WorkerInv
  <2>4. CleanupInv'
    BY <1>5 DEF StopListener, CleanupInv
  <2>5. FreedIsStopped'
    BY <1>5 DEF StopListener, FreedIsStopped
  <2> QED  BY <2>1, <2>2, <2>3, <2>4, <2>5 DEF KernelInv
<1>6. ASSUME FirstConnection PROVE KernelInv'
  <2>1. TypeOK'
    BY <1>6 DEF FirstConnection, TypeOK, Holders, Messages
  <2>2. ListenerInv'
    BY <1>6 DEF FirstConnection, ListenerInv
  <2>3. WorkerInv'
    BY <1>6 DEF FirstConnection, WorkerInv
  <2>4. CleanupInv'
    BY <1>6 DEF FirstConnection, CleanupInv, TypeOK
  <2>5. FreedIsStopped'
    BY <1>6 DEF FirstConnection, FreedIsStopped
  <2> QED  BY <2>1, <2>2, <2>3, <2>4, <2>5 DEF KernelInv
<1>7. ASSUME UnlinkTarget PROVE KernelInv'
  <2>1. TypeOK'
    BY <1>7 DEF UnlinkTarget, TypeOK, Holders, Messages
  <2>2. ListenerInv'
    BY <1>7 DEF UnlinkTarget, ListenerInv
  <2>3. WorkerInv'
    BY <1>7 DEF UnlinkTarget, WorkerInv
  <2>4. CleanupInv'
    BY <1>7 DEF UnlinkTarget, CleanupInv
  <2>5. FreedIsStopped'
    BY <1>7 DEF UnlinkTarget, FreedIsStopped
  <2> QED  BY <2>1, <2>2, <2>3, <2>4, <2>5 DEF KernelInv
<1>8. ASSUME DestroyTarget PROVE KernelInv'
  <2>1. TypeOK'
    BY <1>8, ZenonT(60) DEF DestroyTarget, TypeOK, CleanupInv, Holders, Messages
  <2>2. ListenerInv'
    BY <1>8 DEF DestroyTarget, ListenerInv
  <2>3. WorkerInv'
    BY <1>8 DEF DestroyTarget, WorkerInv, TypeOK, CleanupInv
  <2>4. CleanupInv'
    BY <1>8 DEF DestroyTarget, CleanupInv
  <2>5. FreedIsStopped'
    BY <1>8 DEF DestroyTarget, FreedIsStopped
  <2> QED  BY <2>1, <2>2, <2>3, <2>4, <2>5 DEF KernelInv
<1>9. ASSUME StopTarget PROVE KernelInv'
  <2>1. TypeOK'
    BY <1>9 DEF StopTarget, TypeOK, CleanupInv, Holders, Messages
  <2>2. ListenerInv'
    BY <1>9 DEF StopTarget, ListenerInv
  <2>3. WorkerInv'
    BY <1>9 DEF StopTarget, WorkerInv
  <2>4. CleanupInv'
    BY <1>9 DEF StopTarget, CleanupInv
  <2>5. FreedIsStopped'
    BY <1>9 DEF StopTarget, FreedIsStopped, TypeOK, CleanupInv
  <2> QED  BY <2>1, <2>2, <2>3, <2>4, <2>5 DEF KernelInv
<1> QED  BY <1>1, <1>2, <1>3, <1>4, <1>5, <1>6, <1>7, <1>8, <1>9 DEF CleanupStep

\* A client, and a step of somebody else, keeps it.
LEMMA ClientKeepsInv == ASSUME KernelInv,
           \/ \E c \in Conns : Connect(c) \/ Close(c) \/ \E m \in Messages : Send(c, m)
           \/ UNCHANGED vars
    PROVE  KernelInv'
<1> USE NamesAssumption DEF KernelInv, clients, listener, conns, cleanup
<1>1. ASSUME NEW c \in Conns, Connect(c) PROVE KernelInv'
  <2>1. TypeOK'
    BY <1>1 DEF Connect, TypeOK, Holders, Messages
  <2>2. ListenerInv'
    BY <1>1 DEF Connect, ListenerInv
  <2>3. WorkerInv'
    BY <1>1 DEF Connect, WorkerInv
  <2>4. CleanupInv'
    BY <1>1 DEF Connect, CleanupInv
  <2>5. FreedIsStopped'
    BY <1>1 DEF Connect, FreedIsStopped
  <2> QED  BY <2>1, <2>2, <2>3, <2>4, <2>5 DEF KernelInv
<1>2. ASSUME NEW c \in Conns, Close(c) PROVE KernelInv'
  <2>1. TypeOK'
    BY <1>2 DEF Close, TypeOK, Holders, Messages
  <2>2. ListenerInv'
    BY <1>2 DEF Close, ListenerInv
  <2>3. WorkerInv'
    BY <1>2 DEF Close, WorkerInv
  <2>4. CleanupInv'
    BY <1>2 DEF Close, CleanupInv
  <2>5. FreedIsStopped'
    BY <1>2 DEF Close, FreedIsStopped
  <2> QED  BY <2>1, <2>2, <2>3, <2>4, <2>5 DEF KernelInv
<1>3. ASSUME NEW c \in Conns, NEW m \in Messages, Send(c, m) PROVE KernelInv'
  <2>1. TypeOK'
    BY <1>3 DEF Send, TypeOK, Holders, Messages
  <2>2. ListenerInv'
    BY <1>3 DEF Send, ListenerInv
  <2>3. WorkerInv'
    BY <1>3 DEF Send, WorkerInv
  <2>4. CleanupInv'
    BY <1>3 DEF Send, CleanupInv
  <2>5. FreedIsStopped'
    BY <1>3 DEF Send, FreedIsStopped
  <2> QED  BY <2>1, <2>2, <2>3, <2>4, <2>5 DEF KernelInv
<1>4. ASSUME UNCHANGED vars PROVE KernelInv'
  <2>1. TypeOK'
    BY <1>4 DEF vars, TypeOK, Holders, Messages
  <2>2. ListenerInv'
    BY <1>4 DEF vars, ListenerInv
  <2>3. WorkerInv'
    BY <1>4 DEF vars, WorkerInv
  <2>4. CleanupInv'
    BY <1>4 DEF vars, CleanupInv
  <2>5. FreedIsStopped'
    BY <1>4 DEF vars, FreedIsStopped
  <2> QED  BY <2>1, <2>2, <2>3, <2>4, <2>5 DEF KernelInv
<1> QED  BY <1>1, <1>2, <1>3, <1>4

-----------------------------------------------------------------------------
(* The theorems.                                                           *)

\* The locks are held where the code says they are, and k_accept does not run
\* past the flush, in every reachable state: KernelInv is an invariant.
THEOREM KernelInvariant == Spec => []KernelInv
<1>1. Init => KernelInv
  <2>1. Init => TypeOK
    <3>1. Init => sock \in [Conns -> BOOLEAN]  BY Zenon DEF Init
    <3>2. Init => lsock \in BOOLEAN /\ shutdown \in BOOLEAN /\ signalled \in BOOLEAN
      BY DEF Init
    <3>3. Init => backlog \in Seq(Conns \cup {"awaken"})  BY DEF Init
    <3> QED  BY <3>1, <3>2, <3>3 DEF Init, TypeOK, Holders, Messages
  <2>2. Init => ListenerInv  BY DEF Init, ListenerInv
  <2>3. Init => WorkerInv  BY DEF Init, WorkerInv
  <2>4. Init => CleanupInv  BY DEF Init, CleanupInv
  <2>5. Init => FreedIsStopped  BY DEF Init, FreedIsStopped
  <2> QED  BY <2>1, <2>2, <2>3, <2>4, <2>5 DEF KernelInv
<1>2. ASSUME KernelInv, [Next]_vars PROVE KernelInv'
  <2>1. CASE ListenerStep  BY <1>2, <2>1, ListenerKeepsInv
  <2>2. CASE \E c \in Conns : WorkerStep(c)  BY <1>2, <2>2, WorkerKeepsInv
  <2>3. CASE Cleanup \/ CleanupStep  BY <1>2, <2>3, CleanupKeepsInv
  <2>4. CASE \/ \E c \in Conns : Connect(c) \/ Close(c) \/ \E m \in Messages : Send(c, m)
             \/ UNCHANGED vars
    BY <1>2, <2>4, ClientKeepsInv
  <2> QED  BY <1>2, <2>1, <2>2, <2>3, <2>4 DEF Next
<1> QED  BY <1>1, <1>2, PTL DEF Spec

\* The variables of the socket interface have their types.
THEOREM KernelTypes == Spec => []TypeOK
<1>1. KernelInv => TypeOK  BY DEF KernelInv
<1> QED  BY <1>1, KernelInvariant, PTL

\* No socket is released under a thread that is blocked on it, however many
\* clients there are and whatever signals the unloading process gets:
\* destroy_connection holds s_lock when it releases one.
THEOREM SocketsStayOpen == Spec => []BlocksOnOpenSocket
<1>1. KernelInv => BlocksOnOpenSocket
  BY DEF KernelInv, ListenerInv, WorkerInv, BlocksOnOpenSocket
<1> QED  BY <1>1, KernelInvariant, PTL

\* Without a signal, destroy_kernel_sensor finds every connection there will be.
THEOREM ConnectionsAreAllFound == Spec => []NoLateConnection
<1>1. KernelInv => NoLateConnection
  BY DEF KernelInv, CleanupInv, NoLateConnection
<1> QED  BY <1>1, KernelInvariant, PTL

\* Without a signal, no connection is freed while its thread uses it.
THEOREM FreedWhenStopped == Spec => []FreedIsStopped
<1>1. KernelInv => FreedIsStopped  BY DEF KernelInv
<1> QED  BY <1>1, KernelInvariant, PTL

=============================================================================
