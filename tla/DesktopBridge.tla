---------------------------- MODULE DesktopBridge ----------------------------
(* The desktop bridge: a TCP server reads JSON documents from its clients onto    *)
(* inqueue, and handle_messages forwards them to the wrapper's queue.              *)
EXTENDS Integers, Sequences, FiniteSets, FiniteSetsExt, SequencesExt

CONSTANTS Clients,
          MaxSent,       \* bound: lines the clients send
          MaxBody,       \* bound: lines that stand for more than 8192 characters
          MaxRestarts    \* bound: actuations

ASSUME DesktopBridgeAssumption ==
    /\ MaxSent \in Nat /\ MaxBody \in Nat \ {0} /\ MaxRestarts \in Nat

(* A line: a whole document, one of the two lines of a document, a document that is  *)
(* false in Python (an empty object), text that is not JSON, an empty line, or bytes *)
(* that are not UTF-8.  n tells the lines of a client apart.                         *)
LineKinds == {"doc", "first", "second", "falsy", "junk", "blank", "bytes"}

VARIABLES
    sent,        \* what each client has sent
    unread,      \* what of it the bridge has not read
    hungUp,      \* clients that have closed their connection
    handler,     \* their tasks: "none", "reading", "ended" or "raised"
    body,        \* body of each one's read_json_doc
    inqueue,
    forwarding,  \* handle_messages is running
    outqueue,
    restarts
bridgeVars == <<sent, unread, hungUp, handler, body, inqueue, forwarding, outqueue, restarts>>
clientSide == <<sent, hungUp>>

BridgeInit ==
    /\ sent = [c \in Clients |-> <<>>] /\ unread = [c \in Clients |-> <<>>] /\ hungUp = {}
    /\ handler = [c \in Clients |-> "none"] /\ body = [c \in Clients |-> <<>>]
    /\ inqueue = <<>> /\ forwarding = TRUE /\ outqueue = <<>> /\ restarts = 0

-----------------------------------------------------------------------------
(* The clients.                                                              *)
ClientSends(c) ==
    /\ c \notin hungUp /\ MapThenSumSet(LAMBDA d : Len(sent[d]), Clients) < MaxSent
    /\ \E kind \in LineKinds :
          LET line == [kind |-> kind, n |-> IF kind = "second" THEN Len(sent[c]) ELSE Len(sent[c]) + 1]
          IN  /\ kind = "second" => sent[c] # <<>> /\ Last(sent[c]).kind = "first"
              /\ sent' = [sent EXCEPT ![c] = Append(@, line)]
              /\ unread' = [unread EXCEPT ![c] = Append(@, line)]
    /\ UNCHANGED <<hungUp, handler, body, inqueue, forwarding, outqueue, restarts>>
ClientHangsUp(c) ==
    /\ c \notin hungUp /\ handler[c] # "none"
    /\ hungUp' = hungUp \cup {c}
    /\ UNCHANGED <<sent, unread, handler, body, inqueue, forwarding, outqueue, restarts>>

-----------------------------------------------------------------------------
(* The server, which is a task of no group: an actuation leaves it alone.     *)
start_server_curio(c) ==
    /\ handler[c] = "none" /\ handler' = [handler EXCEPT ![c] = "reading"]
    /\ UNCHANGED <<clientSide, unread, body, inqueue, forwarding, outqueue, restarts>>

(* The documents json.loads finds in a body: it must be all of one.  *)
Parsed(text) ==
    IF Len(text) = 1 /\ text[1].kind \in {"doc", "falsy"} THEN {text[1]}
    ELSE IF Len(text) = 2 /\ text[1].kind = "first" /\ text[2].kind = "second" THEN {[text[1] EXCEPT !.kind = "doc"]}
    ELSE {}

(* The stream is at its end, or what came is false: the connection is closed and its *)
(* end put on the queue.                                                             *)
EndConnection(c) ==
    /\ handler' = [handler EXCEPT ![c] = "ended"] /\ inqueue' = Append(inqueue, [from |-> c, n |-> 0])
handle_connection_kept(c, doc) ==
    IF doc.kind = "falsy" THEN EndConnection(c) /\ body' = [body EXCEPT ![c] = <<>>]
    ELSE /\ inqueue' = Append(inqueue, [from |-> c, n |-> doc.n])
         /\ body' = [body EXCEPT ![c] = <<doc>>] /\ UNCHANGED handler
handle_connection_curio(c, doc) ==
    /\ body' = [body EXCEPT ![c] = <<>>]
    /\ IF doc.kind = "falsy" THEN EndConnection(c)
       ELSE inqueue' = Append(inqueue, [from |-> c, n |-> doc.n]) /\ UNCHANGED handler

(* A line is added to the body, which is tried as a document and kept when it is none *)
(* until it is too long.                                                              *)
read_json_doc(c) ==
    /\ handler[c] = "reading" /\ unread[c] # <<>>
    /\ LET line == Head(unread[c])
           text == IF line.kind = "blank" THEN body[c] ELSE Append(body[c], line)
       IN  IF line.kind = "bytes"
           THEN handler' = [handler EXCEPT ![c] = "raised"] /\ UNCHANGED <<body, inqueue>>
           ELSE IF Parsed(text) # {} THEN \E doc \in Parsed(text) : handle_connection_curio(c, doc)
           ELSE /\ body' = [body EXCEPT ![c] = IF Len(text) > MaxBody THEN <<>> ELSE text]
                /\ UNCHANGED <<handler, inqueue>>
    /\ unread' = [unread EXCEPT ![c] = Tail(@)]
    /\ UNCHANGED <<clientSide, forwarding, outqueue, restarts>>
EndOfClient_partial(c) ==
    /\ handler[c] = "reading" /\ unread[c] = <<>> /\ c \in hungUp /\ body[c] = <<>>
    /\ EndConnection(c) /\ UNCHANGED <<clientSide, unread, body, forwarding, outqueue, restarts>>
EndOfClient(c) ==
    /\ handler[c] = "reading" /\ unread[c] = <<>> /\ c \in hungUp
    /\ EndConnection(c) /\ body' = [body EXCEPT ![c] = <<>>]
    /\ UNCHANGED <<clientSide, unread, forwarding, outqueue, restarts>>

-----------------------------------------------------------------------------
(* Forwarding.                                                               *)
handle_messages_newest ==
    /\ forwarding /\ inqueue # <<>>
    /\ outqueue' = Append(outqueue, Last(inqueue)) /\ inqueue' = Front(inqueue)
    /\ UNCHANGED <<clientSide, unread, handler, body, forwarding, restarts>>
(* An end of a stream is forwarded as the message that there are no more. *)
handle_messages ==
    /\ forwarding /\ inqueue # <<>>
    /\ outqueue' = Append(outqueue, Head(inqueue)) /\ inqueue' = Tail(inqueue)
    /\ UNCHANGED <<clientSide, unread, handler, body, forwarding, restarts>>
(* An actuation cancels it where it waits for a message, and starts it again. *)
CancelForwarding ==
    /\ forwarding /\ inqueue = <<>> /\ restarts < MaxRestarts
    /\ forwarding' = FALSE /\ restarts' = restarts + 1
    /\ UNCHANGED <<clientSide, unread, handler, body, inqueue, outqueue>>
StartForwarding ==
    /\ ~forwarding /\ forwarding' = TRUE
    /\ UNCHANGED <<clientSide, unread, handler, body, inqueue, outqueue, restarts>>

ServerStep(c) == start_server_curio(c) \/ read_json_doc(c) \/ EndOfClient(c)
ForwardStep == handle_messages \/ StartForwarding
BridgeNext ==
    \/ \E c \in Clients : ClientSends(c) \/ ClientHangsUp(c) \/ ServerStep(c)
    \/ ForwardStep \/ CancelForwarding
BridgeSpec == BridgeInit /\ [][BridgeNext]_bridgeVars

-----------------------------------------------------------------------------
(* All that was put on the queues, and the documents among it that a client sent. *)
Queued == outqueue \o inqueue
From(c) == {i \in DOMAIN Queued : Queued[i].from = c}
Told(c) == {i \in From(c) : Queued[i].n # 0}
(* What is forwarded for any client are documents it sent, each once and in its order,  *)
(* and the message that there are no more comes once, when the connection is at its end *)
(* and after all of them.                                                               *)
OneEndAtTheEnd ==
    \A c \in Clients :
        /\ \A i, j \in From(c) : i < j => i \in Told(c) /\ (j \in Told(c) => Queued[i].n < Queued[j].n)
        /\ From(c) # Told(c) <=> handler[c] = "ended"

(* The bridge as one channel of its clients' documents. *)
BridgeChannel ==
    INSTANCE MessageChannel WITH Sources <- Clients, log <- Queued, delivered <- outqueue,
                                 closed <- {c \in Clients : handler[c] = "ended"}

(* Whole documents, and nothing else: a document ends with its only or its second line. *)
Clean(lines) ==
    \A i \in DOMAIN lines :
        /\ lines[i].kind \in {"doc", "first", "second", "blank"}
        /\ lines[i].kind = "first" /\ i < Len(lines) => lines[i + 1].kind = "second"
Documents(lines) == {lines[i].n : i \in {k \in DOMAIN lines : lines[k].kind \in {"doc", "second"}}}
(* The documents of a client that sends nothing else are forwarded once each, in its   *)
(* order, those in two lines too, whatever the other clients send.                     *)
CleanIsForwarded ==
    \A c \in Clients :
        Clean(sent[c]) =>
            /\ {Queued[i].n : i \in Told(c)} \cup Documents(unread[c]) = Documents(sent[c])
            /\ \A i, j \in Told(c) : i < j => Queued[i].n < Queued[j].n
            /\ \A i \in Told(c), n \in Documents(unread[c]) : Queued[i].n < n

(* Who hangs up is reported as gone, however often the sensor is actuated, unless its    *)
(* task was ended by bytes that are not text.                                            *)
EndIsReported ==
    \A c \in Clients :
        c \in hungUp ~> handler[c] = "raised" \/ \E i \in DOMAIN outqueue : outqueue[i] = [from |-> c, n |-> 0]
=============================================================================
