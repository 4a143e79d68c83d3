--------------------------- MODULE MessageChannel ---------------------------
(* What a sensor that gathers from several sources promises of them, whatever its *)
(* tasks, threads and queues: one log of all that was taken, into which each       *)
(* source's messages go in its order, once each, and after its end none; and the   *)
(* log is delivered from its beginning, message by message.                        *)
EXTENDS Integers, Sequences

CONSTANT Sources

VARIABLES log,         \* the messages taken: whose, and its number, which is 0 for the end
          delivered,   \* those passed on
          closed       \* the sources that have ended
channelVars == <<log, delivered, closed>>

Init == log = <<>> /\ delivered = <<>> /\ closed = {}

Newer(m) == \A i \in DOMAIN log : log[i].from = m.from => log[i].n < m.n
(* The source decides what it sends; it is new. *)
Take(s) ==
    /\ s \notin closed
    /\ \E i \in DOMAIN log' :
          /\ log'[i].from = s /\ log'[i].n > 0 /\ Newer(log'[i])
          /\ log' = Append(log, log'[i])
    /\ UNCHANGED <<delivered, closed>>
Close(s) ==
    /\ s \notin closed
    /\ log' = Append(log, [from |-> s, n |-> 0]) /\ closed' = closed \cup {s}
    /\ UNCHANGED delivered
Deliver ==
    /\ Len(delivered) < Len(log)
    /\ delivered' = Append(delivered, log[Len(delivered) + 1])
    /\ UNCHANGED <<log, closed>>

Next == (\E s \in Sources : Take(s) \/ Close(s)) \/ Deliver
Spec == Init /\ [][Next]_channelVars
=============================================================================
