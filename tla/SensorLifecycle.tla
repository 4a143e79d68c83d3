--------------------------- MODULE SensorLifecycle ---------------------------
(***************************************************************************)
(* What the registry promises of a registration, whatever handlers, prune  *)
(* runs and crashes do to it: a row is opened for a sensor that has none,  *)
(* may be confirmed once and removed once, never comes back, and each of   *)
(* the two announcements is made at most once and not before its cause.    *)
(***************************************************************************)
EXTENDS Naturals, Sequences

CONSTANTS Sensors, Keys, None

VARIABLES
    status,  \* of the key's row: unused, pending, registered or removed
    holder,  \* the sensor the key was issued to
    log      \* what has been announced of the row, in order

vars == <<status, holder, log>>

Live(k) == status[k] \in {"pending", "registered"}
Announced(k, m) == \E i \in 1..Len(log[k]) : log[k][i] = m

Init ==
    /\ status = [k \in Keys |-> "unused"]
    /\ holder = [k \in Keys |-> None]
    /\ log = [k \in Keys |-> <<>>]

\* A new key pair is issued to a sensor.
Issue(k, s) ==
    /\ ~Live(k)
    /\ status' = [status EXCEPT ![k] = "unused"]
    /\ holder' = [holder EXCEPT ![k] = s]
    /\ log' = [log EXCEPT ![k] = <<>>]

Open(k) ==
    /\ status[k] = "unused"
    /\ \A j \in Keys : Live(j) => holder[j] # holder[k]
    /\ status' = [status EXCEPT ![k] = "pending"]
    /\ UNCHANGED <<holder, log>>

Confirm(k) ==
    /\ status[k] = "pending"
    /\ status' = [status EXCEPT ![k] = "registered"]
    /\ UNCHANGED <<holder, log>>

Remove(k) ==
    /\ Live(k)
    /\ status' = [status EXCEPT ![k] = "removed"]
    /\ UNCHANGED <<holder, log>>

Announce(k, m) ==
    /\ ~Announced(k, m)
    /\ m = "registration" => status[k] \in {"registered", "removed"}
    /\ m = "deregistration" => status[k] = "removed"
    /\ log' = [log EXCEPT ![k] = Append(@, m)]
    /\ UNCHANGED <<status, holder>>

Next ==
    \E k \in Keys :
        \/ \E s \in Sensors : Issue(k, s)
        \/ Open(k) \/ Confirm(k) \/ Remove(k)
        \/ \E m \in {"registration", "deregistration"} : Announce(k, m)

Spec == Init /\ [][Next]_vars

=============================================================================
