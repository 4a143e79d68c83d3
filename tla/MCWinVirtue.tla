---------------------------- MODULE MCWinVirtue ----------------------------
(* Instances of WinVirtue for TLC: a sensor of the default priority and one   *)
(* of the highest, which the default level silences.                          *)
EXTENDS WinVirtue
CONSTANTS p1, p2
Prios == [p \in Probes |-> IF p = p1 THEN 2 ELSE 4]
=============================================================================
