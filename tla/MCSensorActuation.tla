-------------------------- MODULE MCSensorActuation --------------------------
(* SensorActuation for TLC: two overlapping observe requests and main() are  *)
(* three parties that start sensing methods and log drains.                  *)
EXTENDS SensorActuation

=============================================================================
