-------------------------- MODULE MCSensorRegistry --------------------------
(* Instances of SensorRegistry for TLC.                                    *)
EXTENDS SensorRegistry, TLC

Symmetry == Permutations(Sensors) \cup Permutations(Keys) \cup Permutations(Pruners)

=============================================================================
