---------------------------- MODULE MCSensorSuite ----------------------------
(* Instance for TLC. *)
EXTENDS SensorSuite

MCKernelSensors == <<"kernel-ps", "kernel-lsof">>
=============================================================================
