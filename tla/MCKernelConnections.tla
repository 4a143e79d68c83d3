------------------------- MODULE MCKernelConnections -------------------------
(* Instances of KernelConnections for TLC.                                 *)
EXTENDS KernelConnections, TLC

Symmetry == Permutations(Conns)

=============================================================================
