------------------------------ MODULE MCGpuPhase -------------------------------
(***************************************************************************)
(* Instances of GpuPhase for TLC.                                          *)
(***************************************************************************)
EXTENDS GpuPhase, TLC

Symmetry == Permutations(Runs) \cup Permutations(Services)
=============================================================================
