--------------------------- MODULE MCMediaReconciler --------------------------
(***************************************************************************)
(* Instances of MediaReconciler for TLC: two overlapping actors.           *)
(***************************************************************************)
EXTENDS MediaReconciler
=============================================================================
