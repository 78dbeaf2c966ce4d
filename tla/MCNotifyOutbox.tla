---------------------------- MODULE MCNotifyOutbox -----------------------------
(***************************************************************************)
(* Instances of NotifyOutbox for TLC: two overlapping sweeps, a run of a   *)
(* few revisions.                                                          *)
(***************************************************************************)
EXTENDS NotifyOutbox, TLC
=============================================================================
