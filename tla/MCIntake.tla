------------------------------- MODULE MCIntake --------------------------------
(* Instances of Intake for TLC.                                            *)
EXTENDS Intake

MCOps == [folder |-> 2, upload |-> 3, url |-> 2]
MCTrouble == [folder |-> 1, upload |-> 2, url |-> 3]
================================================================================
