------------------------------- MODULE MCJobLane -------------------------------
(* A slot of each of the four kinds of lane, for JobLane.cfg.              *)
EXTENDS JobLane
================================================================================
