---------------------------- MODULE MCPipelineRun -----------------------------
(***************************************************************************)
(* Instances of PipelineRun for TLC.  The three stages stand for           *)
(* transcribe (1), diarize_embed (2, looks for the segments of 1) and      *)
(* finalize (3, a checkpoint that looks for nothing); the handoff between  *)
(* the lanes comes after stage 2.                                          *)
(***************************************************************************)
EXTENDS PipelineRun, TLC

MCProbe == [s \in Stage |-> IF s = 2 THEN {1} ELSE {}]
MCKept == {}

Symmetry == Permutations(Workers)

\* For RunRaces.cfg: at most two of an operator's request, a lease that runs
\* out under a living worker, a message that is lost or delivered twice.
TwoTroubles ==
    (MaxOps - env.ops) + (MaxSlow - env.slow) + (MaxBroker - env.broker) <= 2

=============================================================================
