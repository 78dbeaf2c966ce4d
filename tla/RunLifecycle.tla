----------------------------- MODULE RunLifecycle -----------------------------
(***************************************************************************)
(* What the pipeline promises about one run, with no worker, claim, lease  *)
(* or revision in sight: the row goes through the transitions              *)
(* validate_transition defines, one processing cycle at a time.  The       *)
(* detailed module PipelineRun implements this specification.              *)
(***************************************************************************)
EXTENDS RunTransitions

VARIABLE life      \* [status, stage, cycle] of the run

LifeInit == life = [status |-> "queued", stage |-> 0, cycle |-> 1]

Moved(status, stage) == [status |-> status, stage |-> stage, cycle |-> life.cycle]

\* Any transition inside a cycle.  COMPLETED and CANCELLED are left by a
\* restart only, and a FAILED run is requeued at the stage that failed.
Transition ==
    \E status \in RunStatus, stage \in MaybeStage :
        /\ life.status \notin {"completed", "cancelled"}
        /\ life.status = "failed" => stage = life.stage
        /\ ValidTransition(life, status, stage)
        /\ life' = Moved(status, stage)

\* The recovery sweep commits RUNNING -> FAILED -> QUEUED in one transaction.
Reclaim ==
    /\ ValidTransition(life, "failed", life.stage)
    /\ ValidTransition(Moved("failed", life.stage), "queued", life.stage)
    /\ life' = Moved("queued", life.stage)

\* A deliberate restart opens a new processing cycle at any stage, or at None.
Restart ==
    \E stage \in MaybeStage :
        /\ life.status \in Terminal
        /\ ValidTransition(life, "queued", stage)
        /\ life' = [status |-> "queued", stage |-> stage, cycle |-> life.cycle + 1]

LifeNext == Transition \/ Reclaim \/ Restart

LifeSpec == LifeInit /\ [][LifeNext]_life
=============================================================================
