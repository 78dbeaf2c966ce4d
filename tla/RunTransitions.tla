---------------------------- MODULE RunTransitions ----------------------------
(***************************************************************************)
(* The run-status state machine of src/voxint/pipeline/transitions.py:     *)
(* which status may follow which, and which stage the new row must carry.  *)
(* Stages are the positions 1..NStages of STAGE_ORDER; 0 stands for None.  *)
(* Stages 1..GpuLast are the GPU lane's segment, the rest the post lane's. *)
(***************************************************************************)
EXTENDS Naturals

CONSTANTS NStages, GpuLast

ASSUME StagesAssumption ==
    /\ NStages \in Nat
    /\ GpuLast \in Nat
    /\ 0 < GpuLast
    /\ GpuLast < NStages

Stage == 1..NStages
MaybeStage == 0..NStages

RunStatus == {"queued", "running", "awaiting_adjudication", "paused",
              "completed", "failed", "cancelled"}

Terminal == {"completed", "failed", "cancelled"}

AllowedTransitions ==
    [queued                |-> {"running", "cancelled", "paused"},
     running               |-> {"running", "queued", "awaiting_adjudication",
                                "paused", "completed", "failed", "cancelled"},
     awaiting_adjudication |-> {"running", "cancelled"},
     paused                |-> {"queued", "cancelled"},
     failed                |-> {"queued"},
     completed             |-> {"queued"},
     cancelled             |-> {"queued"}]

\* next_stage: the successor in STAGE_ORDER, the first stage after None, and
\* None after the last one.
NextStage(s) == IF s < NStages THEN s + 1 ELSE 0

\* The stage a QUEUED row starts at: its held stage, or the top of the order.
EntryStage(s) == IF s = 0 THEN 1 ELSE s

(***************************************************************************)
(* validate_transition: may a run held at (held.status, held.stage) be     *)
(* written as (status, stage)?                                             *)
(***************************************************************************)
ValidTransition(held, status, stage) ==
    /\ status \in AllowedTransitions[held.status]
    /\ \/ status = "cancelled"
       \/ /\ status = "running"
          /\ \/ held.status = "queued" /\ stage = EntryStage(held.stage)
             \/ /\ held.status = "running" /\ held.stage # 0
                /\ stage # 0 /\ stage = NextStage(held.stage)
             \/ held.status = "awaiting_adjudication" /\ stage = held.stage
       \/ /\ status = "queued"
          /\ \/ /\ held.status = "running" /\ held.stage # 0
                /\ stage # 0 /\ stage = NextStage(held.stage)
             \/ held.status = "paused" /\ stage = held.stage
             \/ held.status \in Terminal
       \/ /\ status \in {"awaiting_adjudication", "failed"}
          /\ held.stage # 0 /\ stage = held.stage
       \/ status = "paused" /\ (held.stage # 0 => stage = held.stage)
       \/ status = "completed" /\ held.stage = NStages /\ stage = 0
=============================================================================
