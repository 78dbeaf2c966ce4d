---------------------------- MODULE PipelineRunInv ----------------------------
(***************************************************************************)
(* The inductive invariant of PipelineRun: what the safety properties need *)
(* besides themselves to be preserved by every step.                       *)
(***************************************************************************)
EXTENDS PipelineRun

HeldSound(held) == held.rev <= run.rev /\ (held.rev = run.rev => held = Snap(run))

\* A RUNNING or FAILED run is at a stage.
RunAtStage == run.status \in {"running", "failed"} => run.stage # 0

\* Claim ids point into the ledger, and no two workers have one in common.
ClaimIds ==
    /\ \A w \in Workers : workers[w].claim <= Len(claims)
    /\ \A w \in Workers : At(w, "body") => workers[w].claim # 0
    /\ \A v, w \in Workers : v # w /\ workers[v].claim # 0 => workers[v].claim # workers[w].claim
    /\ sweep.close <= Len(claims)
    /\ \A s \in Stage : outs[s] <= Len(claims)

\* What each program point knows of the snapshot it holds.
WorkerFine(me) ==
    /\ me.pc \in {"entry", "claim", "body", "failed", "requeue"} => HeldSound(me.held)
    /\ me.pc = "entry" => me.held.status = "queued"
    /\ me.pc \in {"claim", "body"} => me.held.status = "running" /\ me.held.stage # 0
    /\ me.pc = "body" => /\ claims[me.claim].stage = me.held.stage
                         /\ claims[me.claim].cycle = me.held.cycle
    /\ me.pc \in {"failed", "requeue"} => me.held.status = "failed" /\ me.held.stage # 0

WorkerSound == \A w \in Workers : WorkerFine(workers[w])

\* The claim the sweep is about to close was claimed no later than the sweep
\* read the run: its worker can commit only if the sweep's own CAS wins.
SweepSound ==
    /\ sweep.pc = "write" => /\ HeldSound(sweep.held)
                             /\ sweep.held.status = "running" /\ sweep.held.stage # 0
    /\ sweep.close # 0 =>
           /\ sweep.pc = "write"
           /\ \A w \in Workers :
                  At(w, "body") /\ workers[w].claim = sweep.close
                      => workers[w].held.rev <= sweep.held.rev

ConsoleSound ==
    /\ console.op # "none" => HeldSound(console.held)
    /\ console.op = "cancel" =>
           console.held.status \in {"queued", "running", "awaiting_adjudication", "paused"}
    /\ console.op = "pause" => console.held.status \in {"queued", "running"}
    /\ console.op = "resume" => console.held.status = "paused"
    /\ console.op = "requeue" => console.held.status = "failed" /\ console.held.stage # 0

SameStage(i, j) == claims[i].stage = claims[j].stage /\ claims[i].cycle = claims[j].cycle

\* Attempts grow along the ledger, and only the newest of a stage has a live lease.
LedgerOrder ==
    \A i, j \in DOMAIN claims :
        i < j /\ SameStage(i, j) => claims[i].attempt < claims[j].attempt /\ ~ActivelyOwned(i)

LedgerCycles == \A i \in DOMAIN claims : claims[i].cycle <= run.cycle

IInv ==
    /\ TypeOK
    /\ RunAtStage
    /\ ClaimIds
    /\ WorkerSound
    /\ SweepSound
    /\ ConsoleSound
    /\ LedgerOrder
    /\ LedgerCycles
    /\ CommitFindsClaimOpen
    /\ CompletesOnce
    /\ NoSkippedStage

-----------------------------------------------------------------------------
(* The retry budget.  The failures of a stage stay below the budget as long *)
(* as the run may still go on, and whoever may take a FAILED run on has     *)
(* either failed it without burning an attempt, counted the ledger since,   *)
(* or is the operator, whose request has bought one more.                   *)

\* The failures SpentBudget counts.
SpentClaims(s, k) ==
    {i \in ClaimsOf(s, k) :
        claims[i].status = "failed" /\ claims[i].cause \in {"transient", "fatal"}}

Left(s) == SpentBudget(s, run.cycle) < MaxAttempts + (MaxOps - env.ops)

\* No stage ahead of the run has been claimed in this cycle.
NothingAhead ==
    \A i \in DOMAIN claims :
        claims[i].cycle = run.cycle => claims[i].stage \in Behind \cup {EntryStage(run.stage)}

RunGoesOn ==
    run.status \notin {"failed", "completed", "cancelled"} => Left(EntryStage(run.stage))

WorkerThrifty(me) ==
    /\ me.pc \in {"failed", "requeue"} /\ Current(me.held)
    /\ me.cause = "saturated" \/ me.pc = "requeue"
    => Left(me.held.stage)

WorkersThrifty == \A w \in Workers : WorkerThrifty(workers[w])

OperatorPaid == console.op = "requeue" /\ Current(console.held) => Left(console.held.stage)

Budget ==
    /\ env.ops <= MaxOps
    /\ RetryBudget
    /\ NothingAhead
    /\ RunGoesOn
    /\ WorkersThrifty
    /\ OperatorPaid
=============================================================================
