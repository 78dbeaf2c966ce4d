----------------------------- MODULE PipelineRun ------------------------------
(***************************************************************************)
(* One pipeline run driven by Celery workers, the recovery sweep and the   *)
(* operator's console.                                                     *)
(*                                                                         *)
(* The database rows are `run` (pipeline_runs), `claims` (stage_runs, in   *)
(* insertion order) and `outs` (which claim wrote each stage's outputs     *)
(* that are now in the tables).  Every action is one database transaction  *)
(* together with the purely local steps before or after it.  `msgs` counts *)
(* the interchangeable messages of the run on the two Celery queues.       *)
(*                                                                         *)
(* A lease is a flag: it starts TRUE with the claim and LeaseExpires       *)
(* clears it.  Closing a claim clears it too; the code reads a lease only  *)
(* of a RUNNING claim.                                                     *)
(***************************************************************************)
EXTENDS RunTransitions, Sequences, FiniteSets

CONSTANTS
    Workers,        \* Celery worker processes; each consumes both lanes
    MaxAttempts,    \* settings.stage_max_attempts
    Probe,          \* Probe[s]: stages whose outputs a restart from s looks for
    Kept,           \* stages whose outputs a restart never deletes (the media file)
    MaxMsgs,        \* bound: messages of the run that a queue is counted up to
    MaxOps,         \* bound: console operations
    MaxCrashes,     \* bound: worker deaths
    MaxFaults,      \* bound: stage bodies that raise
    MaxSlow,        \* bound: times a lease or the sweep overtakes a living worker
    MaxBroker       \* bound: messages the broker loses or delivers twice

ASSUME ConfigAssumption ==
    /\ MaxAttempts \in Nat \ {0}
    /\ MaxMsgs \in Nat \ {0}
    /\ MaxOps \in Nat /\ MaxCrashes \in Nat /\ MaxFaults \in Nat
    /\ MaxSlow \in Nat /\ MaxBroker \in Nat
    /\ Probe \in [Stage -> SUBSET Stage]
    /\ Kept \subseteq Stage

VARIABLES
    run,            \* [status, stage, rev, cycle, archived]
    claims,         \* sequence of stage_runs rows
    outs,           \* outs[s]: claim whose outputs are in the tables, 0 for none
    first,          \* history: the stage the current cycle started at
    workers,        \* [pc, lane, held, claim, cause] of each worker
    msgs,           \* msgs[lane]
    sweep,          \* the recovery transaction between its read and its write
    console,        \* the operator request between its read and its write
    queuePaused,    \* app_settings.queue_paused
    env             \* what is left of the bounds on the environment

vars == <<run, claims, outs, first, workers, msgs, sweep, console, queuePaused, env>>

Lane == {"gpu", "post"}
LaneOf(s) == IF EntryStage(s) <= GpuLast THEN "gpu" ELSE "post"

ClaimStatus == {"running", "completed", "failed", "skipped"}
\* What the error text of a FAILED claim is read for: the "interrupted:" and
\* "saturated:" prefixes, and whether the cause was a retryable ServiceError.
Cause == {"none", "interrupted", "saturated", "transient", "fatal"}

Snapshot == [status : RunStatus, stage : MaybeStage, rev : Nat, cycle : Nat]

Snap(r) == [status |-> r.status, stage |-> r.stage, rev |-> r.rev, cycle |-> r.cycle]

NoSnap == [status |-> "queued", stage |-> 0, rev |-> 0, cycle |-> 1]

Idle == [pc |-> "idle", lane |-> "gpu", held |-> NoSnap, claim |-> 0, cause |-> "none"]

NoSweep == [pc |-> "idle", held |-> NoSnap, attempt |-> 0, close |-> 0]

NoRequest == [op |-> "none", held |-> NoSnap]

NoOutputs == [s \in Stage |-> 0]

(* submit: a fresh QUEUED row whose message was published. *)
Init ==
    /\ run = [status |-> "queued", stage |-> 0, rev |-> 0, cycle |-> 1, archived |-> FALSE]
    /\ claims = << >>
    /\ outs = NoOutputs
    /\ first = 1
    /\ workers = [w \in Workers |-> Idle]
    /\ msgs = [l \in Lane |-> IF l = "gpu" THEN 1 ELSE 0]
    /\ sweep = NoSweep
    /\ console = NoRequest
    /\ queuePaused = FALSE
    /\ env = [ops |-> MaxOps, crashes |-> MaxCrashes, faults |-> MaxFaults,
              slow |-> MaxSlow, broker |-> MaxBroker]

-----------------------------------------------------------------------------
(* Shared helpers. *)

\* Faulty variant of Current: the WHERE clause forgets the revision.
AnyRevision(held) == held.rev <= run.rev

\* cas_update_run's WHERE clause: the row is still at the held revision.
Current(held) == held.rev = run.rev

\* Faulty variant of Moved: the CAS does not bump the revision.
MovedInPlace(r, status, stage) ==
    [status |-> status, stage |-> stage, rev |-> r.rev, cycle |-> r.cycle,
     archived |-> r.archived]

\* The row a successful cas_update_run leaves.
Moved(r, status, stage) ==
    [status |-> status, stage |-> stage, rev |-> r.rev + 1, cycle |-> r.cycle,
     archived |-> r.archived]

ClaimsOf(s, k) == {i \in DOMAIN claims : claims[i].stage = s /\ claims[i].cycle = k}

\* _latest_claim: the highest attempt of the stage in this cycle, 0 for none.
LatestClaim(s, k) ==
    IF ClaimsOf(s, k) = {} THEN 0
    ELSE CHOOSE i \in ClaimsOf(s, k) :
             \A j \in ClaimsOf(s, k) : claims[j].attempt <= claims[i].attempt

AttemptOf(c) == IF c = 0 THEN 0 ELSE claims[c].attempt

IsRunning(c) == c # 0 /\ claims[c].status = "running"

\* A RUNNING claim under an unexpired lease: a live worker, not to be robbed.
ActivelyOwned(c) == IsRunning(c) /\ claims[c].live

Closed(claim, status, cause) ==
    [claim EXCEPT !.status = status, !.cause = cause, !.live = FALSE]

\* _finish_claim: writes the row by primary key, whatever its status is now.
FinishClaim(c, status, cause) ==
    claims' = [claims EXCEPT ![c] = Closed(@, status, cause)]

\* The conditional form _stop_if_cancelled and _stop_if_paused use.
SkipIfRunning(c) ==
    IF IsRunning(c) THEN FinishClaim(c, "skipped", "none") ELSE UNCHANGED claims

Put(queues, lane) == [queues EXCEPT ![lane] = IF @ < MaxMsgs THEN @ + 1 ELSE @]
Published(lane) == Put(msgs, lane)

Become(w, state) == workers' = [workers EXCEPT ![w] = state]

At(w, pc) == workers[w].pc = pc

\* _drive_segment once execute_run returned the snapshot `final`: a QUEUED row
\* at a post-lane stage gets a finish_pipeline message.  (The completion side
\* effects of the post lane touch no row of this module.)
ReturnRun(w, final) ==
    /\ Become(w, Idle)
    /\ IF final.status = "queued" /\ final.stage > GpuLast
       THEN msgs' = Published("post") ELSE UNCHANGED msgs

-----------------------------------------------------------------------------
(* A worker executing a lane task. *)

\* queue_paused defers a GPU-lane task: the message is consumed, the row stays.
DeferTask(w) ==
    /\ At(w, "idle") /\ msgs["gpu"] > 0 /\ queuePaused
    /\ msgs' = [msgs EXCEPT !["gpu"] = @ - 1]
    /\ UNCHANGED <<run, claims, outs, first, workers, sweep, console, queuePaused, env>>

\* The message is delivered and execute_run reads the row.  A QUEUED row of
\* this lane is to be entered, one of the other lane is returned untouched.
StartTask(w, lane) ==
    /\ At(w, "idle") /\ msgs[lane] > 0
    /\ lane = "gpu" => ~queuePaused
    /\ LET wrong == run.status = "queued" /\ LaneOf(run.stage) # lane
           taken == [msgs EXCEPT ![lane] = @ - 1]
       IN /\ Become(w, IF wrong THEN Idle
                       ELSE [Idle EXCEPT !.pc = IF run.status = "queued" THEN "entry" ELSE "loop",
                                         !.lane = lane,
                                         !.held = IF run.status = "queued" THEN Snap(run) ELSE @])
          /\ msgs' = IF wrong /\ LaneOf(run.stage) = "post"
                     THEN Put(taken, "post") ELSE taken
    /\ UNCHANGED <<run, claims, outs, first, sweep, console, queuePaused, env>>

\* The entry CAS QUEUED -> RUNNING; losing it falls through to the loop.
EnterRun(w) ==
    /\ At(w, "entry")
    /\ LET held == workers[w].held
       IN run' = IF Current(held) THEN Moved(run, "running", EntryStage(held.stage)) ELSE run
    /\ Become(w, [workers[w] EXCEPT !.pc = "loop", !.held = NoSnap])
    /\ UNCHANGED <<claims, outs, first, msgs, sweep, console, queuePaused, env>>

\* Top of the loop: the row must be RUNNING at a stage of this lane.
Executable(lane) == run.status = "running" /\ run.stage # 0 /\ LaneOf(run.stage) = lane

ReadRun(w) ==
    /\ At(w, "loop") /\ Executable(workers[w].lane)
    /\ Become(w, [workers[w] EXCEPT !.pc = "claim", !.held = Snap(run)])
    /\ UNCHANGED <<run, claims, outs, first, msgs, sweep, console, queuePaused, env>>

LeaveRun(w) ==
    /\ At(w, "loop") /\ ~Executable(workers[w].lane)
    /\ ReturnRun(w, Snap(run))
    /\ UNCHANGED <<run, claims, outs, first, sweep, console, queuePaused, env>>

\* Faulty variant of Claimable: the live lease of another worker is ignored.
ClaimableByAnyone(held) ==
    run.status = "running" /\ run.stage = held.stage /\ Current(held)

\* _claim_stage under the run row's lock: the row is still what this worker
\* read and nobody holds a live claim of the stage in this cycle.
Claimable(held) ==
    /\ run.status = "running" /\ run.stage = held.stage /\ Current(held)
    /\ ~ActivelyOwned(LatestClaim(held.stage, run.cycle))

NewClaim(s, k) ==
    [stage |-> s, cycle |-> k, attempt |-> AttemptOf(LatestClaim(s, k)) + 1,
     status |-> "running", cause |-> "none", live |-> TRUE]

ClaimStage(w) ==
    /\ At(w, "claim") /\ Claimable(workers[w].held)
    /\ claims' = Append(claims, NewClaim(run.stage, run.cycle))
    /\ Become(w, [workers[w] EXCEPT !.pc = "body", !.claim = Len(claims) + 1])
    /\ UNCHANGED <<run, outs, first, msgs, sweep, console, queuePaused, env>>

\* Refused: the current row is re-read and returned.
RefuseClaim(w) ==
    /\ At(w, "claim") /\ ~Claimable(workers[w].held)
    /\ ReturnRun(w, Snap(run))
    /\ UNCHANGED <<run, claims, outs, first, sweep, console, queuePaused, env>>

\* The stage body returned: its outputs, the COMPLETED claim and the CAS to the
\* next stage, the lane handoff or COMPLETED are one transaction.
AfterStage(s, lane) ==
    LET next == NextStage(s)
    IN IF next = 0 THEN Moved(run, "completed", 0)
       ELSE IF LaneOf(next) # lane THEN Moved(run, "queued", next)
       ELSE Moved(run, "running", next)

CommitStage(w) ==
    /\ At(w, "body") /\ Current(workers[w].held)
    /\ LET s == workers[w].held.stage
           after == AfterStage(s, workers[w].lane)
       IN /\ run' = after
          /\ FinishClaim(workers[w].claim, "completed", "none")
          /\ outs' = [outs EXCEPT ![s] = workers[w].claim]
          /\ IF after.status = "running"
             THEN /\ Become(w, [Idle EXCEPT !.pc = "loop", !.lane = workers[w].lane])
                  /\ UNCHANGED msgs
             ELSE ReturnRun(w, Snap(after))
    /\ UNCHANGED <<first, sweep, console, queuePaused, env>>

\* The stage body raised: FAILED claim and FAILED run are one transaction.
FailStage(w, cause) ==
    /\ At(w, "body") /\ Current(workers[w].held) /\ env.faults > 0
    /\ run' = Moved(run, "failed", workers[w].held.stage)
    /\ FinishClaim(workers[w].claim, "failed", cause)
    /\ Become(w, [workers[w] EXCEPT !.pc = "failed", !.held = Snap(run'),
                                    !.claim = 0, !.cause = cause])
    /\ env' = [env EXCEPT !.faults = @ - 1]
    /\ UNCHANGED <<outs, first, msgs, sweep, console, queuePaused>>

\* The advance, completion or failure CAS lost: everything is rolled back.
LoseCommit(w) ==
    /\ At(w, "body") /\ ~Current(workers[w].held)
    /\ Become(w, [workers[w] EXCEPT !.pc = "stale", !.held = NoSnap])
    /\ UNCHANGED <<run, claims, outs, first, msgs, sweep, console, queuePaused, env>>

StopIfCancelled(w) ==
    /\ At(w, "stale")
    /\ IF run.status = "cancelled"
       THEN SkipIfRunning(workers[w].claim) /\ Become(w, Idle)
       ELSE UNCHANGED claims /\ Become(w, [workers[w] EXCEPT !.pc = "stalePaused"])
    /\ UNCHANGED <<run, outs, first, msgs, sweep, console, queuePaused, env>>

\* Neither cancelled nor paused: StaleRevisionError ends the task, claim untouched.
StopIfPaused(w) ==
    /\ At(w, "stalePaused")
    /\ IF run.status = "paused" THEN SkipIfRunning(workers[w].claim) ELSE UNCHANGED claims
    /\ Become(w, Idle)
    /\ UNCHANGED <<run, outs, first, msgs, sweep, console, queuePaused, env>>

\* stage_attempts(exclude_saturated=True): the ledger is the retry budget.
SpentBudget(s, k) ==
    Cardinality({i \in ClaimsOf(s, k) :
        claims[i].status = "failed" /\ claims[i].cause \in {"transient", "fatal"}})

\* Faulty variant of Retryable: off by one.
RetryableOnceMore(w) ==
    LET held == workers[w].held
    IN \/ workers[w].cause = "saturated"
       \/ workers[w].cause = "transient" /\ SpentBudget(held.stage, held.cycle) <= MaxAttempts

Retryable(w) ==
    LET held == workers[w].held
    IN \/ workers[w].cause = "saturated"
       \/ workers[w].cause = "transient" /\ SpentBudget(held.stage, held.cycle) < MaxAttempts

\* _drive_segment's handler counts the ledger in a session of its own...
CountBudget(w) ==
    /\ At(w, "failed")
    /\ Become(w, IF Retryable(w) THEN [workers[w] EXCEPT !.pc = "requeue"] ELSE Idle)
    /\ UNCHANGED <<run, claims, outs, first, msgs, sweep, console, queuePaused, env>>

\* ...and requeue_failed_stage CASes FAILED -> QUEUED on exactly the revision
\* the failure produced, after which task.retry publishes to the same lane.
RequeueFailedStage(w) ==
    /\ At(w, "requeue")
    /\ IF Current(workers[w].held)
       THEN /\ run' = Moved(run, "queued", workers[w].held.stage)
            /\ msgs' = Published(workers[w].lane)
       ELSE UNCHANGED <<run, msgs>>
    /\ Become(w, Idle)
    /\ UNCHANGED <<claims, outs, first, sweep, console, queuePaused, env>>

\* The process dies.  Acks-late: its unacknowledged message is delivered again.
Crash(w) ==
    /\ ~At(w, "idle") /\ env.crashes > 0
    /\ Become(w, Idle)
    /\ msgs' = Published(workers[w].lane)
    /\ env' = [env EXCEPT !.crashes = @ - 1]
    /\ UNCHANGED <<run, claims, outs, first, sweep, console, queuePaused>>

-----------------------------------------------------------------------------
(* Time and the broker. *)

Held(c) == \E w \in Workers : workers[w].claim = c

\* The lease of a claim nobody works on runs out in time; one that runs out
\* under a living worker is a stage that overran its budget.
LeaseExpires(c) ==
    /\ ActivelyOwned(c)
    /\ claims' = [claims EXCEPT ![c].live = FALSE]
    /\ IF Held(c) THEN env.slow > 0 /\ env' = [env EXCEPT !.slow = @ - 1]
                  ELSE UNCHANGED env
    /\ UNCHANGED <<run, outs, first, workers, msgs, sweep, console, queuePaused>>

\* A publication or a message is lost (the broker was unavailable).
LoseMessage(lane) ==
    /\ msgs[lane] > 0 /\ env.broker > 0
    /\ msgs' = [msgs EXCEPT ![lane] = @ - 1]
    /\ env' = [env EXCEPT !.broker = @ - 1]
    /\ UNCHANGED <<run, claims, outs, first, workers, sweep, console, queuePaused>>

\* The visibility timeout passes while a worker still runs the task.
Redeliver(w) ==
    /\ ~At(w, "idle") /\ env.broker > 0
    /\ msgs' = Published(workers[w].lane)
    /\ env' = [env EXCEPT !.broker = @ - 1]
    /\ UNCHANGED <<run, claims, outs, first, workers, sweep, console, queuePaused>>

-----------------------------------------------------------------------------
(* The recovery sweep.  Its passes may overlap, so its three parts are     *)
(* independent of each other.                                              *)

\* Between an advance and its claim a RUNNING run has no live claim.  The sweep
\* may hit that instant; it lasts milliseconds, the sweep's period is a minute,
\* so it is hit MaxSlow times at most.
Overtakes == \E w \in Workers : workers[w].pc \in {"loop", "claim"}

\* Faulty variant of SweepRead: a RUNNING row with no claim is passed over.
SweepReadClaimed ==
    /\ sweep.pc = "idle"
    /\ run.status = "running" /\ run.stage # 0
    /\ IF Overtakes THEN env.slow > 0 /\ env' = [env EXCEPT !.slow = @ - 1]
                    ELSE UNCHANGED env
    /\ LET latest == LatestClaim(run.stage, run.cycle)
       IN /\ latest # 0 /\ ~ActivelyOwned(latest)
          /\ sweep' = [pc |-> "write", held |-> Snap(run), attempt |-> AttemptOf(latest),
                       close |-> IF IsRunning(latest) THEN latest ELSE 0]
    /\ UNCHANGED <<run, claims, outs, first, workers, msgs, console, queuePaused>>

\* recover_interrupted_runs reads a RUNNING row and its latest claim.
SweepRead ==
    /\ sweep.pc = "idle"
    /\ run.status = "running" /\ run.stage # 0
    /\ IF Overtakes THEN env.slow > 0 /\ env' = [env EXCEPT !.slow = @ - 1]
                    ELSE UNCHANGED env
    /\ LET latest == LatestClaim(run.stage, run.cycle)
       IN /\ ~ActivelyOwned(latest)
          /\ sweep' = [pc |-> "write", held |-> Snap(run), attempt |-> AttemptOf(latest),
                       close |-> IF IsRunning(latest) THEN latest ELSE 0]
    /\ UNCHANGED <<run, claims, outs, first, workers, msgs, console, queuePaused>>

\* The interrupted claim is finished by primary key, then the run is CASed to
\* FAILED and, below the attempt ceiling, on to QUEUED.  A lost CAS is skipped;
\* the transaction still commits what it wrote to the claim.
Reclaimed(r) ==
    IF sweep.attempt >= MaxAttempts THEN Moved(r, "failed", r.stage)
    ELSE Moved(Moved(r, "failed", r.stage), "queued", r.stage)

SweepWrite ==
    /\ sweep.pc = "write"
    /\ IF sweep.close # 0 THEN FinishClaim(sweep.close, "failed", "interrupted")
                          ELSE UNCHANGED claims
    /\ run' = IF Current(sweep.held) THEN Reclaimed(run) ELSE run
    /\ sweep' = NoSweep
    /\ UNCHANGED <<outs, first, workers, msgs, console, queuePaused, env>>

\* Faulty variants of Abandoned: the status of the run is not looked at, or the
\* claims of a paused run are left to their workers.
Expired == {c \in DOMAIN claims : IsRunning(c) /\ (run.status = "cancelled" \/ ~claims[c].live)}
CancelledOnly == {c \in DOMAIN claims : IsRunning(c) /\ run.status = "cancelled"}

\* close_cancelled_run_claims takes every RUNNING claim of a CANCELLED run,
\* close_paused_run_claims only those of a PAUSED run whose lease is over.
Abandoned ==
    {c \in DOMAIN claims :
        /\ IsRunning(c)
        /\ \/ run.status = "cancelled"
           \/ run.status = "paused" /\ ~claims[c].live}

SweepClose ==
    /\ Abandoned # {}
    /\ claims' = [c \in DOMAIN claims |->
                     IF c \in Abandoned THEN Closed(claims[c], "skipped", "none") ELSE claims[c]]
    /\ UNCHANGED <<run, outs, first, workers, msgs, sweep, console, queuePaused, env>>

\* A recovered or stale QUEUED run is published again, to the lane of the stage
\* it is re-read at, unless the queue is paused.
SweepPublish ==
    /\ run.status = "queued" /\ ~queuePaused
    /\ msgs[LaneOf(run.stage)] < MaxMsgs
    /\ msgs' = Published(LaneOf(run.stage))
    /\ UNCHANGED <<run, claims, outs, first, workers, sweep, console, queuePaused, env>>

-----------------------------------------------------------------------------
(* The operator.  A console request reads the row, checks it, and writes   *)
(* in its own transaction; ConsoleRead spends one of MaxOps.               *)

Spend == env' = [env EXCEPT !.ops = @ - 1]

\* What each service function requires of the row it read.
Accepts(op) ==
    \/ op = "cancel" /\ run.status \in {"queued", "running", "awaiting_adjudication", "paused"}
    \/ op = "pause" /\ run.status \in {"queued", "running"}
    \/ op = "resume" /\ run.status = "paused" /\ ~run.archived
    \/ op = "requeue" /\ run.status = "failed" /\ run.stage # 0 /\ ~run.archived
    \/ op = "archive" /\ run.status \in Terminal /\ ~run.archived

Request == {"cancel", "pause", "resume", "requeue", "archive"}

Target(op) == CASE op = "cancel" -> "cancelled"
                [] op = "pause" -> "paused"
                [] op \in {"resume", "requeue"} -> "queued"

ConsoleRead(op) ==
    /\ console.op = "none" /\ env.ops > 0 /\ Accepts(op)
    /\ console' = [op |-> op, held |-> Snap(run)]
    /\ Spend
    /\ UNCHANGED <<run, claims, outs, first, workers, msgs, sweep, queuePaused>>

\* cancel, pause, resume and requeue CAS on the revision read (a lost CAS is a
\* 409); archive stamps the row outside the revision.  Resume and requeue publish.
ConsoleWrite ==
    /\ console.op # "none"
    /\ LET held == console.held
           wins == console.op # "archive" /\ Current(held)
       IN /\ run' = IF console.op = "archive" THEN [run EXCEPT !.archived = TRUE]
                    ELSE IF wins THEN Moved(run, Target(console.op), held.stage)
                    ELSE run
          /\ msgs' = IF wins /\ Target(console.op) = "queued"
                     THEN Published(LaneOf(held.stage)) ELSE msgs
    /\ console' = NoRequest
    /\ UNCHANGED <<claims, outs, first, workers, sweep, queuePaused, env>>

\* _validate_prerequisites: some cycle completed the upstream stage, and the
\* outputs this stage's branch looks for are there.
Prerequisites(s) ==
    /\ s > 1 => \E i \in DOMAIN claims :
                    claims[i].stage = s - 1 /\ claims[i].status = "completed"
    /\ \A t \in Probe[s] : outs[t] # 0

\* _eager_invalidate_downstream deletes what stages >= s wrote.
Invalidated(s) == [t \in Stage |-> IF t >= s /\ t \notin Kept THEN 0 ELSE outs[t]]

\* restart_run holds the row lock from its read to its commit.  s = 0 is a full
\* restart, which parks the row at no stage.
RestartRun(s) ==
    /\ env.ops > 0
    /\ run.status \in Terminal /\ ~run.archived
    /\ Prerequisites(EntryStage(s))
    /\ outs' = Invalidated(EntryStage(s))
    /\ first' = EntryStage(s)
    /\ run' = [Moved(run, "queued", s) EXCEPT !.cycle = @ + 1]
    /\ msgs' = Published(LaneOf(s))
    /\ Spend
    /\ UNCHANGED <<claims, workers, sweep, console, queuePaused>>

UnarchiveRun ==
    /\ env.ops > 0 /\ run.archived
    /\ run' = [run EXCEPT !.archived = FALSE]
    /\ Spend
    /\ UNCHANGED <<claims, outs, first, workers, msgs, sweep, console, queuePaused>>

ToggleQueue ==
    /\ env.ops > 0
    /\ queuePaused' = ~queuePaused
    /\ Spend
    /\ UNCHANGED <<run, claims, outs, first, workers, msgs, sweep, console>>

-----------------------------------------------------------------------------
Work(w) ==
    \/ DeferTask(w)
    \/ \E lane \in Lane : StartTask(w, lane)
    \/ EnterRun(w) \/ ReadRun(w) \/ LeaveRun(w)
    \/ ClaimStage(w) \/ RefuseClaim(w)
    \/ CommitStage(w) \/ LoseCommit(w) \/ StopIfCancelled(w) \/ StopIfPaused(w)
    \/ CountBudget(w) \/ RequeueFailedStage(w)

Sweep == SweepRead \/ SweepWrite \/ SweepClose \/ SweepPublish

Console ==
    \/ \E op \in Request : ConsoleRead(op)
    \/ ConsoleWrite
    \/ \E s \in MaybeStage : RestartRun(s)
    \/ UnarchiveRun \/ ToggleQueue

Misfortune ==
    \/ \E w \in Workers : Crash(w) \/ Redeliver(w)
    \/ \E w \in Workers, cause \in {"saturated", "transient", "fatal"} : FailStage(w, cause)
    \/ \E lane \in Lane : LoseMessage(lane)
    \/ \E c \in DOMAIN claims : LeaseExpires(c)

Next == (\E w \in Workers : Work(w)) \/ Sweep \/ Console \/ Misfortune

Spec == Init /\ [][Next]_vars

-----------------------------------------------------------------------------
(* Properties. *)

Claim == [stage : Stage, cycle : Nat, attempt : Nat, status : ClaimStatus,
          cause : Cause, live : BOOLEAN]

Worker == [pc : {"idle", "entry", "loop", "claim", "body", "stale", "stalePaused",
                 "failed", "requeue"},
           lane : Lane, held : Snapshot, claim : Nat, cause : Cause]

\* Every row and every actor's local state has the shape its class declares.
TypeOK ==
    /\ run \in [status : RunStatus, stage : MaybeStage, rev : Nat, cycle : Nat,
                archived : BOOLEAN]
    /\ claims \in Seq(Claim)
    /\ outs \in [Stage -> Nat]
    /\ first \in Stage
    /\ workers \in [Workers -> Worker]
    /\ msgs \in [Lane -> Nat]
    /\ sweep \in [pc : {"idle", "write"}, held : Snapshot, attempt : Nat, close : Nat]
    /\ console \in [op : Request \cup {"none"}, held : Snapshot]
    /\ queuePaused \in BOOLEAN
    /\ env \in [ops : Nat, crashes : Nat, faults : Nat, slow : Nat, broker : Nat]

\* The snapshots an actor may still act on.
Holding ==
    {workers[w].held : w \in {v \in Workers :
        workers[v].pc \in {"entry", "claim", "body", "failed", "requeue"}}}
    \cup (IF sweep.pc = "write" THEN {sweep.held} ELSE {})
    \cup (IF console.op # "none" THEN {console.held} ELSE {})

\* The revision stands for the row: a snapshot at the current revision is the
\* current status, stage and cycle, so a CAS on the revision alone is a CAS on
\* all of them (transitions.py, cas_update_run).
SnapshotSound ==
    \A held \in Holding : held.rev <= run.rev /\ (Current(held) => held = Snap(run))

\* Two live leases never cover the same stage of the same cycle: no healthy
\* worker is joined by a second one (engine.py, _claim_stage and the sweeps).
ExclusiveLease ==
    \A i, j \in DOMAIN claims :
        i # j /\ ActivelyOwned(i) /\ ActivelyOwned(j)
            => claims[i].stage # claims[j].stage \/ claims[i].cycle # claims[j].cycle

\* A worker whose commit can still win holds a claim nobody has closed: no
\* commit overwrites the verdict a sweep or a stop wrote to the ledger.
CommitFindsClaimOpen ==
    \A w \in Workers :
        At(w, "body") /\ Current(workers[w].held) => IsRunning(workers[w].claim)

\* The stages of the current cycle that are behind the run.
Behind == {s \in Stage : s < run.stage \/ run.status = "completed"}

\* A stage completes at most once in a cycle, whatever leases expire and however
\* often its message is delivered; and only stages behind the run have completed.
CompletesOnce ==
    /\ \A i \in DOMAIN claims :
           claims[i].status = "completed" /\ claims[i].cycle = run.cycle
               => claims[i].stage \in Behind
    /\ \A i, j \in DOMAIN claims :
           /\ claims[i].status = "completed" /\ claims[j].status = "completed"
           /\ claims[i].stage = claims[j].stage /\ claims[i].cycle = claims[j].cycle
           => i = j

\* From the stage a cycle started at, no stage is skipped: everything behind the
\* run has outputs, and an attempt of this very cycle wrote them.
NoSkippedStage ==
    \A s \in Behind :
        s >= first => outs[s] # 0 /\ claims[outs[s]].stage = s
                                /\ claims[outs[s]].cycle = run.cycle

\* stage_max_attempts bounds the failures a stage burns in a cycle, across
\* crashes and redeliveries: only an operator's requeue buys another one.
RetryBudget ==
    \A s \in Stage : SpentBudget(s, run.cycle) <= MaxAttempts + (MaxOps - env.ops)

\* A run that is not RUNNING gains no outputs: what a stage body did for a run
\* cancelled, paused, failed or restarted under it is rolled back.
HaltedRunGainsNothing ==
    [][\A s \in Stage : outs'[s] \notin {0, outs[s]} => run.status = "running"]_vars

\* The run implements its lifecycle: no CAS ever needs a transition that
\* validate_transition would reject, and completed and cancelled runs move again
\* only in a new cycle.
Life == INSTANCE RunLifecycle
            WITH life <- [status |-> run.status, stage |-> run.stage, cycle |-> run.cycle]
ImplementsLifecycle == Life!LifeSpec

\* How far a run has come in its cycle; a completed run is past the last stage.
Position(r) == IF r.status = "completed" THEN NStages + 1 ELSE r.stage

\* notification_deliveries is unique on (pipeline_run_id, transition_revision), so
\* that "a requeued run that fails again is a distinct arrival" (models.py:3061),
\* and a CAS tells the row it read from every other: whoever moves the run, each
\* move takes a revision of its own, no cycle goes back to a stage behind it, and
\* a cycle is left only from a terminal status, for the next one.
MovesOn ==
    \/ Snap(run') = Snap(run)
    \/ /\ run'.rev > run.rev
       /\ \/ run'.cycle = run.cycle /\ Position(run') >= Position(run)
          \/ run'.cycle = run.cycle + 1 /\ run.status \in Terminal
RunMovesOn == [][MovesOn]_vars

\* The archive_run docstring: only terminal runs are archived, "a live run
\* raises RunNotArchivableError (cancel first)".
ArchivedIsTerminal == run.archived => run.status \in Terminal

\* The engine's contract: success updates "that exact claim row" and advances
\* the run in one transaction, so outputs in the tables have a COMPLETED claim.  It
\* does not hold (README, section 6) and no run lists it.
OutputsHaveCompletedClaim ==
    \A s \in Stage : outs[s] # 0 => claims[outs[s]].status = "completed"

\* _validate_prerequisites: a restart verifies "the upstream stage completed and
\* its outputs exist", so a COMPLETED run has the outputs of every stage.
CompletedHasOutputs ==
    run.status = "completed" => \A s \in Stage : outs[s] # 0

-----------------------------------------------------------------------------
(* Fairness: workers keep working, time passes over the lease of a dead    *)
(* worker, beat keeps firing the sweep, an accepted request is answered.   *)
Fairness ==
    /\ \A w \in Workers : WF_vars(Work(w))
    /\ WF_vars(\E c \in DOMAIN claims : ~Held(c) /\ LeaseExpires(c))
    /\ WF_vars(SweepRead) /\ WF_vars(SweepWrite) /\ WF_vars(SweepClose)
    /\ WF_vars(SweepPublish) /\ WF_vars(ConsoleWrite)

FairSpec == Spec /\ Fairness

\* A run does not stay QUEUED or RUNNING: with the queue not paused for good it
\* completes, fails, or stops where the operator stopped it.
EventuallySettles ==
    <>[]queuePaused \/ []<>(run.status \notin {"queued", "running"})

\* A claim left RUNNING on a run that stays cancelled or paused is closed: the
\* console does not show a stage running for ever.
StoppedClaimsClose ==
    <>[](run.status \in {"cancelled", "paused"})
        => <>[](\A c \in DOMAIN claims : ~IsRunning(c))
=============================================================================
