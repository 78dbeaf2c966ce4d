-------------------------- MODULE PipelineRunProofs ---------------------------
(***************************************************************************)
(* Proofs about PipelineRun, for every number of stages and workers and    *)
(* every value of the bounds.                                              *)
(***************************************************************************)
EXTENDS PipelineRunInv, FiniteSetTheorems, SequenceTheorems, WellFoundedInduction, TLAPS

USE StagesAssumption, ConfigAssumption

-----------------------------------------------------------------------------
(* The ledger. *)

\* What every write to the ledger except an insertion leaves alone: the rows,
\* their keys; no row becomes RUNNING again and no lease comes back.
SameLedger ==
    /\ claims' \in Seq(Claim)
    /\ Len(claims') = Len(claims)
    /\ \A i \in 1..Len(claims) :
          /\ claims'[i].stage = claims[i].stage
          /\ claims'[i].cycle = claims[i].cycle
          /\ claims'[i].attempt = claims[i].attempt
          /\ claims'[i].live => claims[i].live
          /\ claims'[i].status = "running" => claims[i].status = "running"

LEMMA LedgerShape ==
    ASSUME TypeOK
    PROVE  /\ Len(claims) \in Nat
           /\ DOMAIN claims = 1..Len(claims)
           /\ \A i \in 1..Len(claims) : claims[i] \in Claim
BY LenProperties, ElementOfSeq DEF TypeOK

LEMMA ClosedClaim ==
    ASSUME NEW claim \in Claim, NEW status \in ClaimStatus, NEW cause \in Cause
    PROVE  /\ Closed(claim, status, cause) \in Claim
           /\ Closed(claim, status, cause).stage = claim.stage
           /\ Closed(claim, status, cause).cycle = claim.cycle
           /\ Closed(claim, status, cause).attempt = claim.attempt
           /\ Closed(claim, status, cause).status = status
           /\ ~Closed(claim, status, cause).live
BY DEF Closed, Claim

LEMMA FinishClaimKeepsLedger ==
    ASSUME TypeOK, NEW c \in 1..Len(claims),
           NEW status \in ClaimStatus, NEW cause \in Cause, status # "running",
           FinishClaim(c, status, cause)
    PROVE  /\ SameLedger
           /\ \A i \in 1..Len(claims) : i # c => claims'[i] = claims[i]
           /\ claims'[c].status = status
<1>1. claims \in Seq(Claim) /\ claims[c] \in Claim
  BY LedgerShape DEF TypeOK
<1> DEFINE row == Closed(claims[c], status, cause)
<1>2. claims' = [claims EXCEPT ![c] = row]
  BY <1>1, LedgerShape DEF FinishClaim
<1>3. row \in Claim
  BY <1>1, ClosedClaim
<1>4. /\ claims' \in Seq(Claim)
      /\ Len(claims') = Len(claims)
      /\ \A j \in 1..Len(claims) : claims'[j] = IF j = c THEN row ELSE claims[j]
  <2> HIDE DEF row
  <2> QED BY <1>1, <1>2, <1>3, ExceptSeq
<1>5. /\ row.stage = claims[c].stage /\ row.cycle = claims[c].cycle
      /\ row.attempt = claims[c].attempt /\ row.status = status /\ ~row.live
  BY <1>1, ClosedClaim
<1>6. QED
  <2> HIDE DEF row
  <2> QED BY <1>4, <1>5 DEF SameLedger

LEMMA UnchangedLedger ==
    ASSUME TypeOK, UNCHANGED claims
    PROVE  SameLedger
BY DEF TypeOK, SameLedger

LEMMA AppendKeepsLedger ==
    ASSUME TypeOK, NEW row \in Claim, claims' = Append(claims, row)
    PROVE  /\ claims' \in Seq(Claim)
           /\ Len(claims') = Len(claims) + 1
           /\ \A i \in 1..Len(claims) : claims'[i] = claims[i]
           /\ claims'[Len(claims) + 1] = row
BY AppendProperties DEF TypeOK

-----------------------------------------------------------------------------
(* Types. *)

LEMMA InitType == Init => TypeOK
<1> SUFFICES ASSUME Init PROVE TypeOK
  OBVIOUS
<1>1. claims \in Seq(Claim)
  BY EmptySeq DEF Init
<1>2. run \in [status : RunStatus, stage : MaybeStage, rev : Nat, cycle : Nat,
             archived : BOOLEAN]
  BY DEF Init, RunStatus, MaybeStage
<1>3. outs \in [Stage -> Nat] /\ first \in Stage /\ msgs \in [Lane -> Nat]
  BY DEF Init, NoOutputs, Stage
<1>4. NoSnap \in Snapshot
  BY DEF NoSnap, Snapshot, RunStatus, MaybeStage
<1>5. workers \in [Workers -> Worker]
  BY <1>4 DEF Init, Idle, Worker, Lane, Cause
<1>6. sweep \in [pc : {"idle", "write"}, held : Snapshot, attempt : Nat, close : Nat]
  BY <1>4 DEF Init, NoSweep
<1>7. console \in [op : Request \cup {"none"}, held : Snapshot]
  BY <1>4 DEF Init, NoRequest
<1>8. queuePaused \in BOOLEAN
      /\ env \in [ops : Nat, crashes : Nat, faults : Nat, slow : Nat, broker : Nat]
  BY DEF Init
<1>9. QED
  BY <1>1, <1>2, <1>3, <1>5, <1>6, <1>7, <1>8 DEF TypeOK

RowType == [status : RunStatus, stage : MaybeStage, rev : Nat, cycle : Nat, archived : BOOLEAN]

LEMMA SnapType == ASSUME NEW r \in RowType PROVE Snap(r) \in Snapshot
BY DEF RowType, Snap, Snapshot

LEMMA MovedType ==
    ASSUME NEW r \in RowType, NEW status \in RunStatus, NEW stage \in MaybeStage
    PROVE  /\ Moved(r, status, stage) \in RowType
           /\ Moved(r, status, stage).status = status
           /\ Moved(r, status, stage).stage = stage
           /\ Moved(r, status, stage).rev = r.rev + 1
           /\ Moved(r, status, stage).cycle = r.cycle
           /\ Moved(r, status, stage).archived = r.archived
BY DEF RowType, Moved

LEMMA NextStageType ==
    ASSUME NEW s \in MaybeStage
    PROVE  NextStage(s) \in MaybeStage /\ EntryStage(s) \in Stage
BY DEF NextStage, EntryStage, MaybeStage, Stage

LEMMA PutType ==
    ASSUME NEW queues \in [Lane -> Nat], NEW lane \in Lane
    PROVE  Put(queues, lane) \in [Lane -> Nat]
BY DEF Put

LEMMA LaneType == ASSUME NEW s PROVE LaneOf(s) \in Lane
BY DEF LaneOf, Lane

LEMMA IdleType == Idle \in Worker
BY DEF Idle, Worker, Lane, Snapshot, NoSnap, RunStatus, MaybeStage, Cause

LEMMA NoSnapType == NoSnap \in Snapshot
BY DEF NoSnap, Snapshot, RunStatus, MaybeStage

LEMMA BecomeType ==
    ASSUME TypeOK, NEW w \in Workers, NEW me \in Worker, Become(w, me)
    PROVE  /\ workers' \in [Workers -> Worker]
           /\ workers'[w] = me
           /\ \A v \in Workers : v # w => workers'[v] = workers[v]
BY DEF TypeOK, Become

LEMMA ReturnRunType ==
    ASSUME TypeOK, NEW w \in Workers, NEW final, ReturnRun(w, final)
    PROVE  Become(w, Idle) /\ msgs' \in [Lane -> Nat]
<1>1. "post" \in Lane /\ msgs \in [Lane -> Nat]
  BY DEF Lane, TypeOK
<1>2. Put(msgs, "post") \in [Lane -> Nat]
  BY <1>1, PutType
<1>3. QED
  BY <1>1, <1>2 DEF ReturnRun, Published

LEMMA PublishedType ==
    ASSUME TypeOK, NEW lane \in Lane
    PROVE  Published(lane) \in [Lane -> Nat]
BY PutType DEF TypeOK, Published

LEMMA TakenType ==
    ASSUME TypeOK, NEW lane \in Lane, msgs[lane] > 0
    PROVE  [msgs EXCEPT ![lane] = @ - 1] \in [Lane -> Nat]
<1>1. msgs \in [Lane -> Nat] /\ msgs[lane] - 1 \in Nat
  BY DEF TypeOK
<1>2. QED
  BY <1>1

EnvType == [ops : Nat, crashes : Nat, faults : Nat, slow : Nat, broker : Nat]

LEMMA SpentType ==
    ASSUME TypeOK
    PROVE  /\ env.ops > 0 => [env EXCEPT !.ops = @ - 1] \in EnvType
           /\ env.crashes > 0 => [env EXCEPT !.crashes = @ - 1] \in EnvType
           /\ env.faults > 0 => [env EXCEPT !.faults = @ - 1] \in EnvType
           /\ env.slow > 0 => [env EXCEPT !.slow = @ - 1] \in EnvType
           /\ env.broker > 0 => [env EXCEPT !.broker = @ - 1] \in EnvType
<1>1. env \in EnvType
  BY DEF TypeOK, EnvType
<1>2. /\ env.ops > 0 => env.ops - 1 \in Nat
      /\ env.crashes > 0 => env.crashes - 1 \in Nat
      /\ env.faults > 0 => env.faults - 1 \in Nat
      /\ env.slow > 0 => env.slow - 1 \in Nat
      /\ env.broker > 0 => env.broker - 1 \in Nat
  BY <1>1 DEF EnvType
<1>3. QED
  BY <1>1, <1>2 DEF EnvType

\* A non-empty set of claim ids has a largest one.
LEMMA LargestId ==
    ASSUME NEW top \in Nat, NEW C \in SUBSET (1..top), C # {}
    PROVE  \E i \in C : \A j \in C : j <= i
<1> DEFINE T == {n \in Nat : \E i \in C : n = top - i}
           R == OpToRel(<, Nat)
<1>1. T \subseteq Nat /\ T # {}
  <2>1. PICK i \in C : TRUE
    OBVIOUS
  <2>2. top - i \in T
    BY <2>1
  <2>3. QED
    BY <2>2
<1>2. \A m, n \in Nat : m < n => <<m, n>> \in R
  BY DEF OpToRel
<1>3. PICK n \in T : \A m \in T : n <= m
  <2>1. IsWellFoundedOn(R, Nat)
    BY NatLessThanWellFounded
  <2> HIDE DEF T, R
  <2>2. PICK n \in T : \A m \in T : ~(<<m, n>> \in R)
    BY <1>1, <2>1, WFMin
  <2>3. \A m \in T : n <= m
    <3> TAKE m \in T
    <3>1. m \in Nat /\ n \in Nat /\ ~(<<m, n>> \in R)
      BY <1>1, <2>2
    <3>2. ~(m < n)
      BY <3>1, <1>2
    <3>3. QED
      BY <3>1, <3>2
  <2>4. QED
    BY <2>3
<1>4. PICK i \in C : n = top - i
  OBVIOUS
<1>5. \A j \in C : j <= i
  <2> TAKE j \in C
  <2>1. top - j \in T
    OBVIOUS
  <2>2. n <= top - j
    BY <2>1, <1>3
  <2>3. QED
    BY <2>2, <1>4
<1>6. QED
  BY <1>5

\* The latest claim of a stage exists as soon as the stage has a claim, and it
\* is the last one inserted.
LEMMA LatestClaimType ==
    ASSUME TypeOK, LedgerOrder, NEW s, NEW k
    PROVE  /\ LatestClaim(s, k) \in 0..Len(claims)
           /\ LatestClaim(s, k) = 0 => ClaimsOf(s, k) = {}
           /\ LatestClaim(s, k) # 0 => LatestClaim(s, k) \in ClaimsOf(s, k)
           /\ \A i \in ClaimsOf(s, k) :
                  /\ i <= LatestClaim(s, k)
                  /\ claims[i].attempt <= claims[LatestClaim(s, k)].attempt
           /\ AttemptOf(LatestClaim(s, k)) \in Nat
<1> DEFINE C == ClaimsOf(s, k)
           top == Len(claims)
<1>1. top \in Nat /\ C \in SUBSET (1..top) /\ \A i \in C : claims[i] \in Claim
  BY LedgerShape DEF ClaimsOf
<1>2. CASE C = {}
  BY <1>1, <1>2 DEF LatestClaim, AttemptOf
<1>3. CASE C # {}
  <2>1. PICK i \in C : \A j \in C : j <= i
    BY <1>1, <1>3, LargestId
  <2>2. \A j \in C : j < i => claims[j].attempt < claims[i].attempt
    BY <2>1 DEF ClaimsOf, LedgerOrder, SameStage
  <2>3. \A j \in C : claims[j].attempt <= claims[i].attempt
    BY <1>1, <2>1, <2>2 DEF Claim
  <2>4. /\ LatestClaim(s, k) \in C
        /\ \A j \in C : claims[j].attempt <= claims[LatestClaim(s, k)].attempt
    BY <1>3, <2>3 DEF LatestClaim
  <2>5. claims[i].attempt <= claims[LatestClaim(s, k)].attempt /\ LatestClaim(s, k) <= i
    BY <2>1, <2>4
  <2>6. LatestClaim(s, k) = i
    BY <1>1, <2>2, <2>4, <2>5 DEF Claim
  <2>7. QED
    BY <1>1, <2>1, <2>3, <2>6 DEF AttemptOf, Claim
<1>4. QED
  BY <1>2, <1>3

LEMMA Typed ==
    ASSUME IInv
    PROVE  /\ TypeOK /\ run \in RowType /\ Snap(run) \in Snapshot
           /\ \A w \in Workers : workers[w] \in Worker
BY SnapType DEF IInv, TypeOK, RowType

-----------------------------------------------------------------------------
(* Steps that leave the row, the ledger and the outputs alone: a worker    *)
(* moves to a program point where it holds no claim it did not hold, and   *)
(* not into a stage body.                                                  *)

LocalWorkers ==
    \A v \in Workers :
        \/ workers'[v] = workers[v]
        \/ /\ workers'[v] \in Worker
           /\ workers'[v].pc # "body"
           /\ workers'[v].claim \in {0, workers[v].claim}
           /\ WorkerFine(workers'[v])

SameRow == UNCHANGED <<claims, outs, first>> /\ Snap(run') = Snap(run)

LEMMA LocalStep ==
    ASSUME IInv, TypeOK', SameRow, LocalWorkers, SweepSound', ConsoleSound',
           sweep'.close <= Len(claims)
    PROVE  IInv'
<1> USE Typed
<1>1. run'.status = run.status /\ run'.stage = run.stage /\ run'.rev = run.rev
      /\ run'.cycle = run.cycle
  BY DEF SameRow, Snap
<1>2. RunAtStage' /\ LedgerOrder' /\ LedgerCycles' /\ CompletesOnce' /\ NoSkippedStage'
  BY <1>1 DEF IInv, SameRow, RunAtStage, LedgerOrder, LedgerCycles, SameStage, ActivelyOwned,
              IsRunning, CompletesOnce, NoSkippedStage, Behind
<1>3. \A v \in Workers : /\ workers'[v].claim \in {0, workers[v].claim}
                         /\ workers'[v].pc = "body" => workers'[v] = workers[v]
  BY DEF LocalWorkers
<1>4. ClaimIds'
  <2>1. ClaimIds /\ Len(claims) \in Nat /\ claims' = claims /\ outs' = outs
    BY LedgerShape DEF IInv, SameRow
  <2>2. \A v \in Workers : workers'[v].claim <= Len(claims)
    BY <1>3, <2>1 DEF ClaimIds
  <2>3. \A v \in Workers : workers'[v].pc = "body" => workers'[v].claim # 0
    BY <1>3, <2>1 DEF ClaimIds, At
  <2>4. \A v, u \in Workers : v # u /\ workers'[v].claim # 0
                              => workers'[v].claim # workers'[u].claim
    <3> SUFFICES ASSUME NEW v \in Workers, NEW u \in Workers, v # u, workers'[v].claim # 0
                 PROVE  workers'[v].claim # workers'[u].claim
      OBVIOUS
    <3>1. workers'[v].claim = workers[v].claim /\ workers'[u].claim \in {0, workers[u].claim}
      BY <1>3
    <3>2. workers[v].claim # 0 /\ workers[v].claim # workers[u].claim
      BY <3>1, <2>1 DEF ClaimIds
    <3>3. QED
      BY <3>1, <3>2
  <2>5. QED
    BY <2>1, <2>2, <2>3, <2>4 DEF ClaimIds, At
<1>5. WorkerSound'
  BY <1>1 DEF IInv, SameRow, LocalWorkers, WorkerSound, WorkerFine, HeldSound, Snap
<1>6. CommitFindsClaimOpen'
  BY <1>1, <1>3 DEF IInv, SameRow, CommitFindsClaimOpen, At, Current, IsRunning
<1>7. QED
  BY <1>2, <1>4, <1>5, <1>6 DEF IInv

\* The sweep and the console stay sound when nothing they look at moves.
LEMMA OthersStaySound ==
    ASSUME IInv, TypeOK', SameRow, LocalWorkers
    PROVE  /\ UNCHANGED sweep => SweepSound' /\ sweep'.close <= Len(claims)
           /\ UNCHANGED console => ConsoleSound'
<1>1. \A held : HeldSound(held) => HeldSound(held)'
  BY DEF SameRow, HeldSound, Snap
<1>2. \A v \in Workers : workers'[v].pc = "body" => workers'[v] = workers[v]
  BY DEF LocalWorkers
<1>3. QED
  BY <1>1, <1>2 DEF IInv, SweepSound, ConsoleSound, ClaimIds, At

\* One worker's own move.
LEMMA WorkerMove ==
    ASSUME IInv, NEW w \in Workers, NEW me \in Worker, Become(w, me),
           me.pc # "body", me.claim \in {0, workers[w].claim}, WorkerFine(me),
           UNCHANGED <<run, claims, outs, first, sweep, console, queuePaused>>,
           msgs' \in [Lane -> Nat], env' \in EnvType
    PROVE  IInv'
<1>1. TypeOK'
  BY BecomeType DEF IInv, TypeOK, EnvType
<1>2. LocalWorkers
  BY BecomeType DEF IInv, LocalWorkers
<1>3. SameRow
  BY DEF SameRow, Snap
<1>4. QED
  BY <1>1, <1>2, <1>3, OthersStaySound, LocalStep

LEMMA IdleFine == WorkerFine(Idle)
BY DEF WorkerFine, Idle

LEMMA EnvTyped == ASSUME TypeOK PROVE env \in EnvType
BY DEF TypeOK, EnvType

\* No worker moves.
LEMMA NoWorkerMove ==
    ASSUME IInv, TypeOK', SameRow, UNCHANGED <<workers, sweep, console>>
    PROVE  IInv'
<1>1. LocalWorkers
  BY DEF LocalWorkers
<1>2. QED
  BY <1>1, OthersStaySound, LocalStep

LEMMA DeferTaskInv ==
    ASSUME IInv, NEW w \in Workers, DeferTask(w)
    PROVE  IInv'
<1>1. msgs' \in [Lane -> Nat]
  BY TakenType DEF IInv, DeferTask, Lane
<1>2. TypeOK' /\ SameRow
  BY <1>1 DEF IInv, TypeOK, DeferTask, SameRow, Snap
<1>3. QED
  BY <1>2, NoWorkerMove DEF DeferTask

LEMMA StartTaskInv ==
    ASSUME IInv, NEW w \in Workers, NEW lane \in Lane, StartTask(w, lane)
    PROVE  IInv'
<1> DEFINE wrong == run.status = "queued" /\ LaneOf(run.stage) # lane
           me == IF wrong THEN Idle
                 ELSE [Idle EXCEPT !.pc = IF run.status = "queued" THEN "entry" ELSE "loop",
                                   !.lane = lane,
                                   !.held = IF run.status = "queued" THEN Snap(run) ELSE @]
<1>1. me \in Worker
  BY IdleType, Typed DEF Worker, Idle
<1>2. me.pc # "body" /\ me.claim = 0 /\ WorkerFine(me)
  BY IdleFine, Typed DEF WorkerFine, Idle, HeldSound, Snap, RowType
<1>3. msgs' \in [Lane -> Nat]
  <2>1. [msgs EXCEPT ![lane] = @ - 1] \in [Lane -> Nat]
    BY TakenType DEF IInv, StartTask
  <2>2. "post" \in Lane
    BY DEF Lane
  <2>3. QED
    BY <2>1, <2>2, PutType DEF StartTask
<1>4. Become(w, me) /\ UNCHANGED <<run, claims, outs, first, sweep, console, queuePaused, env>>
  BY DEF StartTask
<1>5. env' \in EnvType
  BY <1>4, EnvTyped DEF IInv
<1>6. QED
  <2> HIDE DEF me
  <2> QED BY <1>1, <1>2, <1>3, <1>4, <1>5, WorkerMove

LEMMA ReadRunInv ==
    ASSUME IInv, NEW w \in Workers, ReadRun(w)
    PROVE  IInv'
<1> DEFINE me == [workers[w] EXCEPT !.pc = "claim", !.held = Snap(run)]
<1>1. me \in Worker
  BY Typed DEF Worker
<1>2. me.pc # "body" /\ me.claim = workers[w].claim /\ WorkerFine(me)
  BY Typed DEF WorkerFine, HeldSound, Snap, RowType, Worker, ReadRun, Executable
<1>3. Become(w, me) /\ UNCHANGED <<run, claims, outs, first, msgs, sweep, console, queuePaused, env>>
  BY DEF ReadRun
<1>4. msgs' \in [Lane -> Nat] /\ env' \in EnvType
  BY <1>3, EnvTyped DEF IInv, TypeOK
<1>5. QED
  <2> HIDE DEF me
  <2> QED BY <1>1, <1>2, <1>3, <1>4, WorkerMove

\* A worker that gives its task up and becomes idle.
LEMMA GiveUp ==
    ASSUME IInv, NEW w \in Workers, Become(w, Idle), msgs' \in [Lane -> Nat], env' \in EnvType,
           UNCHANGED <<run, claims, outs, first, sweep, console, queuePaused>>
    PROVE  IInv'
<1>1. Idle.pc # "body" /\ Idle.claim = 0
  BY DEF Idle
<1>2. QED
  BY <1>1, IdleType, IdleFine, WorkerMove

LEMMA LeaveRunInv ==
    ASSUME IInv, NEW w \in Workers, LeaveRun(w)
    PROVE  IInv'
<1>1. ReturnRun(w, Snap(run)) /\ UNCHANGED env
      /\ UNCHANGED <<run, claims, outs, first, sweep, console, queuePaused>>
  BY DEF LeaveRun
<1>2. QED
  BY <1>1, ReturnRunType, EnvTyped, GiveUp DEF IInv

LEMMA RefuseClaimInv ==
    ASSUME IInv, NEW w \in Workers, RefuseClaim(w)
    PROVE  IInv'
<1>1. ReturnRun(w, Snap(run)) /\ UNCHANGED env
      /\ UNCHANGED <<run, claims, outs, first, sweep, console, queuePaused>>
  BY DEF RefuseClaim
<1>2. QED
  BY <1>1, ReturnRunType, EnvTyped, GiveUp DEF IInv

LEMMA LoseCommitInv ==
    ASSUME IInv, NEW w \in Workers, LoseCommit(w)
    PROVE  IInv'
<1> DEFINE me == [workers[w] EXCEPT !.pc = "stale", !.held = NoSnap]
<1>1. me \in Worker
  BY Typed, NoSnapType DEF Worker
<1>2. me.pc # "body" /\ me.claim = workers[w].claim /\ WorkerFine(me)
  BY Typed DEF WorkerFine, Worker
<1>3. Become(w, me) /\ UNCHANGED <<run, claims, outs, first, msgs, sweep, console, queuePaused, env>>
  BY DEF LoseCommit
<1>4. msgs' \in [Lane -> Nat] /\ env' \in EnvType
  BY <1>3, EnvTyped DEF IInv, TypeOK
<1>5. QED
  <2> HIDE DEF me
  <2> QED BY <1>1, <1>2, <1>3, <1>4, WorkerMove

LEMMA CountBudgetInv ==
    ASSUME IInv, NEW w \in Workers, CountBudget(w)
    PROVE  IInv'
<1>1. UNCHANGED <<run, claims, outs, first, msgs, sweep, console, queuePaused, env>>
      /\ msgs' \in [Lane -> Nat] /\ env' \in EnvType
  BY EnvTyped DEF IInv, TypeOK, CountBudget
<1>2. CASE ~Retryable(w)
  BY <1>1, <1>2, GiveUp DEF CountBudget
<1>3. CASE Retryable(w)
  <2> DEFINE me == [workers[w] EXCEPT !.pc = "requeue"]
  <2>1. me \in Worker
    BY Typed DEF Worker
  <2>2. me.pc # "body" /\ me.claim = workers[w].claim /\ WorkerFine(me)
    BY Typed DEF IInv, WorkerSound, WorkerFine, HeldSound, Worker, CountBudget, At
  <2>3. Become(w, me)
    BY <1>3 DEF CountBudget
  <2>4. QED
    <3> HIDE DEF me
    <3> QED BY <1>1, <2>1, <2>2, <2>3, WorkerMove
<1>4. QED
  BY <1>2, <1>3

LEMMA CrashInv ==
    ASSUME IInv, NEW w \in Workers, Crash(w)
    PROVE  IInv'
<1>1. msgs' \in [Lane -> Nat]
  BY Typed, PublishedType DEF Crash, Worker
<1>2. env' \in EnvType
  BY Typed, SpentType DEF Crash
<1>3. QED
  BY <1>1, <1>2, GiveUp DEF Crash

LEMMA RedeliverInv ==
    ASSUME IInv, NEW w \in Workers, Redeliver(w)
    PROVE  IInv'
<1>1. msgs' \in [Lane -> Nat] /\ env' \in EnvType
  BY Typed, PublishedType, SpentType DEF Redeliver, Worker
<1>2. TypeOK' /\ SameRow
  BY <1>1 DEF IInv, TypeOK, EnvType, Redeliver, SameRow, Snap
<1>3. QED
  BY <1>2, NoWorkerMove DEF Redeliver

LEMMA LoseMessageInv ==
    ASSUME IInv, NEW lane \in Lane, LoseMessage(lane)
    PROVE  IInv'
<1>1. msgs' \in [Lane -> Nat] /\ env' \in EnvType
  BY Typed, TakenType, SpentType DEF LoseMessage
<1>2. TypeOK' /\ SameRow
  BY <1>1 DEF IInv, TypeOK, EnvType, LoseMessage, SameRow, Snap
<1>3. QED
  BY <1>2, NoWorkerMove DEF LoseMessage

LEMMA SweepPublishInv ==
    ASSUME IInv, SweepPublish
    PROVE  IInv'
<1>1. msgs' \in [Lane -> Nat]
  BY Typed, PublishedType, LaneType DEF SweepPublish
<1>2. TypeOK' /\ SameRow
  BY <1>1 DEF IInv, TypeOK, SweepPublish, SameRow, Snap
<1>3. QED
  BY <1>2, NoWorkerMove DEF SweepPublish

LEMMA ToggleQueueInv ==
    ASSUME IInv, ToggleQueue
    PROVE  IInv'
<1>1. env' \in EnvType /\ queuePaused' \in BOOLEAN
  BY Typed, SpentType DEF ToggleQueue, Spend
<1>2. TypeOK' /\ SameRow
  BY <1>1 DEF IInv, TypeOK, EnvType, ToggleQueue, SameRow, Snap
<1>3. QED
  BY <1>2, NoWorkerMove DEF ToggleQueue

LEMMA UnarchiveRunInv ==
    ASSUME IInv, UnarchiveRun
    PROVE  IInv'
<1>1. env' \in EnvType /\ run' \in RowType /\ Snap(run') = Snap(run)
  BY Typed, SpentType DEF UnarchiveRun, Spend, RowType, Snap
<1>2. TypeOK' /\ SameRow
  BY <1>1 DEF IInv, TypeOK, EnvType, RowType, UnarchiveRun, SameRow
<1>3. QED
  BY <1>2, NoWorkerMove DEF UnarchiveRun

\* What the sweep reads: the row as it is, and the claim to close if the latest
\* one is still RUNNING.
LEMMA SweepReadInv ==
    ASSUME IInv, SweepRead
    PROVE  IInv'
<1> DEFINE latest == LatestClaim(run.stage, run.cycle)
<1>1. /\ latest \in 0..Len(claims) /\ AttemptOf(latest) \in Nat /\ Len(claims) \in Nat
  BY LatestClaimType, LedgerShape DEF IInv
<1>2. sweep' = [pc |-> "write", held |-> Snap(run), attempt |-> AttemptOf(latest),
                close |-> IF IsRunning(latest) THEN latest ELSE 0]
  BY DEF SweepRead
<1>3. env' \in EnvType
  BY Typed, SpentType, EnvTyped DEF SweepRead
<1>4. /\ sweep' \in [pc : {"idle", "write"}, held : Snapshot, attempt : Nat, close : Nat]
      /\ sweep'.close <= Len(claims) /\ sweep'.held = Snap(run) /\ sweep'.pc = "write"
  <2> HIDE DEF latest
  <2> QED BY <1>1, <1>2, Typed
<1>5. TypeOK' /\ SameRow /\ LocalWorkers
  BY <1>3, <1>4 DEF IInv, TypeOK, EnvType, SweepRead, SameRow, Snap, LocalWorkers
<1>6. SweepSound'
  <2>1. HeldSound(Snap(run)) /\ Snap(run).rev = run.rev /\ Snap(run).status = "running"
        /\ Snap(run).stage # 0
    BY Typed DEF SweepRead, HeldSound, Snap, RowType
  <2>2. \A w \in Workers : At(w, "body") => workers[w].held.rev <= run.rev
    BY DEF IInv, WorkerSound, WorkerFine, HeldSound, At
  <2>3. QED
    BY <1>4, <2>1, <2>2 DEF SweepSound, SweepRead, HeldSound, Snap, At
<1>7. ConsoleSound'
  BY <1>5, OthersStaySound DEF SweepRead
<1>8. QED
  BY <1>4, <1>5, <1>6, <1>7, LocalStep

LEMMA ConsoleReadInv ==
    ASSUME IInv, NEW op \in Request, ConsoleRead(op)
    PROVE  IInv'
<1>1. console' = [op |-> op, held |-> Snap(run)] /\ env' \in EnvType
  BY Typed, SpentType DEF ConsoleRead, Spend
<1>2. console' \in [op : Request \cup {"none"}, held : Snapshot]
  BY <1>1, Typed
<1>3. TypeOK' /\ SameRow /\ LocalWorkers
  BY <1>1, <1>2 DEF IInv, TypeOK, EnvType, ConsoleRead, SameRow, Snap, LocalWorkers
<1>4. ConsoleSound'
  BY <1>1, Typed DEF ConsoleSound, ConsoleRead, Accepts, HeldSound, Snap, RowType
<1>5. SweepSound' /\ sweep'.close <= Len(claims)
  BY <1>3, OthersStaySound DEF ConsoleRead
<1>6. QED
  BY <1>3, <1>4, <1>5, LocalStep
-----------------------------------------------------------------------------
(* Steps that move the row, close claims, or both.  A snapshot survives    *)
(* them: either the row is as it was, or its revision has grown.           *)

Forward ==
    \/ Snap(run') = Snap(run)
    \/ run'.rev > run.rev /\ run'.cycle >= run.cycle

\* No worker enters a stage body, and whoever moves holds no stale snapshot.
Retreats ==
    \A v \in Workers :
        \/ workers'[v] = workers[v]
        \/ /\ workers'[v].claim \in {0, workers[v].claim}
           /\ \/ workers'[v].pc \in {"idle", "loop", "stalePaused"}
              \/ /\ workers'[v].pc = "failed" /\ workers'[v].held = Snap(run')
                 /\ run'.status = "failed"

NoNewCompletion ==
    \A i \in 1..Len(claims) : claims'[i].status = "completed" => claims[i].status = "completed"

LEMMA SnapFields ==
    ASSUME NEW r
    PROVE  /\ Snap(r).status = r.status /\ Snap(r).stage = r.stage
           /\ Snap(r).rev = r.rev /\ Snap(r).cycle = r.cycle
BY DEF Snap

LEMMA HeldStaysSound ==
    ASSUME IInv, TypeOK', Forward, NEW held \in Snapshot, HeldSound(held)
    PROVE  held.rev <= run'.rev /\ (held.rev = run'.rev => held = Snap(run'))
<1>1. held.rev \in Nat /\ run.rev \in Nat /\ run'.rev \in Nat
  BY DEF IInv, TypeOK, Snapshot
<1>2. CASE Snap(run') = Snap(run)
  BY <1>2, SnapFields DEF HeldSound
<1>3. CASE run'.rev > run.rev
  BY <1>1, <1>3 DEF HeldSound
<1>4. QED
  BY <1>2, <1>3 DEF Forward

LEMMA BodiesStay ==
    ASSUME Retreats, NEW v \in Workers
    PROVE  /\ workers'[v].pc = "body" => workers'[v] = workers[v]
           /\ workers'[v].claim \in {0, workers[v].claim}
BY DEF Retreats

LEMMA RowStep ==
    ASSUME IInv, TypeOK', SameLedger, Forward, Retreats,
           RunAtStage', CommitFindsClaimOpen', CompletesOnce', NoSkippedStage',
           \A s \in Stage : outs'[s] <= Len(claims),
           sweep' \in {sweep, NoSweep}, console' \in {console, NoRequest}
    PROVE  IInv'
<1> USE Typed
<1>1. Len(claims) \in Nat /\ Len(claims') = Len(claims)
      /\ DOMAIN claims = 1..Len(claims) /\ DOMAIN claims' = 1..Len(claims)
  <2>1. DOMAIN claims' = 1..Len(claims')
    BY LenProperties DEF SameLedger
  <2>2. QED
    BY <2>1, LedgerShape DEF IInv, SameLedger
<1>2. ClaimIds'
  <2>1. \A v \in Workers : workers'[v].claim <= Len(claims)
    BY <1>1, BodiesStay DEF IInv, ClaimIds
  <2>2. \A v \in Workers : workers'[v].pc = "body" => workers'[v].claim # 0
    BY BodiesStay DEF IInv, ClaimIds, At
  <2>3. \A v, u \in Workers : v # u /\ workers'[v].claim # 0
                              => workers'[v].claim # workers'[u].claim
    <3> SUFFICES ASSUME NEW v \in Workers, NEW u \in Workers, v # u, workers'[v].claim # 0
                 PROVE  workers'[v].claim # workers'[u].claim
      OBVIOUS
    <3>1. workers'[v].claim = workers[v].claim /\ workers'[u].claim \in {0, workers[u].claim}
      BY BodiesStay
    <3>2. workers[v].claim # 0 /\ workers[v].claim # workers[u].claim
      BY <3>1 DEF IInv, ClaimIds
    <3>3. QED
      BY <3>1, <3>2
  <2>4. sweep'.close <= Len(claims)
    BY <1>1 DEF IInv, ClaimIds, NoSweep
  <2>5. QED
    BY <1>1, <2>1, <2>2, <2>3, <2>4 DEF ClaimIds, At
<1>3. WorkerSound'
  <2> SUFFICES ASSUME NEW v \in Workers PROVE WorkerFine(workers[v])'
    BY DEF WorkerSound
  <2>1. CASE workers'[v] = workers[v]
    <3>1. WorkerFine(workers[v]) /\ workers[v].held \in Snapshot /\ workers[v].claim \in Nat
      BY DEF IInv, WorkerSound, Worker
    <3>2. workers[v].pc \in {"entry", "claim", "body", "failed", "requeue"}
             => /\ workers[v].held.rev <= run'.rev
                /\ (workers[v].held.rev = run'.rev => workers[v].held = Snap(run'))
      BY <3>1, HeldStaysSound DEF WorkerFine
    <3>3. workers[v].pc = "body" => workers[v].claim \in 1..Len(claims)
      BY <1>1, <3>1 DEF IInv, ClaimIds, At
    <3>4. workers[v].pc = "body" => /\ claims'[workers[v].claim].stage = workers[v].held.stage
                                    /\ claims'[workers[v].claim].cycle = workers[v].held.cycle
      BY <3>1, <3>3 DEF WorkerFine, SameLedger
    <3>5. QED
      BY <2>1, <3>1, <3>2, <3>4 DEF WorkerFine, HeldSound
  <2>2. CASE workers'[v].pc \in {"idle", "loop", "stalePaused"}
    BY <2>2 DEF WorkerFine
  <2>3. CASE workers'[v].pc = "failed" /\ workers'[v].held = Snap(run') /\ run'.status = "failed"
    <3>1. run'.rev \in Nat /\ run'.stage # 0
      BY <2>3 DEF TypeOK, RunAtStage
    <3>2. QED
      BY <2>3, <3>1, SnapFields DEF WorkerFine, HeldSound
  <2>4. QED
    BY <2>1, <2>2, <2>3 DEF Retreats
<1>4. SweepSound'
  <2>1. CASE sweep' = NoSweep
    BY <2>1 DEF SweepSound, NoSweep
  <2>2. CASE sweep' = sweep
    <3>1. sweep.held \in Snapshot /\ SweepSound
      BY DEF IInv, TypeOK
    <3>2. sweep.pc = "write" => /\ sweep.held.rev <= run'.rev
                                /\ (sweep.held.rev = run'.rev => sweep.held = Snap(run'))
      BY <3>1, HeldStaysSound DEF SweepSound
    <3>3. QED
      BY <2>2, <3>1, <3>2, BodiesStay DEF SweepSound, HeldSound, At
  <2>3. QED
    BY <2>1, <2>2
<1>5. ConsoleSound'
  <2>1. CASE console' = NoRequest
    BY <2>1 DEF ConsoleSound, NoRequest
  <2>2. CASE console' = console
    <3>1. console.held \in Snapshot /\ ConsoleSound
      BY DEF IInv, TypeOK
    <3>2. console.op # "none" => /\ console.held.rev <= run'.rev
                                 /\ (console.held.rev = run'.rev => console.held = Snap(run'))
      BY <3>1, HeldStaysSound DEF ConsoleSound
    <3>3. QED
      BY <2>2, <3>1, <3>2 DEF ConsoleSound, HeldSound
  <2>3. QED
    BY <2>1, <2>2
<1>6. LedgerOrder'
  <2> SUFFICES ASSUME NEW i \in 1..Len(claims), NEW j \in 1..Len(claims),
                      i < j, SameStage(i, j)'
               PROVE  claims'[i].attempt < claims'[j].attempt /\ ~ActivelyOwned(i)'
    BY <1>1 DEF LedgerOrder
  <2>1. SameStage(i, j)
    BY DEF SameStage, SameLedger
  <2>2. claims[i].attempt < claims[j].attempt /\ ~ActivelyOwned(i)
    BY <1>1, <2>1 DEF IInv, LedgerOrder
  <2>3. QED
    BY <2>2 DEF SameLedger, ActivelyOwned, IsRunning
<1>7. LedgerCycles'
  <2> SUFFICES ASSUME NEW i \in 1..Len(claims) PROVE claims'[i].cycle <= run'.cycle
    BY <1>1 DEF LedgerCycles
  <2>1. claims'[i].cycle = claims[i].cycle /\ claims[i].cycle <= run.cycle /\ claims[i].cycle \in Nat
    BY <1>1, LedgerShape DEF IInv, LedgerCycles, SameLedger, Claim
  <2>2. run.cycle \in Nat /\ run'.cycle \in Nat
    BY DEF IInv, TypeOK
  <2>3. Snap(run') = Snap(run) => run'.cycle = run.cycle
    BY SnapFields
  <2>4. run.cycle <= run'.cycle
    BY <2>2, <2>3 DEF Forward
  <2>5. QED
    BY <2>1, <2>2, <2>4
<1>8. QED
  BY <1>2, <1>3, <1>4, <1>5, <1>6, <1>7 DEF IInv

\* Once the revision has grown no commit in flight can win.
LEMMA NobodyCommits ==
    ASSUME IInv, TypeOK', Retreats, run'.rev > run.rev
    PROVE  CommitFindsClaimOpen'
<1> SUFFICES ASSUME NEW v \in Workers, workers'[v].pc = "body", workers'[v].held.rev = run'.rev
             PROVE  FALSE
  BY DEF CommitFindsClaimOpen, At, Current
<1>1. workers[v].pc = "body" /\ workers[v].held.rev = run'.rev
  BY BodiesStay
<1>2. workers[v].held.rev <= run.rev
  BY <1>1 DEF IInv, WorkerSound, WorkerFine, HeldSound
<1>3. run.rev \in Nat /\ run'.rev \in Nat
  BY DEF IInv, TypeOK
<1>4. QED
  BY <1>1, <1>2, <1>3

\* A step in the same cycle that completes no claim and passes no stage.
LEMMA NothingCompletes ==
    ASSUME IInv, SameLedger, NoNewCompletion, UNCHANGED <<outs, first>>,
           run'.cycle = run.cycle, Behind' = Behind
    PROVE  CompletesOnce' /\ NoSkippedStage'
<1>1. Len(claims) \in Nat
      /\ DOMAIN claims = 1..Len(claims) /\ DOMAIN claims' = 1..Len(claims)
  <2>1. DOMAIN claims' = 1..Len(claims')
    BY LenProperties DEF SameLedger
  <2>2. QED
    BY <2>1, LedgerShape DEF IInv, SameLedger
<1>2. CompletesOnce'
  <2>1. \A i \in 1..Len(claims) :
            claims'[i].status = "completed"
                => /\ claims[i].status = "completed" /\ claims'[i].stage = claims[i].stage
                   /\ claims'[i].cycle = claims[i].cycle
    BY DEF SameLedger, NoNewCompletion
  <2>2. CompletesOnce
    BY DEF IInv
  <2>3. QED
    BY <1>1, <2>1, <2>2 DEF CompletesOnce
<1>3. NoSkippedStage'
  <2> SUFFICES ASSUME NEW s \in Behind', s >= first
               PROVE  /\ outs[s] # 0 /\ claims'[outs[s]].stage = s
                      /\ claims'[outs[s]].cycle = run.cycle
    BY DEF NoSkippedStage
  <2>1. s \in Behind /\ s \in Stage
    BY DEF Behind
  <2>2. outs[s] # 0 /\ claims[outs[s]].stage = s /\ claims[outs[s]].cycle = run.cycle
    BY <2>1 DEF IInv, NoSkippedStage
  <2>3. outs[s] \in 1..Len(claims)
    BY <1>1, <2>1, <2>2 DEF IInv, ClaimIds, TypeOK
  <2>4. QED
    BY <2>2, <2>3 DEF SameLedger
<1>4. QED
  BY <1>2, <1>3
\* A step that closes claims and leaves the row alone.
LEMMA LedgerStep ==
    ASSUME IInv, TypeOK', SameLedger, NoNewCompletion, Retreats, CommitFindsClaimOpen',
           UNCHANGED <<run, outs, first, console>>, sweep' \in {sweep, NoSweep}
    PROVE  IInv'
<1>1. Forward /\ RunAtStage' /\ Behind' = Behind
  <2>1. Forward
    <3>1. run' = run
      OBVIOUS
    <3>2. Snap(run') = Snap(run)
      BY <3>1
    <3>3. QED
      BY <3>2 DEF Forward
  <2>2. RunAtStage'
    BY DEF IInv, RunAtStage
  <2>3. Behind' = Behind
    BY DEF Behind
  <2>4. QED
    BY <2>1, <2>2, <2>3
<1>2. CompletesOnce' /\ NoSkippedStage'
  BY <1>1, NothingCompletes
<1>3. \A s \in Stage : outs'[s] <= Len(claims)
  BY DEF IInv, ClaimIds
<1>4. QED
  BY <1>1, <1>2, <1>3, RowStep

\* A claim of the ledger closed as anything but COMPLETED.
LEMMA ClosesOne ==
    ASSUME IInv, NEW c \in 1..Len(claims), NEW status \in {"skipped", "failed"},
           NEW cause \in Cause, FinishClaim(c, status, cause)
    PROVE  /\ SameLedger /\ NoNewCompletion
           /\ \A i \in 1..Len(claims) : i # c => claims'[i] = claims[i]
<1>1. status \in ClaimStatus /\ status # "running" /\ status # "completed"
  BY DEF ClaimStatus
<1>2. QED
  BY <1>1, FinishClaimKeepsLedger DEF IInv, NoNewCompletion

\* The claim a stale worker was in is SKIPPED; no other worker works on it.
LEMMA StopClaim ==
    ASSUME IInv, NEW w \in Workers, NEW me \in Worker, Become(w, me),
           me.claim \in {0, workers[w].claim}, me.pc \in {"idle", "stalePaused"},
           SkipIfRunning(workers[w].claim) \/ UNCHANGED claims,
           UNCHANGED <<run, outs, first, msgs, sweep, console, queuePaused, env>>
    PROVE  IInv'
<1> DEFINE c == workers[w].claim
<1>1. c \in Nat /\ c <= Len(claims) /\ Len(claims) \in Nat
  BY Typed, LedgerShape DEF IInv, ClaimIds, Worker
<1>2. SameLedger /\ NoNewCompletion /\ \A i \in 1..Len(claims) : i # c => claims'[i] = claims[i]
  <2>1. CASE UNCHANGED claims
    BY <2>1, UnchangedLedger DEF IInv, NoNewCompletion
  <2>2. CASE c # 0 /\ FinishClaim(c, "skipped", "none")
    <3>1. c \in 1..Len(claims) /\ "none" \in Cause
      BY <1>1, <2>2 DEF Cause
    <3>2. QED
      BY <2>2, <3>1, ClosesOne
  <2>3. QED
    BY <2>1, <2>2 DEF SkipIfRunning, IsRunning
<1>3. Retreats
  BY BecomeType DEF IInv, Retreats
<1>4. TypeOK'
  BY <1>2, BecomeType DEF IInv, TypeOK, SameLedger
<1>5. CommitFindsClaimOpen'
  <2> SUFFICES ASSUME NEW v \in Workers, workers'[v].pc = "body", workers'[v].held.rev = run.rev
               PROVE  workers'[v].claim # 0 /\ claims'[workers'[v].claim].status = "running"
    BY DEF CommitFindsClaimOpen, At, Current, IsRunning
  <2>1. v # w /\ workers'[v] = workers[v]
    BY BecomeType DEF IInv
  <2>2. workers[v].claim # 0 /\ claims[workers[v].claim].status = "running"
    BY <2>1 DEF IInv, CommitFindsClaimOpen, At, Current, IsRunning
  <2>3. workers[v].claim # c /\ workers[v].claim \in 1..Len(claims)
    BY <1>1, <2>1, <2>2, Typed DEF IInv, ClaimIds, Worker
  <2>4. QED
    BY <1>2, <2>1, <2>2, <2>3
<1>6. QED
  BY <1>2, <1>3, <1>4, <1>5, LedgerStep

LEMMA StopIfCancelledInv ==
    ASSUME IInv, NEW w \in Workers, StopIfCancelled(w)
    PROVE  IInv'
<1>1. CASE run.status = "cancelled"
  <2>1. Idle.claim = 0 /\ Idle.pc = "idle"
    BY DEF Idle
  <2>2. QED
    BY <1>1, <2>1, IdleType, StopClaim DEF StopIfCancelled
<1>2. CASE run.status # "cancelled"
  <2> DEFINE me == [workers[w] EXCEPT !.pc = "stalePaused"]
  <2>1. me \in Worker /\ me.claim = workers[w].claim /\ me.pc = "stalePaused"
    BY Typed DEF Worker
  <2>2. Become(w, me) /\ UNCHANGED claims
        /\ UNCHANGED <<run, outs, first, msgs, sweep, console, queuePaused, env>>
    BY <1>2 DEF StopIfCancelled
  <2>3. QED
    <3> HIDE DEF me
    <3> QED BY <2>1, <2>2, StopClaim
<1>3. QED
  BY <1>1, <1>2

LEMMA StopIfPausedInv ==
    ASSUME IInv, NEW w \in Workers, StopIfPaused(w)
    PROVE  IInv'
<1>1. Idle.claim = 0 /\ Idle.pc = "idle"
  BY DEF Idle
<1>2. QED
  BY <1>1, IdleType, StopClaim DEF StopIfPaused

LEMMA LeaseExpiresInv ==
    ASSUME IInv, NEW c \in DOMAIN claims, LeaseExpires(c)
    PROVE  IInv'
<1> DEFINE row == [claims[c] EXCEPT !.live = FALSE]
<1>1. c \in 1..Len(claims) /\ claims[c] \in Claim /\ claims \in Seq(Claim)
  BY LedgerShape DEF IInv, TypeOK
<1>2. /\ row \in Claim /\ row.stage = claims[c].stage /\ row.cycle = claims[c].cycle
      /\ row.attempt = claims[c].attempt /\ row.status = claims[c].status /\ ~row.live
  BY <1>1 DEF Claim
<1>3. claims' = [claims EXCEPT ![c] = row]
  BY <1>1 DEF LeaseExpires
<1>4. /\ claims' \in Seq(Claim)
      /\ Len(claims') = Len(claims)
      /\ \A j \in 1..Len(claims) : claims'[j] = IF j = c THEN row ELSE claims[j]
  <2> HIDE DEF row
  <2> QED BY <1>1, <1>2, <1>3, ExceptSeq
<1>5. SameLedger /\ NoNewCompletion
      /\ \A j \in 1..Len(claims) : claims'[j].status = claims[j].status
  <2> HIDE DEF row
  <2> QED BY <1>2, <1>4 DEF SameLedger, NoNewCompletion
<1>6. env' \in EnvType
  BY Typed, SpentType, EnvTyped DEF LeaseExpires
<1>7. TypeOK' /\ Retreats
  BY <1>4, <1>6 DEF IInv, TypeOK, EnvType, LeaseExpires, Retreats
<1>8. CommitFindsClaimOpen'
  <2> SUFFICES ASSUME NEW v \in Workers, workers[v].pc = "body", workers[v].held.rev = run.rev
               PROVE  workers[v].claim # 0 /\ claims'[workers[v].claim].status = "running"
    BY DEF CommitFindsClaimOpen, At, Current, IsRunning, LeaseExpires
  <2>1. workers[v].claim # 0 /\ claims[workers[v].claim].status = "running"
    BY DEF IInv, CommitFindsClaimOpen, At, Current, IsRunning
  <2>2. workers[v].claim \in 1..Len(claims)
    BY <2>1, Typed, LedgerShape DEF IInv, ClaimIds, Worker
  <2>3. QED
    BY <1>5, <2>1, <2>2
<1>9. QED
  BY <1>5, <1>7, <1>8, LedgerStep DEF LeaseExpires

LEMMA SweepCloseInv ==
    ASSUME IInv, SweepClose
    PROVE  IInv'
<1>1. /\ Len(claims) \in Nat /\ DOMAIN claims = 1..Len(claims)
      /\ \A i \in 1..Len(claims) : claims[i] \in Claim
  BY LedgerShape DEF IInv
<1>2. "skipped" \in ClaimStatus /\ "none" \in Cause
  BY DEF ClaimStatus, Cause
<1> DEFINE row(i) == IF i \in Abandoned THEN Closed(claims[i], "skipped", "none") ELSE claims[i]
<1>3. \A i \in 1..Len(claims) :
          /\ row(i) \in Claim /\ row(i).stage = claims[i].stage /\ row(i).cycle = claims[i].cycle
          /\ row(i).attempt = claims[i].attempt
          /\ row(i).live => claims[i].live
          /\ row(i).status = claims[i].status \/ row(i).status = "skipped"
  BY <1>1, <1>2, ClosedClaim
<1>4. claims' = [i \in 1..Len(claims) |-> row(i)]
  BY <1>1 DEF SweepClose
<1>5. claims' \in Seq(Claim) /\ Len(claims') = Len(claims)
      /\ \A i \in 1..Len(claims) : claims'[i] = row(i)
  <2> HIDE DEF row
  <2>1. \A i \in 1..Len(claims) : claims'[i] = row(i)
    BY <1>4
  <2>2. claims' \in [1..Len(claims) -> Claim]
    BY <1>3, <1>4
  <2>3. claims' \in Seq(Claim)
    BY <1>1, <2>2
  <2>4. Len(claims') = Len(claims)
    BY <1>1, <2>2, <2>3, LenProperties
  <2>5. QED
    BY <2>1, <2>3, <2>4
<1>6. SameLedger /\ NoNewCompletion
  <2> HIDE DEF row
  <2> QED BY <1>3, <1>5 DEF SameLedger, NoNewCompletion
<1>7. TypeOK' /\ Retreats
  BY <1>5 DEF IInv, TypeOK, SweepClose, Retreats
<1>8. CommitFindsClaimOpen'
  <2>1. run.status \in {"cancelled", "paused"}
    BY DEF SweepClose, Abandoned
  <2>2. \A v \in Workers : workers[v].pc = "body" => workers[v].held.rev # run.rev
    BY <2>1 DEF IInv, WorkerSound, WorkerFine, HeldSound, Snap
  <2>3. QED
    BY <2>2 DEF CommitFindsClaimOpen, At, Current, SweepClose
<1>9. QED
  BY <1>6, <1>7, <1>8, LedgerStep DEF SweepClose
-----------------------------------------------------------------------------
(* Steps that move the row within its cycle. *)

\* What Moved leaves behind, with its revision one higher.
LEMMA MovedRow ==
    ASSUME TypeOK, NEW status \in RunStatus, NEW stage \in MaybeStage,
           run' = Moved(run, status, stage)
    PROVE  /\ run' \in RowType /\ Forward
           /\ run'.status = status /\ run'.stage = stage
           /\ run'.rev > run.rev /\ run'.cycle = run.cycle
<1>1. run \in RowType
  BY DEF TypeOK, RowType
<1>2. /\ run' \in RowType
      /\ run'.status = status /\ run'.stage = stage
      /\ run'.rev = run.rev + 1 /\ run'.cycle = run.cycle
  BY <1>1, MovedType
<1>3. run.rev \in Nat /\ run.cycle \in Nat
  BY <1>1 DEF RowType
<1>4. QED
  BY <1>2, <1>3 DEF Forward

\* A row that keeps its place: every CAS but the commit's and the restart's.
LEMMA PlaceKept ==
    ASSUME IInv, TypeOK', SameLedger, NoNewCompletion, Retreats,
           UNCHANGED <<outs, first>>,
           run'.rev > run.rev, run'.cycle = run.cycle,
           run.status # "completed", run'.status # "completed",
           run'.stage = run.stage \/ (run.stage = 0 /\ run'.stage = 1),
           run'.status \in {"running", "failed"} => run'.stage # 0,
           sweep' \in {sweep, NoSweep}, console' \in {console, NoRequest}
    PROVE  IInv'
<1>1. run.cycle \in Nat
  BY DEF IInv, TypeOK
<1>2. Forward /\ RunAtStage'
  BY <1>1 DEF Forward, RunAtStage
<1>3. Behind' = Behind
  BY DEF Behind, Stage
<1>4. CompletesOnce' /\ NoSkippedStage'
  BY <1>3, NothingCompletes
<1>5. CommitFindsClaimOpen'
  BY NobodyCommits
<1>6. \A s \in Stage : outs'[s] <= Len(claims)
  BY DEF IInv, ClaimIds
<1>7. QED
  BY <1>2, <1>4, <1>5, <1>6, RowStep

\* An actor at the current revision holds the row itself.
LEMMA CurrentIsRow ==
    ASSUME NEW held, HeldSound(held), Current(held)
    PROVE  /\ held = Snap(run)
           /\ held.status = run.status /\ held.stage = run.stage
           /\ held.rev = run.rev /\ held.cycle = run.cycle
BY SnapFields DEF HeldSound, Current

\* The row's stage is a stage or None.
LEMMA RowStage ==
    ASSUME IInv
    PROVE  /\ run \in RowType /\ run.rev \in Nat
           /\ run.stage \in MaybeStage /\ (run.stage # 0 => run.stage \in Stage)
<1>1. run \in RowType
  BY Typed
<1>2. run.rev \in Nat /\ run.stage \in MaybeStage
  BY <1>1 DEF RowType
<1>3. QED
  BY <1>1, <1>2 DEF MaybeStage, Stage

\* A worker whose snapshot is the row: what the program point says of the row.
LEMMA WorkerHolds ==
    ASSUME IInv, NEW w \in Workers, Current(workers[w].held)
    PROVE  /\ At(w, "entry") => /\ run.status = "queued" /\ workers[w].held.stage = run.stage
           /\ At(w, "body") => /\ run.status = "running" /\ workers[w].held.stage = run.stage
                               /\ run.stage # 0 /\ workers[w].held.cycle = run.cycle
           /\ At(w, "requeue") => /\ run.status = "failed" /\ workers[w].held.stage = run.stage
                                  /\ run.stage # 0
<1>1. WorkerFine(workers[w])
  BY DEF IInv, WorkerSound
<1>2. ASSUME HeldSound(workers[w].held)
      PROVE  /\ workers[w].held.status = run.status /\ workers[w].held.stage = run.stage
             /\ workers[w].held.cycle = run.cycle
  BY <1>2, CurrentIsRow
<1>3. CASE At(w, "entry")
  BY <1>1, <1>2, <1>3 DEF WorkerFine, At
<1>4. CASE At(w, "body")
  BY <1>1, <1>2, <1>4 DEF WorkerFine, At
<1>5. CASE At(w, "requeue")
  BY <1>1, <1>2, <1>5 DEF WorkerFine, At
<1>6. QED
  BY <1>3, <1>4, <1>5

\* The same of the sweep's snapshot, and of the one an operator's request was read on.
LEMMA SweepHolds ==
    ASSUME IInv, sweep.pc = "write", Current(sweep.held)
    PROVE  run.status = "running" /\ run.stage # 0
<1>1. HeldSound(sweep.held) /\ sweep.held.status = "running" /\ sweep.held.stage # 0
  BY DEF IInv, SweepSound
<1>2. QED
  BY <1>1, CurrentIsRow

LEMMA ConsoleHolds ==
    ASSUME IInv, console.op # "none", Current(console.held)
    PROVE  console.held.stage = run.stage /\ console.held.status = run.status
<1>1. HeldSound(console.held)
  BY DEF IInv, ConsoleSound
<1>2. QED
  BY <1>1, CurrentIsRow

LEMMA EnterRunInv ==
    ASSUME IInv, NEW w \in Workers, EnterRun(w)
    PROVE  IInv'
<1> DEFINE held == workers[w].held
           me == [workers[w] EXCEPT !.pc = "loop", !.held = NoSnap]
<1>1. /\ me \in Worker /\ me.pc = "loop" /\ me.claim = workers[w].claim
      /\ Become(w, me)
  BY Typed, NoSnapType DEF Worker, EnterRun
<1>2. UNCHANGED <<claims, outs, first, msgs, sweep, console, queuePaused, env>>
      /\ run' = IF Current(held) THEN Moved(run, "running", EntryStage(held.stage)) ELSE run
  BY DEF EnterRun
<1>3. CASE ~Current(held)
  <2>1. run' = run /\ WorkerFine(me)
    BY <1>1, <1>2, <1>3 DEF WorkerFine
  <2>2. msgs' \in [Lane -> Nat] /\ env' \in EnvType
    BY <1>2, EnvTyped DEF IInv, TypeOK
  <2>3. QED
    <3> HIDE DEF me, held
    <3> QED BY <1>1, <1>2, <2>1, <2>2, WorkerMove
<1>4. CASE Current(held)
  <2>1. held.stage = run.stage /\ run.status = "queued" /\ run.stage \in MaybeStage
    BY <1>4, WorkerHolds, RowStage DEF EnterRun
  <2>2. /\ EntryStage(run.stage) \in Stage
        /\ EntryStage(run.stage) = run.stage \/ (run.stage = 0 /\ EntryStage(run.stage) = 1)
    BY <2>1, NextStageType DEF EntryStage
  <2>3. /\ run' \in RowType /\ run'.rev > run.rev /\ run'.cycle = run.cycle
        /\ run'.status = "running" /\ run'.stage = EntryStage(run.stage)
        /\ run'.stage # 0
    BY <1>2, <1>4, <2>1, <2>2, MovedRow DEF IInv, RunStatus, MaybeStage, Stage
  <2>4. Retreats /\ TypeOK'
    <3> HIDE DEF me, held
    <3>1. workers' \in [Workers -> Worker] /\ workers'[w] = me
          /\ \A v \in Workers : v # w => workers'[v] = workers[v]
      BY <1>1, BecomeType DEF IInv
    <3>2. QED
      BY <1>1, <1>2, <2>3, <3>1 DEF IInv, TypeOK, RowType, Retreats
  <2>5. SameLedger /\ NoNewCompletion
    BY <1>2, UnchangedLedger DEF IInv, NoNewCompletion
  <2>6. QED
    BY <1>2, <2>1, <2>2, <2>3, <2>4, <2>5, PlaceKept
<1>5. QED
  BY <1>3, <1>4

LEMMA RequeueFailedStageInv ==
    ASSUME IInv, NEW w \in Workers, RequeueFailedStage(w)
    PROVE  IInv'
<1> DEFINE held == workers[w].held
<1>1. Become(w, Idle)
      /\ UNCHANGED <<claims, outs, first, sweep, console, queuePaused, env>>
  BY DEF RequeueFailedStage
<1>2. Idle.claim = 0 /\ Idle.pc = "idle"
  BY DEF Idle
<1>3. CASE ~Current(held)
  <2>1. UNCHANGED <<run, msgs>> /\ msgs' \in [Lane -> Nat] /\ env' \in EnvType
    BY <1>1, <1>3, EnvTyped DEF RequeueFailedStage, IInv, TypeOK
  <2>2. QED
    BY <1>1, <2>1, GiveUp
<1>4. CASE Current(held)
  <2>1. held.stage = run.stage /\ run.status = "failed" /\ run.stage # 0 /\ run.stage \in MaybeStage
    BY <1>4, WorkerHolds, RowStage DEF RequeueFailedStage
  <2>2. run' = Moved(run, "queued", held.stage) /\ msgs' = Published(workers[w].lane)
    BY <1>4 DEF RequeueFailedStage
  <2>3. /\ run' \in RowType /\ run'.rev > run.rev /\ run'.cycle = run.cycle
        /\ run'.status = "queued" /\ run'.stage = run.stage
    BY <2>1, <2>2, MovedRow DEF IInv, RunStatus
  <2>4. msgs' \in [Lane -> Nat]
    BY <2>2, Typed, PublishedType DEF Worker
  <2>5. Retreats /\ TypeOK'
    <3>1. workers' \in [Workers -> Worker] /\ workers'[w] = Idle
          /\ \A v \in Workers : v # w => workers'[v] = workers[v]
      BY <1>1, IdleType, BecomeType DEF IInv
    <3>2. QED
      BY <1>1, <1>2, <2>3, <2>4, <3>1 DEF IInv, TypeOK, RowType, Retreats
  <2>6. SameLedger /\ NoNewCompletion
    BY <1>1, UnchangedLedger DEF IInv, NoNewCompletion
  <2>7. QED
    BY <1>1, <2>1, <2>3, <2>5, <2>6, PlaceKept
<1>5. QED
  BY <1>3, <1>4

LEMMA FailStageInv ==
    ASSUME IInv, NEW w \in Workers, NEW cause \in {"saturated", "transient", "fatal"},
           FailStage(w, cause)
    PROVE  IInv'
<1> DEFINE c == workers[w].claim
           me == [workers[w] EXCEPT !.pc = "failed", !.held = Snap(run'),
                                    !.claim = 0, !.cause = cause]
<1>1. /\ run' = Moved(run, "failed", workers[w].held.stage)
      /\ FinishClaim(c, "failed", cause) /\ Become(w, me)
      /\ UNCHANGED <<outs, first, msgs, sweep, console, queuePaused>>
  BY DEF FailStage
<1>2. /\ workers[w].held.stage = run.stage /\ run.status = "running"
      /\ run.stage # 0 /\ run.stage \in MaybeStage
  BY WorkerHolds, RowStage DEF FailStage
<1>3. /\ run' \in RowType /\ run'.rev > run.rev /\ run'.cycle = run.cycle
      /\ run'.status = "failed" /\ run'.stage = run.stage
  BY <1>1, <1>2, MovedRow DEF IInv, RunStatus
<1>4. c \in 1..Len(claims)
  BY Typed, LedgerShape DEF IInv, ClaimIds, Worker, FailStage, At
<1>5. SameLedger /\ NoNewCompletion
  BY <1>1, <1>4, ClosesOne DEF Cause
<1>6. /\ me \in Worker /\ me.pc = "failed" /\ me.claim = 0 /\ me.held = Snap(run')
  BY <1>3, Typed, SnapType DEF Worker, Cause
<1>7. env' \in EnvType
  BY Typed, SpentType DEF FailStage
<1>8. Retreats /\ TypeOK'
  <2> HIDE DEF me, c
  <2>1. workers' \in [Workers -> Worker] /\ workers'[w] = me
        /\ \A v \in Workers : v # w => workers'[v] = workers[v]
    BY <1>1, <1>6, BecomeType DEF IInv
  <2>2. Retreats
    BY <1>3, <1>6, <2>1 DEF Retreats
  <2>3. TypeOK'
    BY <1>1, <1>3, <1>5, <1>7, <2>1 DEF IInv, TypeOK, RowType, EnvType, SameLedger
  <2>4. QED
    BY <2>2, <2>3
<1>9. QED
  BY <1>1, <1>2, <1>3, <1>5, <1>8, PlaceKept
\* The sweep's write: the claim it saw RUNNING is FAILED either way; the row
\* moves only if it is still the one the sweep read.
LEMMA SweepWriteInv ==
    ASSUME IInv, SweepWrite
    PROVE  IInv'
<1>1. /\ UNCHANGED <<outs, first, workers, msgs, console, queuePaused, env>>
      /\ sweep' = NoSweep
      /\ run' = IF Current(sweep.held) THEN Reclaimed(run) ELSE run
  BY DEF SweepWrite
<1>2. Len(claims) \in Nat /\ sweep.close \in Nat /\ sweep.close <= Len(claims)
  BY LedgerShape DEF IInv, TypeOK, ClaimIds
<1>3. /\ SameLedger /\ NoNewCompletion
      /\ \A i \in 1..Len(claims) : i # sweep.close => claims'[i] = claims[i]
  <2>1. CASE sweep.close = 0
    <3>1. UNCHANGED claims
      BY <2>1 DEF SweepWrite
    <3>2. QED
      BY <3>1, UnchangedLedger DEF IInv, NoNewCompletion
  <2>2. CASE sweep.close # 0
    <3>1. sweep.close \in 1..Len(claims) /\ "interrupted" \in Cause
      BY <1>2, <2>2 DEF Cause
    <3>2. QED
      BY <2>2, <3>1, ClosesOne DEF SweepWrite
  <2>3. QED
    BY <2>1, <2>2
<1>4. Retreats /\ NoSweep \in [pc : {"idle", "write"}, held : Snapshot, attempt : Nat, close : Nat]
  BY <1>1, NoSnapType DEF Retreats, NoSweep
<1>5. CASE ~Current(sweep.held)
  <2>1. run' = run
    BY <1>1, <1>5
  <2>2. TypeOK'
    BY <1>1, <1>3, <1>4, <2>1 DEF IInv, TypeOK, SameLedger
  <2>3. CommitFindsClaimOpen'
    <3> SUFFICES ASSUME NEW v \in Workers, workers[v].pc = "body", workers[v].held.rev = run.rev
                 PROVE  workers[v].claim # 0 /\ claims'[workers[v].claim].status = "running"
      BY <1>1, <2>1 DEF CommitFindsClaimOpen, At, Current, IsRunning
    <3>1. workers[v].claim # 0 /\ claims[workers[v].claim].status = "running"
      BY DEF IInv, CommitFindsClaimOpen, At, Current, IsRunning
    <3>2. workers[v].claim \in 1..Len(claims)
      BY <1>2, <3>1, Typed DEF IInv, ClaimIds, Worker
    <3>3. workers[v].claim # sweep.close
      <4> SUFFICES ASSUME workers[v].claim = sweep.close PROVE FALSE
        OBVIOUS
      <4>1. run.rev <= sweep.held.rev
        BY <3>1 DEF IInv, SweepSound, At
      <4>2. sweep.held.rev <= run.rev /\ sweep.held.rev # run.rev
        BY <1>5 DEF IInv, SweepSound, HeldSound, Current, SweepWrite
      <4>3. run.rev \in Nat /\ sweep.held.rev \in Nat
        BY DEF IInv, TypeOK, Snapshot
      <4>4. QED
        BY <4>1, <4>2, <4>3
    <3>4. QED
      BY <1>3, <3>1, <3>2, <3>3
  <2>4. QED
    BY <1>1, <1>3, <1>4, <2>1, <2>2, <2>3, LedgerStep
<1>6. CASE Current(sweep.held)
  <2>1. /\ run.status = "running" /\ run.stage # 0 /\ run.stage \in MaybeStage
        /\ run \in RowType /\ run.rev \in Nat
    BY <1>6, SweepHolds, RowStage DEF SweepWrite
  <2> DEFINE failed == Moved(run, "failed", run.stage)
             queued == Moved(failed, "queued", run.stage)
  <2>2. /\ failed \in RowType /\ failed.status = "failed" /\ failed.stage = run.stage
        /\ failed.rev = run.rev + 1 /\ failed.cycle = run.cycle
    <3>1. "failed" \in RunStatus
      BY DEF RunStatus
    <3>2. QED
      BY <2>1, <3>1, MovedType
  <2>3. /\ queued \in RowType /\ queued.status = "queued" /\ queued.stage = run.stage
        /\ queued.rev = run.rev + 2 /\ queued.cycle = run.cycle
    <3> HIDE DEF failed
    <3>1. "queued" \in RunStatus
      BY DEF RunStatus
    <3>2. /\ queued \in RowType /\ queued.status = "queued" /\ queued.stage = run.stage
          /\ queued.rev = failed.rev + 1 /\ queued.cycle = failed.cycle
      BY <2>1, <2>2, <3>1, MovedType
    <3>3. QED
      BY <2>1, <2>2, <3>2
  <2>4. run' = failed \/ run' = queued
    BY <1>1, <1>6 DEF Reclaimed
  <2>5. /\ run' \in RowType /\ run'.status \in {"failed", "queued"} /\ run'.stage = run.stage
        /\ run'.rev > run.rev /\ run'.cycle = run.cycle
    <3> HIDE DEF failed, queued
    <3> QED BY <2>1, <2>2, <2>3, <2>4
  <2>6. TypeOK'
    BY <1>1, <1>3, <1>4, <2>5 DEF IInv, TypeOK, SameLedger, RowType
  <2>7. QED
    BY <1>1, <1>3, <1>4, <2>1, <2>5, <2>6, PlaceKept
<1>7. QED
  BY <1>5, <1>6

LEMMA ConsoleWriteInv ==
    ASSUME IInv, ConsoleWrite
    PROVE  IInv'
<1> DEFINE held == console.held
           wins == console.op # "archive" /\ Current(held)
<1>1. /\ UNCHANGED <<claims, outs, first, workers, sweep, queuePaused, env>>
      /\ console' = NoRequest
      /\ run' = IF console.op = "archive" THEN [run EXCEPT !.archived = TRUE]
                ELSE IF wins THEN Moved(run, Target(console.op), held.stage)
                ELSE run
      /\ msgs' = IF wins /\ Target(console.op) = "queued"
                 THEN Published(LaneOf(held.stage)) ELSE msgs
  BY DEF ConsoleWrite
<1>2. msgs' \in [Lane -> Nat]
  BY <1>1, Typed, PublishedType, LaneType DEF TypeOK
<1>3. NoRequest \in [op : Request \cup {"none"}, held : Snapshot]
  BY NoSnapType DEF NoRequest
<1>4. SameLedger /\ NoNewCompletion /\ Retreats
  BY <1>1, UnchangedLedger DEF IInv, NoNewCompletion, Retreats
<1>5. CASE ~wins
  <2>1. run' \in RowType /\ Snap(run') = Snap(run)
    BY <1>1, <1>5, Typed DEF RowType, Snap
  <2>2. TypeOK' /\ SameRow /\ LocalWorkers
    BY <1>1, <1>2, <1>3, <2>1 DEF IInv, TypeOK, RowType, SameRow, LocalWorkers
  <2>3. ConsoleSound'
    BY <1>1 DEF ConsoleSound, NoRequest
  <2>4. SweepSound' /\ sweep'.close <= Len(claims)
    BY <1>1, <2>2, OthersStaySound
  <2>5. QED
    BY <2>2, <2>3, <2>4, LocalStep
<1>6. CASE wins
  <2>1. console.op \in {"cancel", "pause", "resume", "requeue"}
    BY <1>6 DEF ConsoleWrite, IInv, TypeOK, Request
  <2>2. /\ held.stage = run.stage /\ held.status = run.status /\ run.stage \in MaybeStage
    BY <1>6, <2>1, ConsoleHolds, RowStage
  <2>3. run.status # "completed"
    BY <2>1, <2>2 DEF IInv, ConsoleSound
  <2>4. Target(console.op) \in {"cancelled", "paused", "queued"}
    BY <2>1 DEF Target
  <2>5. /\ run' \in RowType /\ run'.rev > run.rev /\ run'.cycle = run.cycle
        /\ run'.status \in {"cancelled", "paused", "queued"} /\ run'.stage = run.stage
    <3>1. run' = Moved(run, Target(console.op), run.stage)
      BY <1>1, <1>6, <2>2
    <3>2. Target(console.op) \in RunStatus
      BY <2>4 DEF RunStatus
    <3>3. QED
      BY <2>2, <2>4, <3>1, <3>2, MovedRow DEF IInv
  <2>6. TypeOK'
    BY <1>1, <1>2, <1>3, <2>5 DEF IInv, TypeOK, RowType
  <2>7. QED
    <3> HIDE DEF held, wins
    <3> QED BY <1>1, <1>4, <2>3, <2>5, <2>6, PlaceKept
<1>7. QED
  BY <1>5, <1>6

-----------------------------------------------------------------------------
(* A new cycle: whatever the ledger holds belongs to an older one. *)

LEMMA RestartRunInv ==
    ASSUME IInv, NEW s \in MaybeStage, RestartRun(s)
    PROVE  IInv'
<1> DEFINE moved == Moved(run, "queued", s)
<1>1. /\ UNCHANGED <<claims, workers, sweep, console, queuePaused>>
      /\ outs' = Invalidated(EntryStage(s)) /\ first' = EntryStage(s)
      /\ run' = [moved EXCEPT !.cycle = @ + 1]
      /\ msgs' = Published(LaneOf(s))
  BY DEF RestartRun
<1>2. /\ run' \in RowType /\ run'.rev > run.rev /\ run'.cycle > run.cycle
      /\ run'.status = "queued" /\ run'.stage = s
  <2>1. run \in RowType /\ "queued" \in RunStatus
    BY Typed DEF RunStatus
  <2>2. /\ moved \in RowType /\ moved.status = "queued" /\ moved.stage = s
        /\ moved.rev = run.rev + 1 /\ moved.cycle = run.cycle
    BY <2>1, MovedType
  <2> HIDE DEF moved
  <2>3. QED
    BY <1>1, <2>1, <2>2 DEF RowType
<1>3. outs' \in [Stage -> Nat] /\ \A t \in Stage : outs'[t] \in {0, outs[t]}
  BY <1>1, Typed DEF TypeOK, Invalidated
<1>4. Len(claims) \in Nat /\ DOMAIN claims = 1..Len(claims)
  BY LedgerShape DEF IInv
<1>5. TypeOK'
  <2>1. msgs' \in [Lane -> Nat] /\ env' \in EnvType /\ first' \in Stage
    BY <1>1, Typed, PublishedType, LaneType, SpentType, NextStageType DEF RestartRun, Spend
  <2>2. QED
    BY <1>1, <1>2, <1>3, <2>1 DEF IInv, TypeOK, RowType, EnvType
<1>6. SameLedger /\ Retreats /\ RunAtStage'
  BY <1>1, <1>2, UnchangedLedger DEF IInv, Retreats, RunAtStage
<1>7. Forward /\ CommitFindsClaimOpen'
  <2>1. run.cycle \in Nat /\ run'.cycle \in Nat
    BY <1>5 DEF IInv, TypeOK
  <2>2. QED
    BY <1>2, <1>5, <1>6, <2>1, NobodyCommits DEF Forward
<1>8. CompletesOnce'
  <2>1. \A i \in DOMAIN claims : claims[i].cycle # run'.cycle
    <3> TAKE i \in DOMAIN claims
    <3>1. claims[i].cycle \in Nat /\ claims[i].cycle <= run.cycle
      BY <1>4, LedgerShape DEF IInv, LedgerCycles, Claim
    <3>2. run.cycle \in Nat /\ run'.cycle \in Nat
      BY <1>5 DEF IInv, TypeOK
    <3>3. QED
      BY <1>2, <3>1, <3>2
  <2>2. QED
    BY <1>1, <2>1 DEF IInv, CompletesOnce
<1>9. NoSkippedStage'
  <2>1. \A t \in Behind' : ~(t >= first')
    BY <1>1, <1>2 DEF Behind, EntryStage, MaybeStage, Stage
  <2>2. QED
    BY <2>1 DEF NoSkippedStage
<1>10. \A t \in Stage : outs'[t] <= Len(claims)
  BY <1>3, <1>4 DEF IInv, ClaimIds
<1>11. QED
  BY <1>1, <1>5, <1>6, <1>7, <1>8, <1>9, <1>10, RowStep
-----------------------------------------------------------------------------
(* The commit: the one step that completes a claim and passes a stage. *)

LEMMA AfterStageRow ==
    ASSUME TypeOK, NEW s \in Stage, NEW lane \in Lane, run.stage = s, run.status = "running",
           run' = AfterStage(s, lane)
    PROVE  /\ run' \in RowType /\ Forward /\ run'.rev > run.rev /\ run'.cycle = run.cycle
           /\ RunAtStage'
           /\ run'.status \in {"running", "queued", "completed"}
           /\ Behind' = {t \in Stage : t <= s}
<1>1. CASE NextStage(s) = 0
  <2>1. "completed" \in RunStatus /\ 0 \in MaybeStage /\ run' = Moved(run, "completed", 0)
    BY <1>1 DEF RunStatus, MaybeStage, AfterStage
  <2>2. /\ run' \in RowType /\ Forward /\ run'.rev > run.rev /\ run'.cycle = run.cycle
        /\ run'.status = "completed" /\ run'.stage = 0
    BY <2>1, MovedRow
  <2>3. s = NStages
    BY <1>1 DEF NextStage, Stage
  <2>4. Behind' = {t \in Stage : t <= s}
    BY <2>2, <2>3 DEF Behind, Stage
  <2>5. QED
    BY <2>2, <2>4 DEF RunAtStage
<1>2. CASE NextStage(s) # 0
  <2>1. NextStage(s) = s + 1 /\ NextStage(s) \in MaybeStage
    BY <1>2 DEF NextStage, Stage, MaybeStage
  <2>2. PICK status \in {"running", "queued"} : run' = Moved(run, status, NextStage(s))
    BY <1>2 DEF AfterStage
  <2>3. status \in RunStatus
    BY DEF RunStatus
  <2>4. /\ run' \in RowType /\ Forward /\ run'.rev > run.rev /\ run'.cycle = run.cycle
        /\ run'.status = status /\ run'.stage = NextStage(s)
    BY <2>1, <2>2, <2>3, MovedRow
  <2>5. Behind' = {t \in Stage : t <= s}
    BY <2>1, <2>4 DEF Behind, Stage
  <2>6. QED
    BY <1>2, <2>4, <2>5 DEF RunAtStage
<1>3. QED
  BY <1>1, <1>2

LEMMA CommitStageInv ==
    ASSUME IInv, NEW w \in Workers, CommitStage(w)
    PROVE  IInv'
<1> DEFINE s == workers[w].held.stage
           c == workers[w].claim
           lane == workers[w].lane
<1>1. /\ run' = AfterStage(s, lane)
      /\ FinishClaim(c, "completed", "none")
      /\ outs' = [outs EXCEPT ![s] = c]
      /\ UNCHANGED <<first, sweep, console, queuePaused, env>>
  BY DEF CommitStage
<1>2. /\ s = run.stage /\ s \in Stage /\ run.status = "running" /\ workers[w].held.cycle = run.cycle
      /\ lane \in Lane
  <2>1. /\ s = run.stage /\ run.status = "running" /\ run.stage # 0
        /\ workers[w].held.cycle = run.cycle
    BY WorkerHolds DEF CommitStage
  <2>2. run.stage \in MaybeStage /\ lane \in Lane
    BY Typed DEF RowType, Worker
  <2>3. QED
    BY <2>1, <2>2 DEF Stage, MaybeStage
<1>3. /\ Len(claims) \in Nat /\ c \in 1..Len(claims) /\ DOMAIN claims = 1..Len(claims)
      /\ \A i \in 1..Len(claims) : claims[i] \in Claim
  BY Typed, LedgerShape DEF IInv, ClaimIds, Worker, CommitStage, At
<1>4. claims[c].stage = s /\ claims[c].cycle = run.cycle
  BY <1>2 DEF IInv, WorkerSound, WorkerFine, CommitStage, At
<1>5. /\ SameLedger
      /\ \A i \in 1..Len(claims) : i # c => claims'[i] = claims[i]
      /\ claims'[c].status = "completed"
  <2>1. "completed" \in ClaimStatus /\ "none" \in Cause
    BY DEF ClaimStatus, Cause
  <2>2. QED
    BY <1>1, <1>3, <2>1, FinishClaimKeepsLedger DEF IInv
<1>6. /\ run' \in RowType /\ Forward /\ run'.rev > run.rev /\ run'.cycle = run.cycle
      /\ RunAtStage' /\ Behind' = {t \in Stage : t <= s}
  BY <1>1, <1>2, AfterStageRow DEF IInv
<1>7. PICK me \in Worker : /\ Become(w, me) /\ me.claim = 0 /\ me.pc \in {"idle", "loop"}
                           /\ msgs' \in [Lane -> Nat]
  <2>1. CASE run'.status = "running"
    <3> DEFINE me == [Idle EXCEPT !.pc = "loop", !.lane = lane]
    <3>1. me \in Worker /\ me.claim = 0 /\ me.pc = "loop"
      BY <1>2, IdleType DEF Worker, Idle
    <3>2. Become(w, me) /\ UNCHANGED msgs
      BY <1>1, <2>1 DEF CommitStage
    <3>3. QED
      BY <3>1, <3>2, Typed DEF TypeOK
  <2>2. CASE run'.status # "running"
    <3>1. ReturnRun(w, Snap(run'))
      BY <1>1, <2>2 DEF CommitStage
    <3>2. Idle.claim = 0 /\ Idle.pc = "idle"
      BY DEF Idle
    <3>3. QED
      BY <3>1, <3>2, ReturnRunType, IdleType DEF IInv
  <2>3. QED
    BY <2>1, <2>2
<1>8. Retreats /\ workers' \in [Workers -> Worker]
  BY <1>7, BecomeType DEF IInv, Retreats
<1>9. outs' \in [Stage -> Nat] /\ \A t \in Stage : outs'[t] = IF t = s THEN c ELSE outs[t]
  BY <1>1, <1>2, <1>3, Typed DEF TypeOK
<1>10. TypeOK'
  BY <1>1, <1>5, <1>6, <1>7, <1>8, <1>9 DEF IInv, TypeOK, RowType, SameLedger
<1>11. \A t \in Stage : outs'[t] <= Len(claims)
  BY <1>3, <1>9 DEF IInv, ClaimIds
<1>12. DOMAIN claims' = 1..Len(claims)
  <2>1. DOMAIN claims' = 1..Len(claims')
    BY <1>5, LenProperties DEF SameLedger
  <2>2. QED
    BY <1>5, <2>1 DEF SameLedger
<1>13. Behind = {t \in Stage : t < s}
  BY <1>2 DEF Behind
<1>14. CompletesOnce'
  <2>1. \A i \in 1..Len(claims) :
            claims'[i].status = "completed" /\ claims'[i].cycle = run'.cycle
                => claims'[i].stage \in Behind'
    <3> SUFFICES ASSUME NEW i \in 1..Len(claims),
                        claims'[i].status = "completed", claims'[i].cycle = run'.cycle
                 PROVE  claims'[i].stage \in Behind'
      OBVIOUS
    <3>1. CASE i = c
      BY <1>2, <1>4, <1>5, <1>6, <3>1 DEF SameLedger, Stage
    <3>2. CASE i # c
      <4>1. claims[i].stage \in Behind
        BY <1>3, <1>5, <1>6, <3>2 DEF IInv, CompletesOnce
      <4>2. QED
        BY <1>2, <1>5, <1>6, <1>13, <3>2, <4>1 DEF Stage
    <3>3. QED
      BY <3>1, <3>2
  <2>2. \A i \in 1..Len(claims) :
            i # c /\ claims[i].status = "completed"
                => claims[i].stage # s \/ claims[i].cycle # run.cycle
    <3> SUFFICES ASSUME NEW i \in 1..Len(claims), claims[i].status = "completed",
                        claims[i].stage = s, claims[i].cycle = run.cycle
                 PROVE  FALSE
      OBVIOUS
    <3>1. claims[i].stage \in Behind
      BY <1>3 DEF IInv, CompletesOnce
    <3>2. QED
      BY <1>2, <1>13, <3>1 DEF Stage
  <2>3. \A i, j \in 1..Len(claims) :
            /\ claims'[i].status = "completed" /\ claims'[j].status = "completed"
            /\ claims'[i].stage = claims'[j].stage /\ claims'[i].cycle = claims'[j].cycle
            => i = j
    <3> SUFFICES ASSUME NEW i \in 1..Len(claims), NEW j \in 1..Len(claims), i # j,
                        claims'[i].status = "completed", claims'[j].status = "completed",
                        claims'[i].stage = claims'[j].stage,
                        claims'[i].cycle = claims'[j].cycle
                 PROVE  FALSE
      OBVIOUS
    <3>1. claims[i].stage = claims[j].stage /\ claims[i].cycle = claims[j].cycle
      BY <1>5 DEF SameLedger
    <3>2. CASE i = c
      BY <1>4, <1>5, <2>2, <3>1, <3>2
    <3>3. CASE j = c
      BY <1>4, <1>5, <2>2, <3>1, <3>3
    <3>4. CASE i # c /\ j # c
      BY <1>3, <1>5, <3>1, <3>4 DEF IInv, CompletesOnce
    <3>5. QED
      BY <3>2, <3>3, <3>4
  <2>4. QED
    BY <1>12, <2>1, <2>3 DEF CompletesOnce
<1>15. NoSkippedStage'
  <2> SUFFICES ASSUME NEW t \in Behind', t >= first
               PROVE  /\ outs'[t] # 0 /\ claims'[outs'[t]].stage = t
                      /\ claims'[outs'[t]].cycle = run'.cycle
    BY <1>1 DEF NoSkippedStage
  <2>1. t \in Stage /\ t <= s
    BY <1>6
  <2>2. CASE t = s
    <3>1. outs'[t] = c /\ c # 0
      BY <1>2, <1>3, <1>4, <1>9, <2>2
    <3>2. QED
      BY <1>2, <1>3, <1>4, <1>5, <1>6, <2>2, <3>1 DEF SameLedger
  <2>3. CASE t # s
    <3>1. t \in Behind
      BY <1>2, <1>13, <2>1, <2>3 DEF Stage
    <3>2. outs[t] # 0 /\ claims[outs[t]].stage = t /\ claims[outs[t]].cycle = run.cycle
      BY <3>1 DEF IInv, NoSkippedStage
    <3>3. outs[t] \in 1..Len(claims)
      BY <1>3, <2>1, <3>2, Typed DEF IInv, ClaimIds, TypeOK
    <3>4. QED
      BY <1>5, <1>6, <1>9, <2>1, <2>3, <3>2, <3>3 DEF SameLedger
  <2>4. QED
    BY <2>2, <2>3
<1>16. CommitFindsClaimOpen'
  BY <1>6, <1>8, <1>10, NobodyCommits
<1>17. QED
  BY <1>1, <1>5, <1>6, <1>8, <1>10, <1>11, <1>14, <1>15, <1>16, RowStep
-----------------------------------------------------------------------------
(* The claim: the only step that adds a row to the ledger. *)

LEMMA ClaimStageInv ==
    ASSUME IInv, NEW w \in Workers, ClaimStage(w)
    PROVE  IInv'
<1> DEFINE held == workers[w].held
           latest == LatestClaim(run.stage, run.cycle)
           row == NewClaim(run.stage, run.cycle)
           top == Len(claims) + 1
           me == [workers[w] EXCEPT !.pc = "body", !.claim = top]
<1>1. /\ claims' = Append(claims, row) /\ Become(w, me)
      /\ UNCHANGED <<run, outs, first, msgs, sweep, console, queuePaused, env>>
  BY DEF ClaimStage
<1>2. /\ held = Snap(run) /\ HeldSound(held) /\ held.rev = run.rev
      /\ run.status = "running" /\ run.stage \in Stage /\ run.stage # 0
      /\ held.stage = run.stage /\ held.cycle = run.cycle /\ held.status = "running"
  <2>1. HeldSound(held) /\ Current(held) /\ run.status = "running" /\ held.stage # 0
    BY DEF IInv, WorkerSound, WorkerFine, ClaimStage, At, Claimable
  <2>2. /\ held = Snap(run) /\ held.stage = run.stage /\ held.cycle = run.cycle
        /\ held.status = run.status /\ held.rev = run.rev
    BY <2>1, CurrentIsRow
  <2>3. run.stage \in MaybeStage
    BY DEF IInv, TypeOK
  <2>4. run.stage \in Stage
    BY <2>1, <2>2, <2>3 DEF Stage, MaybeStage
  <2>5. QED
    BY <2>1, <2>2, <2>4
<1>3. ~ActivelyOwned(latest)
  BY <1>2 DEF ClaimStage, Claimable
<1>4. /\ Len(claims) \in Nat /\ DOMAIN claims = 1..Len(claims)
      /\ \A i \in 1..Len(claims) : claims[i] \in Claim
  BY LedgerShape DEF IInv
<1>5. /\ row \in Claim /\ row.stage = run.stage /\ row.cycle = run.cycle
      /\ row.status = "running" /\ row.attempt = AttemptOf(latest) + 1
      /\ AttemptOf(latest) \in Nat
  <2>1. AttemptOf(latest) \in Nat /\ run.cycle \in Nat
    BY LatestClaimType DEF IInv, TypeOK
  <2>2. QED
    BY <1>2, <2>1 DEF NewClaim, Claim, ClaimStatus, Cause
<1>6. /\ claims' \in Seq(Claim) /\ Len(claims') = top /\ DOMAIN claims' = 1..top
      /\ \A i \in 1..Len(claims) : claims'[i] = claims[i]
      /\ claims'[top] = row
  <2> HIDE DEF row
  <2>1. /\ claims' \in Seq(Claim) /\ Len(claims') = top
        /\ \A i \in 1..Len(claims) : claims'[i] = claims[i]
        /\ claims'[top] = row
    BY <1>1, <1>5, AppendKeepsLedger DEF IInv
  <2>2. DOMAIN claims' = 1..Len(claims')
    BY <2>1, LenProperties
  <2>3. QED
    BY <2>1, <2>2
<1>7. me \in Worker /\ me.pc = "body" /\ me.claim = top /\ me.held = held
  <2>1. top \in Nat /\ workers[w] \in Worker
    BY <1>4, Typed
  <2> HIDE DEF top
  <2>2. QED
    BY <2>1 DEF Worker
<1>8. workers' \in [Workers -> Worker] /\ workers'[w] = me
      /\ \A v \in Workers : v # w => workers'[v] = workers[v]
  <2> HIDE DEF me
  <2> QED BY <1>1, <1>7, BecomeType DEF IInv
<1>9. \A v \in Workers : workers[v].claim \in Nat /\ workers[v].claim <= Len(claims)
  BY Typed DEF IInv, ClaimIds, Worker
<1> HIDE DEF row, me, held
<1>10. TypeOK'
  BY <1>1, <1>6, <1>8 DEF IInv, TypeOK
<1>11. RunAtStage'
  BY <1>1 DEF IInv, RunAtStage
<1>12. ClaimIds'
  <2>1. \A v \in Workers : workers'[v].claim <= top
    BY <1>4, <1>7, <1>8, <1>9
  <2>2. \A v \in Workers : workers'[v].pc = "body" => workers'[v].claim # 0
    BY <1>4, <1>7, <1>8 DEF IInv, ClaimIds, At
  <2>3. \A v, u \in Workers : v # u /\ workers'[v].claim # 0
                              => workers'[v].claim # workers'[u].claim
    <3> SUFFICES ASSUME NEW v \in Workers, NEW u \in Workers, v # u, workers'[v].claim # 0
                 PROVE  workers'[v].claim # workers'[u].claim
      OBVIOUS
    <3>1. CASE v # w /\ u # w
      BY <1>8, <3>1 DEF IInv, ClaimIds
    <3>2. CASE v = w
      <4>1. workers'[v].claim = top /\ workers'[u].claim = workers[u].claim
        BY <1>7, <1>8, <3>2
      <4>2. QED
        BY <1>4, <1>9, <4>1
    <3>3. CASE u = w
      <4>1. workers'[u].claim = top /\ workers'[v].claim = workers[v].claim
        BY <1>7, <1>8, <3>3
      <4>2. QED
        BY <1>4, <1>9, <4>1
    <3>4. QED
      BY <3>1, <3>2, <3>3
  <2>4. sweep.close <= top /\ \A s \in Stage : outs[s] <= top
    BY <1>4 DEF IInv, ClaimIds, TypeOK
  <2>5. QED
    BY <1>1, <1>6, <2>1, <2>2, <2>3, <2>4 DEF ClaimIds, At
<1>13. WorkerSound'
  <2> SUFFICES ASSUME NEW v \in Workers PROVE WorkerFine(workers[v])'
    BY DEF WorkerSound
  <2>1. CASE v = w
    BY <1>1, <1>2, <1>5, <1>6, <1>7, <1>8, <2>1 DEF WorkerFine, HeldSound, Snap
  <2>2. CASE v # w
    <3>1. WorkerFine(workers[v]) /\ workers'[v] = workers[v]
      BY <1>8, <2>2 DEF IInv, WorkerSound
    <3>2. workers[v].pc = "body" => workers[v].claim \in 1..Len(claims)
      BY <1>4, <1>9 DEF IInv, ClaimIds, At
    <3>3. QED
      BY <1>1, <1>6, <3>1, <3>2 DEF WorkerFine, HeldSound, Snap
  <2>3. QED
    BY <2>1, <2>2
<1>14. SweepSound'
  <2>1. sweep.close \in Nat /\ sweep.close <= Len(claims)
    BY DEF IInv, TypeOK, ClaimIds
  <2>2. \A v \in Workers : workers'[v].pc = "body" /\ workers'[v].claim = sweep.close
            => workers[v] = workers'[v]
    BY <1>4, <1>7, <1>8, <2>1
  <2>3. QED
    BY <1>1, <2>2 DEF IInv, SweepSound, HeldSound, Snap, At
<1>15. ConsoleSound'
  BY <1>1 DEF IInv, ConsoleSound, HeldSound, Snap
<1>16. LedgerOrder'
  <2> SUFFICES ASSUME NEW i \in 1..top, NEW j \in 1..top, i < j, SameStage(i, j)'
               PROVE  claims'[i].attempt < claims'[j].attempt /\ ~ActivelyOwned(i)'
    BY <1>6 DEF LedgerOrder
  <2>1. i \in 1..Len(claims) /\ claims'[i] = claims[i] /\ (ActivelyOwned(i)' <=> ActivelyOwned(i))
    BY <1>4, <1>6 DEF ActivelyOwned, IsRunning
  <2>2. CASE j # top
    <3>1. j \in 1..Len(claims) /\ claims'[j] = claims[j]
      BY <1>4, <1>6, <2>2
    <3>2. QED
      BY <1>4, <2>1, <3>1 DEF IInv, LedgerOrder, SameStage
  <2>3. CASE j = top
    <3>1. i \in ClaimsOf(run.stage, run.cycle)
      BY <1>4, <1>5, <1>6, <2>1, <2>3 DEF SameStage, ClaimsOf
    <3>2. /\ latest \in ClaimsOf(run.stage, run.cycle) /\ latest \in 1..Len(claims)
          /\ i <= latest /\ claims[i].attempt <= claims[latest].attempt
      BY <1>4, <3>1, LatestClaimType DEF IInv, ClaimsOf
    <3>3. claims[i].attempt < claims'[j].attempt
      <4> HIDE DEF latest
      <4>1. AttemptOf(latest) = claims[latest].attempt
        BY <1>4, <3>2 DEF AttemptOf
      <4>2. claims[i].attempt \in Nat
        BY <1>4, <2>1 DEF Claim
      <4>3. claims[latest].attempt \in Nat
        BY <1>4, <3>2 DEF Claim
      <4>4. claims'[j].attempt = claims[latest].attempt + 1
        BY <1>5, <1>6, <2>3, <4>1
      <4>5. QED
        BY <3>2, <4>2, <4>3, <4>4
    <3>4. ~ActivelyOwned(i)
      <4>1. CASE i = latest
        BY <1>3, <4>1
      <4>2. CASE i # latest
        <5>1. SameStage(i, latest) /\ i < latest
          BY <1>4, <2>1, <3>1, <3>2, <4>2 DEF ClaimsOf, SameStage
        <5>2. QED
          BY <1>4, <2>1, <3>2, <5>1 DEF IInv, LedgerOrder
      <4>3. QED
        BY <4>1, <4>2
    <3>5. QED
      BY <2>1, <3>3, <3>4
  <2>4. QED
    BY <2>2, <2>3
<1>17. LedgerCycles'
  <2> SUFFICES ASSUME NEW i \in 1..top PROVE claims'[i].cycle <= run'.cycle
    BY <1>6 DEF LedgerCycles
  <2>1. CASE i = top
    BY <1>1, <1>5, <1>6, <2>1 DEF IInv, TypeOK
  <2>2. CASE i # top
    BY <1>1, <1>4, <1>6, <2>2 DEF IInv, LedgerCycles
  <2>3. QED
    BY <2>1, <2>2
<1>18. CommitFindsClaimOpen'
  <2> SUFFICES ASSUME NEW v \in Workers, workers'[v].pc = "body", workers'[v].held.rev = run.rev
               PROVE  workers'[v].claim # 0 /\ claims'[workers'[v].claim].status = "running"
    BY <1>1 DEF CommitFindsClaimOpen, At, Current, IsRunning
  <2>1. CASE v = w
    BY <1>4, <1>5, <1>6, <1>7, <1>8, <2>1
  <2>2. CASE v # w
    <3>1. workers[v].claim # 0 /\ claims[workers[v].claim].status = "running"
      BY <1>8, <2>2 DEF IInv, CommitFindsClaimOpen, At, Current, IsRunning
    <3>2. workers[v].claim \in 1..Len(claims)
      BY <1>4, <1>9, <3>1
    <3>3. QED
      BY <1>6, <1>8, <2>2, <3>1, <3>2
  <2>3. QED
    BY <2>1, <2>2
<1>19. Behind' = Behind
  BY <1>1 DEF Behind
<1>20. CompletesOnce'
  <2>1. \A i \in 1..top : claims'[i].status = "completed" => i \in 1..Len(claims)
    BY <1>4, <1>5, <1>6
  <2>2. QED
    BY <1>1, <1>4, <1>6, <1>19, <2>1 DEF IInv, CompletesOnce
<1>21. NoSkippedStage'
  <2> SUFFICES ASSUME NEW s \in Behind, s >= first
               PROVE  /\ outs[s] # 0 /\ claims'[outs[s]].stage = s
                      /\ claims'[outs[s]].cycle = run.cycle
    BY <1>1, <1>19 DEF NoSkippedStage
  <2>1. outs[s] # 0 /\ claims[outs[s]].stage = s /\ claims[outs[s]].cycle = run.cycle
    BY DEF IInv, NoSkippedStage
  <2>2. outs[s] \in 1..Len(claims)
    BY <1>4, <2>1, Typed DEF IInv, ClaimIds, TypeOK, Behind
  <2>3. QED
    BY <1>6, <2>1, <2>2
<1>22. QED
  BY <1>10, <1>11, <1>12, <1>13, <1>14, <1>15, <1>16, <1>17, <1>18, <1>20, <1>21 DEF IInv

-----------------------------------------------------------------------------
(* The invariant. *)

LEMMA InitInv == Init => IInv
<1> SUFFICES ASSUME Init PROVE IInv
  OBVIOUS
<1>1. TypeOK
  BY InitType
<1>2. claims = << >> /\ DOMAIN claims = {} /\ Len(claims) = 0
  BY DEF Init
<1>3. RunAtStage
  BY DEF Init, RunAtStage
<1>4. ClaimIds
  BY <1>2 DEF Init, ClaimIds, Idle, NoSweep, NoOutputs, At
<1>5. WorkerSound
  BY IdleFine DEF Init, WorkerSound
<1>6. SweepSound /\ ConsoleSound
  BY DEF Init, SweepSound, ConsoleSound, NoSweep, NoRequest
<1>7. LedgerOrder /\ LedgerCycles /\ CompletesOnce
  BY <1>2 DEF LedgerOrder, LedgerCycles, CompletesOnce
<1>8. CommitFindsClaimOpen
  BY DEF Init, CommitFindsClaimOpen, At, Idle
<1>9. NoSkippedStage
  BY DEF Init, NoSkippedStage, Behind, Stage
<1>10. QED
  BY <1>1, <1>3, <1>4, <1>5, <1>6, <1>7, <1>8, <1>9 DEF IInv

LEMMA NextInv == IInv /\ [Next]_vars => IInv'
<1> SUFFICES ASSUME IInv, [Next]_vars PROVE IInv'
  OBVIOUS
<1>1. CASE UNCHANGED vars
  <2>1. TypeOK' /\ SameRow
    BY <1>1 DEF vars, IInv, TypeOK, SameRow
  <2>2. QED
    BY <1>1, <2>1, NoWorkerMove DEF vars
<1>2. ASSUME NEW w \in Workers, Work(w) PROVE IInv'
  BY <1>2, DeferTaskInv, StartTaskInv, EnterRunInv, ReadRunInv, LeaveRunInv, ClaimStageInv,
     RefuseClaimInv, CommitStageInv, LoseCommitInv, StopIfCancelledInv, StopIfPausedInv,
     CountBudgetInv, RequeueFailedStageInv DEF Work
<1>3. CASE Sweep
  BY <1>3, SweepReadInv, SweepWriteInv, SweepCloseInv, SweepPublishInv DEF Sweep
<1>4. CASE Console
  BY <1>4, ConsoleReadInv, ConsoleWriteInv, RestartRunInv, UnarchiveRunInv, ToggleQueueInv
     DEF Console
<1>5. CASE Misfortune
  BY <1>5, CrashInv, RedeliverInv, FailStageInv, LoseMessageInv, LeaseExpiresInv DEF Misfortune
<1>6. QED
  BY <1>1, <1>2, <1>3, <1>4, <1>5 DEF Next

\* The inductive invariant holds in every reachable state, whatever the number
\* of stages and workers and however many misfortunes the bounds allow.
THEOREM InductiveInvariant == Spec => []IInv
<1>1. Init => IInv
  BY InitInv
<1>2. IInv /\ [Next]_vars => IInv'
  BY NextInv
<1>3. QED
  BY <1>1, <1>2, PTL DEF Spec
\* Every row and every actor's local state keeps its type.
THEOREM TypeCorrect == Spec => []TypeOK
<1>1. IInv => TypeOK
  BY DEF IInv
<1>2. QED
  BY <1>1, InductiveInvariant, PTL

\* A snapshot some actor still acts on is the row itself if the revision says so.
THEOREM SnapshotsAreSound == Spec => []SnapshotSound
<1>1. IInv => SnapshotSound
  <2> SUFFICES ASSUME IInv, NEW held \in Holding PROVE HeldSound(held)
    BY DEF SnapshotSound, HeldSound, Current
  <2>1. CASE \E w \in Workers : /\ workers[w].pc \in {"entry", "claim", "body", "failed", "requeue"}
                                /\ held = workers[w].held
    BY <2>1 DEF IInv, WorkerSound, WorkerFine
  <2>2. CASE sweep.pc = "write" /\ held = sweep.held
    BY <2>2 DEF IInv, SweepSound
  <2>3. CASE console.op # "none" /\ held = console.held
    BY <2>3 DEF IInv, ConsoleSound
  <2>4. QED
    BY <2>1, <2>2, <2>3 DEF Holding
<1>2. QED
  BY <1>1, InductiveInvariant, PTL

\* At most one live lease covers a stage of a cycle.
THEOREM LeasesAreExclusive == Spec => []ExclusiveLease
<1>1. IInv => ExclusiveLease
  <2> SUFFICES ASSUME IInv, NEW i \in DOMAIN claims, NEW j \in DOMAIN claims, i # j,
                      ActivelyOwned(i), ActivelyOwned(j)
               PROVE  ~SameStage(i, j)
    BY DEF ExclusiveLease, SameStage
  <2>1. i \in Nat /\ j \in Nat
    BY LedgerShape DEF IInv
  <2>2. ~(i < j /\ SameStage(i, j)) /\ ~(j < i /\ SameStage(j, i))
    BY DEF IInv, LedgerOrder
  <2>3. SameStage(i, j) <=> SameStage(j, i)
    BY DEF SameStage
  <2>4. QED
    BY <2>1, <2>2, <2>3
<1>2. QED
  BY <1>1, InductiveInvariant, PTL

\* A commit that wins finds its claim RUNNING.
THEOREM CommitsFindTheirClaimOpen == Spec => []CommitFindsClaimOpen
<1>1. IInv => CommitFindsClaimOpen
  BY DEF IInv
<1>2. QED
  BY <1>1, InductiveInvariant, PTL

\* No stage completes twice in a cycle.
THEOREM StagesCompleteOnce == Spec => []CompletesOnce
<1>1. IInv => CompletesOnce
  BY DEF IInv
<1>2. QED
  BY <1>1, InductiveInvariant, PTL

\* No stage behind the run was skipped in this cycle.
THEOREM NoStageIsSkipped == Spec => []NoSkippedStage
<1>1. IInv => NoSkippedStage
  BY DEF IInv
<1>2. QED
  BY <1>1, InductiveInvariant, PTL

-----------------------------------------------------------------------------
(* What a step may do to the outputs and to the lifecycle. *)

LEMMA CommitFindsRunRunning ==
    ASSUME IInv, NEW w \in Workers, CommitStage(w) \/ \E cause \in Cause : FailStage(w, cause)
    PROVE  /\ run.status = "running" /\ run.stage \in Stage
           /\ workers[w].held.stage = run.stage
<1>1. /\ run.status = "running" /\ run.stage # 0 /\ workers[w].held.stage = run.stage
  BY WorkerHolds DEF CommitStage, FailStage
<1>2. run.stage \in Stage
  BY <1>1, RowStage, Zenon
<1>3. QED
  BY <1>1, <1>2, Zenon

\* Only a commit on a RUNNING run puts new outputs into the tables.
LEMMA OutputsStep ==
    ASSUME IInv, Next, NEW s \in Stage, outs'[s] \notin {0, outs[s]}
    PROVE  run.status = "running"
<1>1. ASSUME NEW w \in Workers, CommitStage(w) PROVE run.status = "running"
  BY <1>1, CommitFindsRunRunning, Zenon
<1>2. ASSUME NEW t \in MaybeStage, RestartRun(t) PROVE FALSE
  BY <1>2 DEF RestartRun, Invalidated
<1>3. \/ \E w \in Workers : CommitStage(w)
      \/ \E t \in MaybeStage : RestartRun(t)
      \/ UNCHANGED outs
  BY DEF Next, Work, DeferTask, StartTask, EnterRun, ReadRun, LeaveRun, ClaimStage, RefuseClaim,
         LoseCommit, StopIfCancelled, StopIfPaused, CountBudget, RequeueFailedStage,
         Sweep, SweepRead, SweepWrite, SweepClose, SweepPublish,
         Console, ConsoleRead, ConsoleWrite, UnarchiveRun, ToggleQueue,
         Misfortune, Crash, Redeliver, FailStage, LoseMessage, LeaseExpires
<1>4. QED
  BY <1>1, <1>2, <1>3

\* A stage body's work is rolled back when the run was halted under it.
THEOREM HaltedRunsGainNothing == Spec => HaltedRunGainsNothing
<1>1. IInv /\ [Next]_vars
        => [\A s \in Stage : outs'[s] \notin {0, outs[s]} => run.status = "running"]_vars
  BY OutputsStep DEF vars
<1>2. QED
  BY <1>1, InductiveInvariant, PTL DEF Spec, HaltedRunGainsNothing
-----------------------------------------------------------------------------
(* The run implements its lifecycle. *)

lifeOf == [status |-> run.status, stage |-> run.stage, cycle |-> run.cycle]

\* validate_transition spelled out for the moves the pipeline makes.
ValidMove(status, stage) ==
    \/ /\ run.status = "queued" /\ status = "running" /\ stage = EntryStage(run.stage)
    \/ /\ run.status = "running" /\ run.stage # 0 /\ run.stage < NStages
       /\ stage = run.stage + 1 /\ status \in {"running", "queued"}
    \/ /\ run.status = "running" /\ run.stage = NStages /\ status = "completed" /\ stage = 0
    \/ /\ run.status = "running" /\ run.stage # 0 /\ status = "failed" /\ stage = run.stage
    \/ /\ run.status = "failed" /\ status = "queued" /\ stage = run.stage
    \/ /\ run.status \in {"queued", "running"} /\ status = "paused" /\ stage = run.stage
    \/ /\ run.status = "paused" /\ status = "queued" /\ stage = run.stage
    \/ /\ run.status \in {"queued", "running", "awaiting_adjudication", "paused"}
       /\ status = "cancelled" /\ stage = run.stage

\* What a CAS that wins makes of the row, the sweep's double move, and a restart.
CasMove ==
    \E status \in RunStatus, stage \in MaybeStage :
        ValidMove(status, stage) /\ run' = Moved(run, status, stage)

DoubleMove ==
    /\ run.status = "running" /\ run.stage # 0
    /\ run' = Moved(Moved(run, "failed", run.stage), "queued", run.stage)

RestartMove ==
    \E s \in MaybeStage :
        /\ run.status \in Terminal
        /\ run' = [Moved(run, "queued", s) EXCEPT !.cycle = @ + 1]

LEMMA SameLife ==
    ASSUME Snap(run') = Snap(run)
    PROVE  UNCHANGED lifeOf
<1>1. run'.status = run.status /\ run'.stage = run.stage /\ run'.cycle = run.cycle
  BY SnapFields
<1>2. QED
  BY <1>1 DEF lifeOf

LEMMA MoveIsTransition ==
    ASSUME TypeOK, NEW status \in RunStatus, NEW stage \in MaybeStage,
           ValidMove(status, stage), run' = Moved(run, status, stage)
    PROVE  Life!Transition
<1>1. run'.status = status /\ run'.stage = stage /\ run'.cycle = run.cycle
  BY MovedRow
<1>2. lifeOf' = [status |-> status, stage |-> stage, cycle |-> lifeOf.cycle]
  BY <1>1 DEF lifeOf
<1>3. lifeOf.status \notin {"completed", "cancelled"} /\ (lifeOf.status = "failed" => stage = lifeOf.stage)
  BY DEF lifeOf, ValidMove
<1>4. Life!ValidTransition(lifeOf, status, stage)
  <2>1. lifeOf.status = run.status /\ lifeOf.stage = run.stage /\ run.stage \in 0..NStages
    BY DEF lifeOf, TypeOK, MaybeStage
  <2> USE <2>1 DEF Life!ValidTransition, Life!AllowedTransitions
  <2>2. CASE run.status = "queued" /\ status = "running" /\ stage = EntryStage(run.stage)
    BY <2>2 DEF Life!EntryStage, EntryStage
  <2>3. CASE /\ run.status = "running" /\ run.stage # 0 /\ run.stage < NStages
             /\ stage = run.stage + 1 /\ status \in {"running", "queued"}
    BY <2>3 DEF Life!NextStage
  <2>4. CASE run.status = "running" /\ run.stage = NStages /\ status = "completed" /\ stage = 0
    BY <2>4
  <2>5. CASE run.status = "running" /\ run.stage # 0 /\ status = "failed" /\ stage = run.stage
    BY <2>5
  <2>6. CASE run.status = "failed" /\ status = "queued" /\ stage = run.stage
    BY <2>6 DEF Life!Terminal
  <2>7. CASE run.status \in {"queued", "running"} /\ status = "paused" /\ stage = run.stage
    BY <2>7
  <2>8. CASE run.status = "paused" /\ status = "queued" /\ stage = run.stage
    BY <2>8
  <2>9. CASE /\ run.status \in {"queued", "running", "awaiting_adjudication", "paused"}
             /\ status = "cancelled" /\ stage = run.stage
    BY <2>9
  <2>10. QED
    BY <2>2, <2>3, <2>4, <2>5, <2>6, <2>7, <2>8, <2>9 DEF ValidMove
<1>5. QED
  BY <1>1, <1>2, <1>3, <1>4
     DEF lifeOf, Life!Transition, Life!Moved, Life!RunStatus, Life!MaybeStage, RunStatus, MaybeStage

LEMMA CommitIsCas ==
    ASSUME IInv, NEW w \in Workers, CommitStage(w)
    PROVE  CasMove
<1> DEFINE s == workers[w].held.stage
<1>1. run.status = "running" /\ run.stage \in Stage /\ s = run.stage
  BY CommitFindsRunRunning
<1>2. run' = AfterStage(s, workers[w].lane)
  BY DEF CommitStage
<1>3. CASE NextStage(s) = 0
  <2>1. ValidMove("completed", 0) /\ "completed" \in RunStatus /\ 0 \in MaybeStage
    BY <1>1, <1>3 DEF ValidMove, RunStatus, MaybeStage, NextStage, Stage
  <2>2. run' = Moved(run, "completed", 0)
    BY <1>2, <1>3 DEF AfterStage
  <2>3. QED
    BY <2>1, <2>2, Zenon DEF CasMove
<1>4. CASE NextStage(s) # 0
  <2>1. PICK status \in {"running", "queued"} : run' = Moved(run, status, NextStage(s))
    BY <1>2, <1>4 DEF AfterStage
  <2>2. ValidMove(status, NextStage(s)) /\ status \in RunStatus /\ NextStage(s) \in MaybeStage
    BY <1>1, <1>4 DEF ValidMove, RunStatus, MaybeStage, NextStage, Stage
  <2>3. QED
    BY <2>1, <2>2, Zenon DEF CasMove
<1>5. QED
  BY <1>3, <1>4

LEMMA EnterIsCas ==
    ASSUME IInv, NEW w \in Workers, EnterRun(w)
    PROVE  CasMove \/ Snap(run') = Snap(run)
<1> DEFINE held == workers[w].held
<1>1. CASE ~Current(held)
  <2>1. run' = run
    BY <1>1 DEF EnterRun
  <2>2. QED
    BY <2>1
<1>2. CASE Current(held)
  <2>1. run.status = "queued" /\ held.stage = run.stage /\ run.stage \in MaybeStage
    BY <1>2, WorkerHolds, RowStage DEF EnterRun
  <2>2. run' = Moved(run, "running", EntryStage(run.stage))
    BY <1>2, <2>1 DEF EnterRun
  <2>3. EntryStage(run.stage) \in MaybeStage
    <3>1. EntryStage(run.stage) \in Stage
      BY <2>1, NextStageType
    <3>2. QED
      BY <3>1 DEF Stage, MaybeStage
  <2>4. ValidMove("running", EntryStage(run.stage)) /\ "running" \in RunStatus
    BY <2>1 DEF ValidMove, RunStatus
  <2>5. QED
    BY <2>2, <2>3, <2>4, Zenon DEF CasMove
<1>3. QED
  BY <1>1, <1>2

LEMMA FailIsCas ==
    ASSUME IInv, NEW w \in Workers, NEW cause \in Cause, FailStage(w, cause)
    PROVE  CasMove
<1>1. run.status = "running" /\ run.stage \in Stage /\ workers[w].held.stage = run.stage
  BY CommitFindsRunRunning
<1>2. run' = Moved(run, "failed", run.stage)
  BY <1>1 DEF FailStage
<1>3. ValidMove("failed", run.stage) /\ "failed" \in RunStatus /\ run.stage \in MaybeStage
  BY <1>1 DEF ValidMove, RunStatus, Stage, MaybeStage
<1>4. QED
  BY <1>2, <1>3, Zenon DEF CasMove

LEMMA RequeueIsCas ==
    ASSUME IInv, NEW w \in Workers, RequeueFailedStage(w)
    PROVE  CasMove \/ Snap(run') = Snap(run)
<1> DEFINE held == workers[w].held
<1>1. CASE ~Current(held)
  <2>1. run' = run
    BY <1>1 DEF RequeueFailedStage
  <2>2. QED
    BY <2>1
<1>2. CASE Current(held)
  <2>1. run.status = "failed" /\ held.stage = run.stage /\ run.stage \in MaybeStage
    BY <1>2, WorkerHolds, RowStage DEF RequeueFailedStage
  <2>2. run' = Moved(run, "queued", run.stage)
    BY <1>2, <2>1 DEF RequeueFailedStage
  <2>3. ValidMove("queued", run.stage) /\ "queued" \in RunStatus
    BY <2>1 DEF ValidMove, RunStatus
  <2>4. QED
    BY <2>1, <2>2, <2>3, Zenon DEF CasMove
<1>3. QED
  BY <1>1, <1>2

LEMMA ReclaimIsCas ==
    ASSUME IInv, SweepWrite
    PROVE  CasMove \/ DoubleMove \/ Snap(run') = Snap(run)
<1>1. CASE ~Current(sweep.held)
  <2>1. run' = run
    BY <1>1 DEF SweepWrite
  <2>2. QED
    BY <2>1
<1>2. CASE Current(sweep.held)
  <2>1. run.status = "running" /\ run.stage # 0 /\ run.stage \in MaybeStage
    BY <1>2, SweepHolds, RowStage DEF SweepWrite
  <2>2. CASE run' = Moved(run, "failed", run.stage)
    <3>1. ValidMove("failed", run.stage) /\ "failed" \in RunStatus
      BY <2>1 DEF ValidMove, RunStatus
    <3>2. QED
      BY <2>1, <2>2, <3>1, Zenon DEF CasMove
  <2>3. CASE run' = Moved(Moved(run, "failed", run.stage), "queued", run.stage)
    BY <2>1, <2>3 DEF DoubleMove
  <2>4. QED
    BY <1>2, <2>2, <2>3 DEF SweepWrite, Reclaimed
<1>3. QED
  BY <1>1, <1>2

LEMMA RequestIsCas ==
    ASSUME IInv, ConsoleWrite
    PROVE  CasMove \/ Snap(run') = Snap(run)
<1> DEFINE held == console.held
<1>1. CASE console.op = "archive" \/ ~Current(held)
  <2>1. /\ run'.status = run.status /\ run'.stage = run.stage
        /\ run'.cycle = run.cycle /\ run'.rev = run.rev
    BY <1>1, Typed DEF ConsoleWrite, RowType
  <2>2. QED
    BY <2>1 DEF Snap
<1>2. CASE console.op # "archive" /\ Current(held)
  <2>1. console.op \in {"cancel", "pause", "resume", "requeue"}
    BY <1>2 DEF ConsoleWrite, IInv, TypeOK, Request
  <2>2. /\ held.stage = run.stage /\ held.status = run.status /\ run.stage \in MaybeStage
    BY <1>2, <2>1, ConsoleHolds, RowStage
  <2>3. run' = Moved(run, Target(console.op), run.stage)
    BY <1>2, <2>2 DEF ConsoleWrite
  <2>4. ValidMove(Target(console.op), run.stage)
    BY <2>1, <2>2 DEF IInv, ConsoleSound, ValidMove, Target
  <2>5. Target(console.op) \in RunStatus
    BY <2>1 DEF Target, RunStatus
  <2>6. QED
    BY <2>2, <2>3, <2>4, <2>5, Zenon DEF CasMove
<1>3. QED
  BY <1>1, <1>2

\* What any step makes of the row.
LEMMA RunStep ==
    ASSUME IInv, Next
    PROVE  Snap(run') = Snap(run) \/ CasMove \/ DoubleMove \/ RestartMove
<1> DEFINE Workerly == \E w \in Workers : EnterRun(w) \/ CommitStage(w) \/ RequeueFailedStage(w)
           Failing == \E w \in Workers, cause \in {"saturated", "transient", "fatal"} :
                          FailStage(w, cause)
           Restarting == \E s \in MaybeStage : RestartRun(s)
<1>1. \/ Snap(run') = Snap(run)
      \/ Workerly \/ Failing \/ Restarting \/ SweepWrite \/ ConsoleWrite
  <2>1. UNCHANGED run \/ UnarchiveRun => Snap(run') = Snap(run)
    BY Typed DEF UnarchiveRun, Snap, RowType, IInv
  <2>2. QED
    BY <2>1 DEF Next, Work, DeferTask, StartTask, ReadRun, LeaveRun, ClaimStage, RefuseClaim,
           LoseCommit, StopIfCancelled, StopIfPaused, CountBudget,
           Sweep, SweepRead, SweepClose, SweepPublish, Console, ConsoleRead, ToggleQueue,
           Misfortune, Crash, Redeliver, LoseMessage, LeaseExpires
<1>2. {"saturated", "transient", "fatal"} \subseteq Cause
  BY DEF Cause
<1>3. CASE Workerly
  BY <1>3, EnterIsCas, CommitIsCas, RequeueIsCas, Zenon
<1>4. CASE Failing
  <2>1. PICK w \in Workers, cause \in Cause : FailStage(w, cause)
    BY <1>2, <1>4, Zenon
  <2>2. QED
    BY <2>1, FailIsCas, Zenon
<1>5. CASE SweepWrite \/ ConsoleWrite
  BY <1>5, ReclaimIsCas, RequestIsCas, Zenon
<1>6. CASE Restarting
  <2>1. PICK s \in MaybeStage : RestartRun(s)
    BY <1>6
  <2>2. QED
    BY <2>1, Zenon DEF RestartRun, RestartMove
<1> HIDE DEF Workerly, Failing, Restarting
<1>7. QED
  BY <1>1, <1>3, <1>4, <1>5, <1>6, Zenon

LEMMA DoubleIsReclaim ==
    ASSUME IInv, DoubleMove
    PROVE  Life!Reclaim
<1>1. /\ run.status = "running" /\ run.stage # 0 /\ run.stage \in MaybeStage
      /\ run'.status = "queued" /\ run'.stage = run.stage /\ run'.cycle = run.cycle
  BY RowStage DEF DoubleMove, Moved
<1>2. lifeOf' = [status |-> "queued", stage |-> lifeOf.stage, cycle |-> lifeOf.cycle]
  BY <1>1 DEF lifeOf
<1>3. QED
  BY <1>1, <1>2 DEF lifeOf, Life!Reclaim, Life!Moved, Life!ValidTransition,
                    Life!AllowedTransitions, Life!Terminal

LEMMA RestartIsRestart ==
    ASSUME RestartMove
    PROVE  Life!Restart
<1>1. PICK s \in MaybeStage :
          run.status \in Terminal /\ run' = [Moved(run, "queued", s) EXCEPT !.cycle = @ + 1]
  BY DEF RestartMove
<1>2. run'.status = "queued" /\ run'.stage = s /\ run'.cycle = run.cycle + 1
  BY <1>1 DEF Moved
<1>3. lifeOf' = [status |-> "queued", stage |-> s, cycle |-> lifeOf.cycle + 1]
  BY <1>2 DEF lifeOf
<1>4. Life!ValidTransition(lifeOf, "queued", s)
  BY <1>1 DEF lifeOf, Life!ValidTransition, Life!AllowedTransitions, Life!Terminal, Terminal
<1>5. QED
  BY <1>1, <1>3, <1>4 DEF lifeOf, Life!Restart, Life!Terminal, Life!MaybeStage, Terminal, MaybeStage

LEMMA LifeStep ==
    ASSUME IInv, Next
    PROVE  Life!LifeNext \/ UNCHANGED lifeOf
<1>1. CASE Snap(run') = Snap(run)
  BY <1>1, SameLife, Zenon
<1>2. CASE CasMove
  <2>1. TypeOK
    BY DEF IInv
  <2>2. Life!Transition
    BY <1>2, <2>1, MoveIsTransition, Zenon DEF CasMove
  <2>3. QED
    BY <2>2, Zenon DEF Life!LifeNext
<1>3. CASE DoubleMove
  BY <1>3, DoubleIsReclaim, Zenon DEF Life!LifeNext
<1>4. CASE RestartMove
  BY <1>4, RestartIsRestart, Zenon DEF Life!LifeNext
<1>5. QED
  BY <1>1, <1>2, <1>3, <1>4, RunStep, Zenon

\* Every CAS of the pipeline is a transition validate_transition allows, the
\* sweep's double move included, and only a restart opens a new cycle.
THEOREM RunImplementsLifecycle == Spec => ImplementsLifecycle
<1>1. Init => Life!LifeInit
  BY DEF Init, Life!LifeInit
<1>2. IInv /\ [Next]_vars => [Life!LifeNext]_lifeOf
  <2> SUFFICES ASSUME IInv, [Next]_vars PROVE [Life!LifeNext]_lifeOf
    OBVIOUS
  <2>1. CASE Next
    BY <2>1, LifeStep
  <2>2. CASE UNCHANGED vars
    BY <2>2 DEF vars, lifeOf
  <2>3. QED
    BY <2>1, <2>2
<1>3. [][Life!LifeNext]_lifeOf <=> [][Life!LifeNext]_[status |-> run.status, stage |-> run.stage, cycle |-> run.cycle]
  BY DEF lifeOf
<1>4. QED
  BY <1>1, <1>2, <1>3, InductiveInvariant, PTL DEF Spec, ImplementsLifecycle, Life!LifeSpec

-----------------------------------------------------------------------------
(* The retry budget. *)

LEMMA SpentFinite ==
    ASSUME TypeOK, NEW s, NEW k
    PROVE  /\ IsFiniteSet(SpentClaims(s, k)) /\ SpentBudget(s, k) \in Nat
           /\ SpentBudget(s, k) = Cardinality(SpentClaims(s, k))
<1>1. Len(claims) \in Nat /\ DOMAIN claims = 1..Len(claims)
  BY LedgerShape
<1>2. IsFiniteSet(1..Len(claims))
  BY <1>1, FS_Interval
<1>3. SpentClaims(s, k) \in SUBSET (1..Len(claims))
  BY <1>1 DEF SpentClaims, ClaimsOf
<1>4. IsFiniteSet(SpentClaims(s, k))
  BY <1>2, <1>3, FS_Subset
<1>5. SpentBudget(s, k) = Cardinality(SpentClaims(s, k))
  BY DEF SpentBudget, SpentClaims
<1>6. QED
  BY <1>4, <1>5, FS_CardinalityType

LEMMA SpentFiniteLater ==
    ASSUME TypeOK', NEW s, NEW k
    PROVE  /\ IsFiniteSet(SpentClaims(s, k)') /\ SpentBudget(s, k)' \in Nat
           /\ SpentBudget(s, k)' = Cardinality(SpentClaims(s, k)')
<1>1. Len(claims') \in Nat /\ DOMAIN claims' = 1..Len(claims')
  BY LenProperties DEF TypeOK
<1>2. IsFiniteSet(1..Len(claims'))
  BY <1>1, FS_Interval
<1>3. SpentClaims(s, k)' \in SUBSET (1..Len(claims'))
  BY <1>1 DEF SpentClaims, ClaimsOf
<1>4. IsFiniteSet(SpentClaims(s, k)')
  BY <1>2, <1>3, FS_Subset
<1>5. SpentBudget(s, k)' = Cardinality(SpentClaims(s, k)')
  BY DEF SpentBudget, SpentClaims
<1>6. QED
  BY <1>4, <1>5, FS_CardinalityType

\* The ledger gains no failure that counts.
NoNewFailure == \A s, k : SpentClaims(s, k)' \subseteq SpentClaims(s, k)

LEMMA SpentNoMore ==
    ASSUME TypeOK, TypeOK', NoNewFailure, NEW s, NEW k
    PROVE  SpentBudget(s, k)' <= SpentBudget(s, k)
<1>1. SpentClaims(s, k)' \in SUBSET SpentClaims(s, k)
  BY DEF NoNewFailure
<1>2. IsFiniteSet(SpentClaims(s, k)) /\ SpentBudget(s, k) = Cardinality(SpentClaims(s, k))
  BY SpentFinite
<1>3. SpentBudget(s, k)' = Cardinality(SpentClaims(s, k)')
  BY SpentFiniteLater
<1>4. QED
  BY <1>1, <1>2, <1>3, FS_Subset

\* An attempt left stays left while no failure is added and no request taken back.
LEMMA StaysLeft ==
    ASSUME TypeOK, TypeOK', NoNewFailure, run'.cycle = run.cycle, env'.ops <= env.ops,
           NEW s, Left(s)
    PROVE  Left(s)'
<1>1. PICK k : k = run.cycle
  OBVIOUS
<1>2. SpentBudget(s, k)' <= SpentBudget(s, k) /\ SpentBudget(s, k) \in Nat
        /\ SpentBudget(s, k)' \in Nat
  BY SpentNoMore, SpentFinite, SpentFiniteLater
<1>3. SpentBudget(s, k) < MaxAttempts + (MaxOps - env.ops)
  BY <1>1 DEF Left
<1>4. env.ops \in Nat /\ env'.ops \in Nat /\ MaxAttempts \in Nat /\ MaxOps \in Nat
  BY ConfigAssumption DEF TypeOK
<1>5. SpentBudget(s, k)' < MaxAttempts + (MaxOps - env'.ops)
  BY <1>2, <1>3, <1>4
<1>6. QED
  BY <1>1, <1>5 DEF Left, SpentBudget, ClaimsOf

\* A step within the cycle that burns no attempt: the actors that may take the
\* run on have one left after it.
LEMMA SparingStep ==
    ASSUME IInv, TypeOK', Budget, NoNewFailure, NothingAhead',
           run'.cycle = run.cycle, Snap(run') = Snap(run) \/ run'.rev > run.rev,
           env'.ops <= env.ops,
           run'.status \notin {"failed", "completed", "cancelled"} => Left(EntryStage(run'.stage)),
           \A v \in Workers : workers'[v] = workers[v] \/ WorkerThrifty(workers[v])',
           console' = console \/ OperatorPaid'
    PROVE  Budget'
<1>1. /\ env.ops \in Nat /\ env'.ops \in Nat /\ MaxOps \in Nat /\ MaxAttempts \in Nat
      /\ run.rev \in Nat /\ run'.rev \in Nat
      /\ env.ops <= MaxOps
  BY ConfigAssumption DEF IInv, TypeOK, Budget
<1>2. env'.ops <= MaxOps
  BY <1>1
<1>3. run'.rev >= run.rev /\ (run'.rev = run.rev => Snap(run') = Snap(run))
  BY <1>1 DEF Snap
<1>4. RetryBudget'
  <2> SUFFICES ASSUME NEW s \in Stage
               PROVE  SpentBudget(s, run.cycle)' <= MaxAttempts + (MaxOps - env'.ops)
    BY DEF RetryBudget
  <2>1. PICK k : k = run.cycle
    OBVIOUS
  <2>2. SpentBudget(s, k) <= MaxAttempts + (MaxOps - env.ops)
    BY <2>1 DEF Budget, RetryBudget
  <2>3. SpentBudget(s, k)' <= SpentBudget(s, k) /\ SpentBudget(s, k) \in Nat
          /\ SpentBudget(s, k)' \in Nat
    BY SpentNoMore, SpentFinite, SpentFiniteLater DEF IInv
  <2>4. SpentBudget(s, k)' <= MaxAttempts + (MaxOps - env'.ops)
    BY <1>1, <2>2, <2>3
  <2>5. QED
    BY <2>1, <2>4 DEF SpentBudget, ClaimsOf
<1>5. RunGoesOn'
  <2> SUFFICES ASSUME run'.status \notin {"failed", "completed", "cancelled"}
               PROVE  Left(EntryStage(run.stage))'
    BY DEF RunGoesOn
  <2>1. PICK s : s = EntryStage(run'.stage)
    OBVIOUS
  <2>2. Left(s)'
    BY <2>1, StaysLeft DEF IInv
  <2>3. QED
    BY <2>1, <2>2 DEF Left, EntryStage
<1>6. WorkersThrifty'
  <2> SUFFICES ASSUME NEW v \in Workers, workers'[v] = workers[v]
               PROVE  WorkerThrifty(workers[v])'
    BY DEF WorkersThrifty
  <2>1. PICK me : me = workers[v]
    OBVIOUS
  <2> SUFFICES ASSUME me.pc \in {"failed", "requeue"}, me.held.rev = run'.rev,
                      me.cause = "saturated" \/ me.pc = "requeue"
               PROVE  Left(me.held.stage)'
    BY <2>1 DEF WorkerThrifty, Current, Left
  <2>2. HeldSound(me.held) /\ me.held.rev \in Nat
    BY <2>1 DEF IInv, WorkerSound, WorkerFine, TypeOK, Worker, Snapshot
  <2>3. Current(me.held)
    BY <1>1, <1>3, <2>2 DEF HeldSound, Current
  <2>4. Left(me.held.stage)
    BY <2>1, <2>3 DEF Budget, WorkersThrifty, WorkerThrifty
  <2>5. QED
    BY <2>4, StaysLeft DEF IInv
<1>7. OperatorPaid'
  <2> SUFFICES ASSUME console' = console PROVE OperatorPaid'
    OBVIOUS
  <2>1. PICK held : held = console.held
    OBVIOUS
  <2> SUFFICES ASSUME console.op = "requeue", held.rev = run'.rev PROVE Left(held.stage)'
    BY <2>1 DEF OperatorPaid, Current, Left
  <2>2. HeldSound(held) /\ held.rev \in Nat
    BY <2>1 DEF IInv, ConsoleSound, TypeOK, Snapshot
  <2>3. Current(held)
    BY <1>1, <1>3, <2>2 DEF HeldSound, Current
  <2>4. Left(held.stage)
    BY <2>1, <2>3 DEF Budget, OperatorPaid
  <2>5. QED
    BY <2>4, StaysLeft DEF IInv
<1>8. QED
  BY <1>2, <1>4, <1>5, <1>6, <1>7 DEF Budget

\* The ledger keeps its rows, and none becomes a failure that counts.
BurnsNothing ==
    /\ Len(claims') = Len(claims)
    /\ \A i \in 1..Len(claims) :
          /\ claims'[i].stage = claims[i].stage
          /\ claims'[i].cycle = claims[i].cycle
          /\ claims'[i].status = "failed" /\ claims'[i].cause \in {"transient", "fatal"}
                 => claims'[i] = claims[i]

LEMMA BurnsNothingFacts ==
    ASSUME TypeOK, TypeOK', BurnsNothing
    PROVE  NoNewFailure
<1>1. /\ DOMAIN claims = 1..Len(claims) /\ DOMAIN claims' = 1..Len(claims)
  BY LenProperties DEF TypeOK, BurnsNothing
<1>2. QED
  BY <1>1 DEF NoNewFailure, BurnsNothing, SpentClaims, ClaimsOf

LEMMA StaysBehind ==
    ASSUME TypeOK, TypeOK', BurnsNothing, NothingAhead, run'.cycle = run.cycle,
           Behind \cup {EntryStage(run.stage)} \subseteq Behind' \cup {EntryStage(run'.stage)}
    PROVE  NothingAhead'
<1>1. /\ DOMAIN claims = 1..Len(claims) /\ DOMAIN claims' = 1..Len(claims)
  BY LenProperties DEF TypeOK, BurnsNothing
<1> SUFFICES ASSUME NEW i \in 1..Len(claims), claims[i].cycle = run.cycle
             PROVE  claims[i].stage \in Behind' \cup {EntryStage(run'.stage)}
  BY <1>1 DEF BurnsNothing, NothingAhead, EntryStage
<1>2. QED
  BY <1>1 DEF NothingAhead

LEMMA KeptLedger ==
    ASSUME UNCHANGED claims PROVE BurnsNothing
BY DEF BurnsNothing

LEMMA ClosesWithoutBurning ==
    ASSUME TypeOK, NEW c \in 1..Len(claims),
           NEW status \in ClaimStatus, NEW cause \in Cause,
           status # "failed" \/ cause \notin {"transient", "fatal"},
           FinishClaim(c, status, cause)
    PROVE  BurnsNothing
<1>1. claims \in Seq(Claim) /\ claims[c] \in Claim
  BY LedgerShape DEF TypeOK
<1> DEFINE row == Closed(claims[c], status, cause)
<1>2. claims' = [claims EXCEPT ![c] = row]
  BY <1>1, LedgerShape DEF FinishClaim
<1>3. /\ row \in Claim /\ row.stage = claims[c].stage /\ row.cycle = claims[c].cycle
      /\ row.status = status /\ row.cause = cause
  BY <1>1 DEF Closed, Claim
<1>4. /\ Len(claims') = Len(claims)
      /\ \A j \in 1..Len(claims) : claims'[j] = IF j = c THEN row ELSE claims[j]
  <2> HIDE DEF row
  <2> QED BY <1>1, <1>2, <1>3, ExceptSeq
<1>5. QED
  <2> HIDE DEF row
  <2> QED BY <1>3, <1>4 DEF BurnsNothing

LEMMA SkippedBurnsNothing ==
    ASSUME TypeOK, NEW c \in 0..Len(claims), SkipIfRunning(c) \/ UNCHANGED claims
    PROVE  BurnsNothing
<1>1. CASE UNCHANGED claims
  BY <1>1, KeptLedger
<1>2. CASE c # 0 /\ FinishClaim(c, "skipped", "none")
  <2>1. c \in 1..Len(claims) /\ "skipped" \in ClaimStatus /\ "none" \in Cause
    BY <1>2, LedgerShape DEF ClaimStatus, Cause
  <2>2. QED
    BY <1>2, <2>1, ClosesWithoutBurning
<1>3. QED
  BY <1>1, <1>2 DEF SkipIfRunning, IsRunning

\* A step that leaves the row where it is.
LEMMA StandingStep ==
    ASSUME IInv, TypeOK', Budget, BurnsNothing, Snap(run') = Snap(run), env'.ops <= env.ops,
           \A v \in Workers : workers'[v] = workers[v] \/ WorkerThrifty(workers[v])',
           console' = console \/ OperatorPaid'
    PROVE  Budget'
<1>1. /\ run'.status = run.status /\ run'.stage = run.stage /\ run'.cycle = run.cycle
  BY DEF Snap
<1>2. Behind' = Behind
  BY <1>1 DEF Behind
<1>3. NoNewFailure /\ NothingAhead'
  BY <1>1, <1>2, BurnsNothingFacts, StaysBehind DEF IInv, Budget
<1>4. run'.status \notin {"failed", "completed", "cancelled"} => Left(EntryStage(run'.stage))
  BY <1>1 DEF Budget, RunGoesOn
<1>5. QED
  BY <1>1, <1>3, <1>4, SparingStep

\* The same, by one worker that is not about to take a FAILED run on.
LEMMA StandingWorker ==
    ASSUME IInv, TypeOK', Budget, BurnsNothing, Snap(run') = Snap(run), env'.ops <= env.ops,
           UNCHANGED console, NEW w \in Workers, NEW me \in Worker, Become(w, me),
           me.pc \notin {"failed", "requeue"}
    PROVE  Budget'
<1>1. workers'[w] = me /\ \A v \in Workers : v # w => workers'[v] = workers[v]
  BY BecomeType DEF IInv
<1>2. WorkerThrifty(workers[w])'
  BY <1>1 DEF WorkerThrifty
<1>3. QED
  BY <1>1, <1>2, StandingStep

-----------------------------------------------------------------------------
(* The steps that leave the row where it is. *)

LEMMA OpsSame ==
    ASSUME TypeOK
    PROVE  /\ env.ops \in Nat /\ env.ops <= env.ops
           /\ \A n : [env EXCEPT !.crashes = n].ops = env.ops
           /\ \A n : [env EXCEPT !.faults = n].ops = env.ops
           /\ \A n : [env EXCEPT !.slow = n].ops = env.ops
           /\ \A n : [env EXCEPT !.broker = n].ops = env.ops
<1>1. env \in EnvType
  BY EnvTyped
<1>2. QED
  BY <1>1 DEF EnvType

LEMMA QueueBudget ==
    ASSUME IInv, IInv', Budget,
           \/ \E w \in Workers : DeferTask(w) \/ Redeliver(w)
           \/ \E lane \in Lane : LoseMessage(lane)
           \/ SweepPublish
    PROVE  Budget'
<1>1. UNCHANGED <<run, claims, workers, console>> /\ env'.ops <= env.ops
  BY OpsSame DEF IInv, DeferTask, SweepPublish, LoseMessage, Redeliver
<1>2. QED
  BY <1>1, KeptLedger, StandingStep DEF IInv

LEMMA StartTaskBudget ==
    ASSUME IInv, IInv', Budget, NEW w \in Workers, NEW lane \in Lane, StartTask(w, lane)
    PROVE  Budget'
<1>1. UNCHANGED <<run, claims, console, env>> /\ env'.ops <= env.ops
  BY OpsSame DEF IInv, StartTask
<1>2. PICK me \in Worker : Become(w, me) /\ me.pc \notin {"failed", "requeue"}
  <2>1. PICK me : /\ Become(w, me)
                  /\ me = IF run.status = "queued" /\ LaneOf(run.stage) # lane THEN Idle
                          ELSE [Idle EXCEPT !.pc = IF run.status = "queued" THEN "entry" ELSE "loop",
                                            !.lane = lane,
                                            !.held = IF run.status = "queued" THEN Snap(run) ELSE @]
    BY DEF StartTask
  <2>2. me \in Worker /\ me.pc \notin {"failed", "requeue"}
    BY <2>1, Typed, IdleType, NoSnapType DEF Worker, Idle
  <2>3. QED
    BY <2>1, <2>2
<1>3. QED
  BY <1>1, <1>2, KeptLedger, StandingWorker DEF IInv

LEMMA ReturnBudget ==
    ASSUME IInv, IInv', Budget, NEW w \in Workers,
           LeaveRun(w) \/ RefuseClaim(w) \/ Crash(w)
    PROVE  Budget'
<1>1. UNCHANGED <<run, claims, console>> /\ env'.ops <= env.ops
  BY OpsSame DEF IInv, LeaveRun, RefuseClaim, Crash
<1>2. Become(w, Idle)
  BY DEF LeaveRun, RefuseClaim, Crash, ReturnRun
<1>3. Idle.pc \notin {"failed", "requeue"}
  BY DEF Idle
<1>4. QED
  BY <1>1, <1>2, <1>3, IdleType, KeptLedger, StandingWorker DEF IInv

LEMMA ReadRunBudget ==
    ASSUME IInv, IInv', Budget, NEW w \in Workers, ReadRun(w)
    PROVE  Budget'
<1> DEFINE me == [workers[w] EXCEPT !.pc = "claim", !.held = Snap(run)]
<1>1. UNCHANGED <<run, claims, console, env>> /\ env'.ops <= env.ops /\ Become(w, me)
  BY OpsSame DEF IInv, ReadRun
<1>2. me \in Worker /\ me.pc = "claim"
  BY Typed DEF Worker
<1> HIDE DEF me
<1>3. QED
  BY <1>1, <1>2, KeptLedger, StandingWorker DEF IInv

LEMMA LoseCommitBudget ==
    ASSUME IInv, IInv', Budget, NEW w \in Workers, LoseCommit(w)
    PROVE  Budget'
<1> DEFINE me == [workers[w] EXCEPT !.pc = "stale", !.held = NoSnap]
<1>1. UNCHANGED <<run, claims, console, env>> /\ env'.ops <= env.ops /\ Become(w, me)
  BY OpsSame DEF IInv, LoseCommit
<1>2. me \in Worker /\ me.pc = "stale"
  BY Typed, NoSnapType DEF Worker
<1> HIDE DEF me
<1>3. QED
  BY <1>1, <1>2, KeptLedger, StandingWorker DEF IInv

LEMMA StopBudget ==
    ASSUME IInv, IInv', Budget, NEW w \in Workers, StopIfCancelled(w) \/ StopIfPaused(w)
    PROVE  Budget'
<1>1. UNCHANGED <<run, console, env>> /\ env'.ops <= env.ops
  BY OpsSame DEF IInv, StopIfCancelled, StopIfPaused
<1>2. BurnsNothing
  <2>1. workers[w].claim \in 0..Len(claims)
    BY Typed, LedgerShape DEF IInv, ClaimIds, Worker
  <2>2. QED
    BY <2>1, SkippedBurnsNothing DEF IInv, StopIfCancelled, StopIfPaused
<1>3. PICK me \in Worker : Become(w, me) /\ me.pc \notin {"failed", "requeue"}
  <2>1. Idle.pc = "idle"
    BY DEF Idle
  <2> DEFINE on == [workers[w] EXCEPT !.pc = "stalePaused"]
  <2>2. on \in Worker /\ on.pc = "stalePaused"
    BY Typed DEF Worker
  <2>3. Become(w, Idle) \/ Become(w, on)
    BY DEF StopIfCancelled, StopIfPaused
  <2> HIDE DEF on
  <2>4. QED
    BY <2>1, <2>2, <2>3, IdleType
<1>4. QED
  BY <1>1, <1>2, <1>3, StandingWorker DEF IInv

\* A worker that counted the ledger and may retry has an attempt left.
LEMMA CountBudgetBudget ==
    ASSUME IInv, IInv', Budget, NEW w \in Workers, CountBudget(w)
    PROVE  Budget'
<1>1. UNCHANGED <<run, claims, console, env>> /\ env'.ops <= env.ops
  BY OpsSame DEF IInv, CountBudget
<1>2. CASE ~Retryable(w)
  <2>1. Become(w, Idle) /\ Idle.pc = "idle"
    BY <1>2 DEF CountBudget, Idle
  <2>2. QED
    BY <1>1, <2>1, IdleType, KeptLedger, StandingWorker DEF IInv
<1>3. CASE Retryable(w)
  <2>1. PICK old \in Worker : old = workers[w] /\ old.pc = "failed"
    BY Typed DEF CountBudget, At
  <2> DEFINE me == [old EXCEPT !.pc = "requeue"]
  <2>2. /\ me \in Worker /\ me.pc = "requeue" /\ me.held = old.held /\ me.cause = old.cause
    BY <2>1 DEF Worker
  <2>3. Become(w, me)
    BY <1>3, <2>1 DEF CountBudget
  <2>4. Current(old.held) => Left(old.held.stage)
    <3>1. CASE old.cause = "saturated"
      BY <2>1, <3>1 DEF Budget, WorkersThrifty, WorkerThrifty
    <3>2. CASE SpentBudget(old.held.stage, old.held.cycle) < MaxAttempts
      <4> SUFFICES ASSUME Current(old.held) PROVE Left(old.held.stage)
        OBVIOUS
      <4>1. HeldSound(old.held)
        BY <2>1 DEF IInv, WorkerSound, WorkerFine
      <4>2. old.held.cycle = run.cycle
        BY <4>1, CurrentIsRow
      <4>3. /\ env.ops \in Nat /\ MaxOps \in Nat /\ MaxAttempts \in Nat /\ env.ops <= MaxOps
            /\ SpentBudget(old.held.stage, run.cycle) \in Nat
        BY ConfigAssumption, SpentFinite DEF IInv, TypeOK, Budget
      <4>4. SpentBudget(old.held.stage, run.cycle) < MaxAttempts
        BY <3>2, <4>2
      <4>5. SpentBudget(old.held.stage, run.cycle) < MaxAttempts + (MaxOps - env.ops)
        BY <4>3, <4>4
      <4>6. QED
        BY <4>5 DEF Left
    <3>3. QED
      BY <1>3, <2>1, <3>1, <3>2 DEF Retryable
  <2> HIDE DEF me
  <2>5. workers'[w] = me /\ \A v \in Workers : v # w => workers'[v] = workers[v]
    BY <2>2, <2>3, BecomeType DEF IInv
  <2>6. WorkerThrifty(workers[w])'
    <3> SUFFICES ASSUME old.held.rev = run.rev PROVE Left(old.held.stage)'
      BY <1>1, <2>2, <2>5, Zenon DEF WorkerThrifty, Current, Left, SpentBudget, ClaimsOf
    <3>1. Left(old.held.stage)
      BY <2>4 DEF Current
    <3>2. QED
      BY <1>1, <3>1 DEF Left, SpentBudget, ClaimsOf
  <2>7. QED
    BY <1>1, <2>5, <2>6, KeptLedger, StandingStep DEF IInv
<1>4. QED
  BY <1>2, <1>3

LEMMA SweepReadBudget ==
    ASSUME IInv, IInv', Budget, SweepRead
    PROVE  Budget'
<1>1. UNCHANGED <<run, claims, workers, console>> /\ env'.ops <= env.ops
  BY OpsSame DEF IInv, SweepRead
<1>2. QED
  BY <1>1, KeptLedger, StandingStep DEF IInv

LEMMA SweepCloseBudget ==
    ASSUME IInv, IInv', Budget, SweepClose
    PROVE  Budget'
<1>1. UNCHANGED <<run, workers, console, env>> /\ env'.ops <= env.ops
  BY OpsSame DEF IInv, SweepClose
<1>2. /\ DOMAIN claims = 1..Len(claims) /\ DOMAIN claims' = 1..Len(claims')
      /\ Len(claims) \in Nat /\ Len(claims') \in Nat
      /\ \A i \in 1..Len(claims) : claims[i] \in Claim
  BY LedgerShape, LenProperties DEF IInv, TypeOK
<1>3. \A i \in 1..Len(claims) :
         claims'[i] = IF i \in Abandoned THEN Closed(claims[i], "skipped", "none") ELSE claims[i]
  BY <1>2 DEF SweepClose
<1>4. DOMAIN claims' = 1..Len(claims)
  BY <1>2 DEF SweepClose
<1>5. Len(claims') = Len(claims)
  <2>1. Cardinality(1..Len(claims')) = Cardinality(1..Len(claims))
    BY <1>2, <1>4
  <2>2. \A n \in Nat : Cardinality(1..n) = n
    BY FS_Interval
  <2>3. QED
    BY <1>2, <2>1, <2>2
<1>6. \A i \in 1..Len(claims) :
         LET row == Closed(claims[i], "skipped", "none")
         IN  row.stage = claims[i].stage /\ row.cycle = claims[i].cycle /\ row.status = "skipped"
  BY <1>2 DEF Closed, Claim
<1>7. BurnsNothing
  BY <1>3, <1>5, <1>6 DEF BurnsNothing
<1>8. QED
  BY <1>1, <1>7, StandingStep DEF IInv

LEMMA LeaseExpiresBudget ==
    ASSUME IInv, IInv', Budget, NEW c \in DOMAIN claims, LeaseExpires(c)
    PROVE  Budget'
<1>1. UNCHANGED <<run, workers, console>> /\ env'.ops <= env.ops
  BY OpsSame DEF IInv, LeaseExpires
<1>2. /\ c \in 1..Len(claims) /\ claims[c] \in Claim /\ claims \in Seq(Claim)
      /\ claims[c].status = "running"
  BY LedgerShape DEF IInv, TypeOK, LeaseExpires, ActivelyOwned, IsRunning
<1> DEFINE row == [claims[c] EXCEPT !.live = FALSE]
<1>3. /\ row \in Claim /\ row.stage = claims[c].stage /\ row.cycle = claims[c].cycle
      /\ row.status = "running"
  BY <1>2 DEF Claim
<1>4. claims' = [claims EXCEPT ![c] = row]
  BY <1>2 DEF LeaseExpires
<1> HIDE DEF row
<1>5. /\ Len(claims') = Len(claims)
      /\ \A j \in 1..Len(claims) : claims'[j] = IF j = c THEN row ELSE claims[j]
  BY <1>2, <1>3, <1>4, ExceptSeq
<1>6. BurnsNothing
  BY <1>3, <1>5 DEF BurnsNothing
<1>7. QED
  BY <1>1, <1>6, StandingStep DEF IInv

LEMMA OpsSpent ==
    ASSUME TypeOK, env.ops > 0, Spend
    PROVE  env'.ops = env.ops - 1 /\ env'.ops <= env.ops
<1>1. env \in EnvType
  BY EnvTyped
<1>2. QED
  BY <1>1 DEF EnvType, Spend

LEMMA SwitchBudget ==
    ASSUME IInv, IInv', Budget, ToggleQueue \/ UnarchiveRun
    PROVE  Budget'
<1>1. UNCHANGED <<claims, workers, console>> /\ env'.ops <= env.ops
  BY OpsSpent DEF IInv, ToggleQueue, UnarchiveRun
<1>2. Snap(run') = Snap(run)
  BY Typed DEF ToggleQueue, UnarchiveRun, Snap, RowType
<1>3. QED
  BY <1>1, <1>2, KeptLedger, StandingStep DEF IInv

\* The operator's request buys one more attempt.
LEMMA ConsoleReadBudget ==
    ASSUME IInv, IInv', Budget, NEW op \in Request, ConsoleRead(op)
    PROVE  Budget'
<1>1. UNCHANGED <<run, claims, workers>> /\ env'.ops = env.ops - 1 /\ env'.ops <= env.ops
  BY OpsSpent DEF IInv, ConsoleRead
<1>2. OperatorPaid'
  <2> SUFFICES ASSUME op = "requeue" PROVE Left(run.stage)'
    BY <1>1 DEF ConsoleRead, OperatorPaid, Left, Snap, SpentBudget, ClaimsOf
  <2>1. run.stage \in Stage
    BY RowStage DEF ConsoleRead, Accepts
  <2>2. SpentBudget(run.stage, run.cycle) <= MaxAttempts + (MaxOps - env.ops)
    BY <2>1 DEF Budget, RetryBudget
  <2>3. /\ SpentBudget(run.stage, run.cycle) \in Nat /\ env.ops \in Nat
        /\ MaxOps \in Nat /\ MaxAttempts \in Nat
    BY ConfigAssumption, SpentFinite DEF IInv, TypeOK
  <2>4. SpentBudget(run.stage, run.cycle) < MaxAttempts + (MaxOps - env'.ops)
    BY <1>1, <2>2, <2>3
  <2>5. QED
    BY <1>1, <2>4 DEF Left, SpentBudget, ClaimsOf
<1>3. QED
  BY <1>1, <1>2, KeptLedger, StandingStep DEF IInv

\* A new claim is RUNNING, of the stage the run is at.
LEMMA ClaimStageBudget ==
    ASSUME IInv, IInv', Budget, NEW w \in Workers, ClaimStage(w)
    PROVE  Budget'
<1> DEFINE row == NewClaim(run.stage, run.cycle)
           top == Len(claims) + 1
           me == [workers[w] EXCEPT !.pc = "body", !.claim = top]
<1>1. /\ claims' = Append(claims, row) /\ Become(w, me)
      /\ UNCHANGED <<run, console, env>> /\ env'.ops <= env.ops
  BY OpsSame DEF IInv, ClaimStage
<1>2. run.stage \in Stage /\ run.status = "running"
  <2>1. run.status = "running"
    BY DEF ClaimStage, Claimable
  <2>2. run.stage # 0 /\ run.stage \in MaybeStage
    BY <2>1 DEF IInv, TypeOK, RunAtStage
  <2>3. QED
    BY <2>1, <2>2 DEF Stage, MaybeStage
<1>3. row \in Claim /\ row.stage = run.stage /\ row.cycle = run.cycle /\ row.status = "running"
  <2>1. AttemptOf(LatestClaim(run.stage, run.cycle)) \in Nat /\ run.cycle \in Nat
    BY LatestClaimType DEF IInv, TypeOK
  <2>2. QED
    BY <1>2, <2>1 DEF NewClaim, Claim, ClaimStatus, Cause
<1>4. me \in Worker /\ me.pc = "body"
  <2>1. top \in Nat /\ workers[w] \in Worker
    BY Typed, LedgerShape
  <2>2. QED
    BY <2>1 DEF Worker
<1> HIDE DEF row, me
<1>5. /\ Len(claims') = top /\ claims'[top] = row
      /\ \A i \in 1..Len(claims) : claims'[i] = claims[i]
  BY <1>1, <1>3, AppendKeepsLedger DEF IInv
<1>6. /\ DOMAIN claims = 1..Len(claims) /\ DOMAIN claims' = 1..top /\ Len(claims) \in Nat
  BY <1>5, LedgerShape, LenProperties DEF IInv, TypeOK
<1>7. \A i \in 1..top : i \in 1..Len(claims) \/ i = top
  BY <1>6
<1>8. NoNewFailure
  BY <1>3, <1>5, <1>6, <1>7 DEF NoNewFailure, SpentClaims, ClaimsOf
<1>9. NothingAhead'
  <2> SUFFICES ASSUME NEW i \in 1..top, claims'[i].cycle = run.cycle
               PROVE  claims'[i].stage \in Behind \cup {EntryStage(run.stage)}
    BY <1>1, <1>6 DEF NothingAhead, Behind, EntryStage
  <2>1. CASE i \in 1..Len(claims)
    BY <2>1, <1>5, <1>6 DEF Budget, NothingAhead
  <2>2. CASE i = top
    BY <2>2, <1>2, <1>3, <1>5 DEF EntryStage, Stage
  <2>3. QED
    BY <1>7, <2>1, <2>2
<1>10. workers'[w] = me /\ \A v \in Workers : v # w => workers'[v] = workers[v]
  BY <1>1, <1>4, BecomeType DEF IInv
<1>11. WorkerThrifty(workers[w])'
  BY <1>4, <1>10 DEF WorkerThrifty
<1>12. run.status \notin {"failed", "completed", "cancelled"} => Left(EntryStage(run.stage))
  BY DEF Budget, RunGoesOn
<1>13. QED
  BY <1>1, <1>8, <1>9, <1>10, <1>11, <1>12, SparingStep DEF IInv

-----------------------------------------------------------------------------
(* The steps that move the row. *)

\* Every CAS but the commit's and the restart's: the row keeps its place.
LEMMA PlaceBudget ==
    ASSUME IInv, TypeOK', Budget, BurnsNothing,
           run'.rev > run.rev, run'.cycle = run.cycle,
           run.status # "completed", run'.status # "completed",
           run'.stage = run.stage \/ (run.stage = 0 /\ run'.stage = 1),
           run'.status \notin {"failed", "cancelled"} => Left(EntryStage(run.stage)),
           env'.ops <= env.ops,
           \A v \in Workers : workers'[v] = workers[v] \/ WorkerThrifty(workers[v])',
           console' = console \/ OperatorPaid'
    PROVE  Budget'
<1>1. EntryStage(run'.stage) = EntryStage(run.stage)
  BY DEF EntryStage
<1>2. Behind' = Behind
  BY DEF Behind, Stage
<1>3. NoNewFailure /\ NothingAhead'
  BY <1>1, <1>2, BurnsNothingFacts, StaysBehind DEF IInv, Budget
<1>4. QED
  BY <1>1, <1>3, SparingStep

LEMMA EnterRunBudget ==
    ASSUME IInv, IInv', Budget, NEW w \in Workers, EnterRun(w)
    PROVE  Budget'
<1> DEFINE held == workers[w].held
           me == [workers[w] EXCEPT !.pc = "loop", !.held = NoSnap]
<1>1. UNCHANGED <<claims, console, env>> /\ env'.ops <= env.ops /\ Become(w, me)
  BY OpsSame DEF IInv, EnterRun
<1>2. me \in Worker /\ me.pc = "loop"
  BY Typed, NoSnapType DEF Worker
<1> HIDE DEF me
<1>3. workers'[w] = me /\ \A v \in Workers : v # w => workers'[v] = workers[v]
  BY <1>1, <1>2, BecomeType DEF IInv
<1>4. WorkerThrifty(workers[w])'
  BY <1>2, <1>3 DEF WorkerThrifty
<1>5. CASE ~Current(held)
  <2>1. run' = run
    BY <1>5 DEF EnterRun
  <2>2. QED
    BY <1>1, <1>2, <2>1, KeptLedger, StandingWorker DEF IInv
<1>6. CASE Current(held)
  <2>1. held.stage = run.stage /\ run.status = "queued" /\ run.stage \in MaybeStage
    BY <1>6, WorkerHolds, RowStage DEF EnterRun
  <2>2. /\ EntryStage(run.stage) \in Stage /\ EntryStage(run.stage) \in MaybeStage
        /\ EntryStage(run.stage) = run.stage \/ (run.stage = 0 /\ EntryStage(run.stage) = 1)
    BY <2>1, NextStageType DEF EntryStage, MaybeStage, Stage
  <2>3. run' = Moved(run, "running", EntryStage(run.stage))
    BY <1>6, <2>1 DEF EnterRun
  <2>4. /\ run'.rev > run.rev /\ run'.cycle = run.cycle
        /\ run'.status = "running" /\ run'.stage = EntryStage(run.stage)
    BY <2>2, <2>3, MovedRow DEF IInv, RunStatus
  <2>5. Left(EntryStage(run.stage))
    BY <2>1 DEF Budget, RunGoesOn
  <2>6. QED
    BY <1>1, <1>3, <1>4, <2>1, <2>2, <2>4, <2>5, KeptLedger, PlaceBudget DEF IInv
<1>7. QED
  BY <1>5, <1>6

\* A FAILED run goes on because the worker that failed it may retry.
LEMMA RequeueBudget ==
    ASSUME IInv, IInv', Budget, NEW w \in Workers, RequeueFailedStage(w)
    PROVE  Budget'
<1> DEFINE held == workers[w].held
<1>1. UNCHANGED <<claims, console, env>> /\ env'.ops <= env.ops /\ Become(w, Idle)
  BY OpsSame DEF IInv, RequeueFailedStage
<1>2. Idle.pc = "idle"
  BY DEF Idle
<1>3. workers'[w] = Idle /\ \A v \in Workers : v # w => workers'[v] = workers[v]
  BY <1>1, IdleType, BecomeType DEF IInv
<1>4. WorkerThrifty(workers[w])'
  BY <1>2, <1>3 DEF WorkerThrifty
<1>5. CASE ~Current(held)
  <2>1. run' = run
    BY <1>5 DEF RequeueFailedStage
  <2>2. QED
    BY <1>1, <1>2, <2>1, IdleType, KeptLedger, StandingWorker DEF IInv
<1>6. CASE Current(held)
  <2>1. held.stage = run.stage /\ run.status = "failed" /\ run.stage # 0 /\ run.stage \in MaybeStage
    BY <1>6, WorkerHolds, RowStage DEF RequeueFailedStage
  <2>2. run' = Moved(run, "queued", run.stage)
    BY <1>6, <2>1 DEF RequeueFailedStage
  <2>3. /\ run'.rev > run.rev /\ run'.cycle = run.cycle
        /\ run'.status = "queued" /\ run'.stage = run.stage
    BY <2>1, <2>2, MovedRow DEF IInv, RunStatus
  <2>4. Left(run.stage)
    BY <1>6, <2>1 DEF Budget, WorkersThrifty, WorkerThrifty, RequeueFailedStage, At
  <2>5. EntryStage(run.stage) = run.stage
    BY <2>1 DEF EntryStage
  <2>6. QED
    BY <1>1, <1>3, <1>4, <2>1, <2>3, <2>4, <2>5, KeptLedger, PlaceBudget DEF IInv
<1>7. QED
  BY <1>5, <1>6

LEMMA SweepWriteBudget ==
    ASSUME IInv, IInv', Budget, SweepWrite
    PROVE  Budget'
<1>1. UNCHANGED <<workers, console, env>> /\ env'.ops <= env.ops
  BY OpsSame DEF IInv, SweepWrite
<1>2. BurnsNothing
  <2>1. CASE sweep.close = 0
    BY <2>1, KeptLedger DEF SweepWrite
  <2>2. CASE sweep.close # 0
    <3>1. sweep.close \in 1..Len(claims)
      <4>1. sweep.close \in Nat /\ Len(claims) \in Nat /\ sweep.close <= Len(claims)
        BY LedgerShape DEF IInv, TypeOK, ClaimIds
      <4>2. QED
        BY <2>2, <4>1
    <3>2. FinishClaim(sweep.close, "failed", "interrupted")
      BY <2>2 DEF SweepWrite
    <3>3. "failed" \in ClaimStatus /\ "interrupted" \in Cause
      BY DEF ClaimStatus, Cause
    <3>4. QED
      BY <3>1, <3>2, <3>3, ClosesWithoutBurning DEF IInv
  <2>3. QED
    BY <2>1, <2>2
<1>3. CASE ~Current(sweep.held)
  <2>1. run' = run
    BY <1>3 DEF SweepWrite
  <2>2. QED
    BY <1>1, <1>2, <2>1, StandingStep DEF IInv
<1>4. CASE Current(sweep.held)
  <2>1. /\ run.status = "running" /\ run.stage \in MaybeStage
        /\ run \in RowType /\ run.rev \in Nat
    BY <1>4, SweepHolds, RowStage DEF SweepWrite
  <2> DEFINE failed == Moved(run, "failed", run.stage)
             queued == Moved(failed, "queued", run.stage)
  <2>2. run' = failed \/ run' = queued
    BY <1>4 DEF SweepWrite, Reclaimed, Moved
  <2>3. /\ failed.status = "failed" /\ failed.stage = run.stage
        /\ failed.rev = run.rev + 1 /\ failed.cycle = run.cycle
        /\ queued.status = "queued" /\ queued.stage = run.stage
        /\ queued.rev = run.rev + 1 + 1 /\ queued.cycle = run.cycle
    BY DEF Moved
  <2> HIDE DEF failed, queued
  <2>4. /\ run'.status \in {"failed", "queued"} /\ run'.stage = run.stage
        /\ run'.rev > run.rev /\ run'.cycle = run.cycle
    BY <2>1, <2>2, <2>3
  <2>5. Left(EntryStage(run.stage))
    BY <2>1 DEF Budget, RunGoesOn
  <2>6. QED
    BY <1>1, <1>2, <2>1, <2>4, <2>5, PlaceBudget DEF IInv
<1>5. QED
  BY <1>3, <1>4

LEMMA ConsoleWriteBudget ==
    ASSUME IInv, IInv', Budget, ConsoleWrite
    PROVE  Budget'
<1> DEFINE held == console.held
           wins == console.op # "archive" /\ Current(held)
<1>1. UNCHANGED <<claims, workers, env>> /\ env'.ops <= env.ops /\ console' = NoRequest
  BY OpsSame DEF IInv, ConsoleWrite
<1>2. OperatorPaid'
  BY <1>1 DEF OperatorPaid, NoRequest
<1>3. CASE ~wins
  <2>1. Snap(run') = Snap(run)
    BY <1>3, Typed DEF ConsoleWrite, RowType, Snap
  <2>2. QED
    BY <1>1, <1>2, <2>1, KeptLedger, StandingStep DEF IInv
<1>4. CASE wins
  <2>1. console.op \in {"cancel", "pause", "resume", "requeue"}
    BY <1>4 DEF ConsoleWrite, IInv, TypeOK, Request
  <2>2. /\ held.stage = run.stage /\ held.status = run.status /\ run.stage \in MaybeStage
    BY <1>4, <2>1, ConsoleHolds, RowStage
  <2>3. run.status # "completed"
    BY <2>1, <2>2 DEF IInv, ConsoleSound
  <2>4. /\ Target(console.op) \in {"cancelled", "paused", "queued"}
        /\ console.op = "cancel" => Target(console.op) = "cancelled"
    BY <2>1 DEF Target
  <2>5. /\ run'.rev > run.rev /\ run'.cycle = run.cycle
        /\ run'.status = Target(console.op) /\ run'.stage = run.stage
    <3>1. run' = Moved(run, Target(console.op), run.stage)
      BY <1>4, <2>2 DEF ConsoleWrite
    <3>2. Target(console.op) \in RunStatus
      BY <2>4 DEF RunStatus
    <3>3. QED
      BY <2>2, <2>4, <3>1, <3>2, MovedRow DEF IInv
  <2>6. console.op # "cancel" => Left(EntryStage(run.stage))
    <3>1. CASE console.op = "requeue"
      <4>1. Left(run.stage) /\ run.stage # 0
        BY <3>1, <1>4, <2>2 DEF Budget, OperatorPaid, IInv, ConsoleSound
      <4>2. QED
        BY <4>1 DEF EntryStage
    <3>2. CASE console.op \in {"pause", "resume"}
      <4>1. run.status \in {"queued", "running", "paused"}
        BY <3>2, <2>2 DEF IInv, ConsoleSound
      <4>2. QED
        BY <4>1 DEF Budget, RunGoesOn
    <3>3. QED
      BY <2>1, <3>1, <3>2
  <2>7. QED
    BY <1>1, <1>2, <2>3, <2>4, <2>5, <2>6, KeptLedger, PlaceBudget DEF IInv
<1>5. QED
  BY <1>3, <1>4

-----------------------------------------------------------------------------
(* The three steps that burn an attempt, pass a stage or open a cycle. *)

\* Once the row has moved, a snapshot somebody kept is of an older revision.
LEMMA NobodyElseGoesOn ==
    ASSUME IInv, TypeOK', run'.rev > run.rev
    PROVE  /\ \A v \in Workers : workers'[v] = workers[v] => WorkerThrifty(workers[v])'
           /\ console' = console => OperatorPaid'
<1>1. run.rev \in Nat /\ run'.rev \in Nat
  BY DEF IInv, TypeOK
<1>2. ASSUME NEW v \in Workers, workers'[v] = workers[v] PROVE WorkerThrifty(workers[v])'
  <2>1. PICK me : me = workers[v]
    OBVIOUS
  <2> SUFFICES ASSUME me.pc \in {"failed", "requeue"}, me.held.rev = run'.rev PROVE FALSE
    BY <1>2, <2>1 DEF WorkerThrifty, Current
  <2>2. me.held.rev <= run.rev /\ me.held.rev \in Nat
    BY <2>1 DEF IInv, WorkerSound, WorkerFine, HeldSound, TypeOK, Worker, Snapshot
  <2>3. QED
    BY <1>1, <2>2
<1>3. ASSUME console' = console PROVE OperatorPaid'
  <2>1. PICK held : held = console.held
    OBVIOUS
  <2> SUFFICES ASSUME console.op = "requeue", held.rev = run'.rev PROVE FALSE
    BY <1>3, <2>1 DEF OperatorPaid, Current
  <2>2. held.rev <= run.rev /\ held.rev \in Nat
    BY <2>1 DEF IInv, ConsoleSound, HeldSound, TypeOK, Snapshot
  <2>3. QED
    BY <1>1, <2>2
<1>4. QED
  BY <1>2, <1>3

\* A failure that counts is one more, and only in the count of its own stage.
LEMMA BurnsOne ==
    ASSUME IInv, TypeOK', SameLedger, NEW c \in 1..Len(claims),
           \A i \in 1..Len(claims) : i # c => claims'[i] = claims[i],
           NEW s, NEW k
    PROVE  /\ SpentBudget(s, k)' <= SpentBudget(s, k) + 1
           /\ claims[c].stage # s => SpentBudget(s, k)' <= SpentBudget(s, k)
<1>1. /\ DOMAIN claims = 1..Len(claims) /\ DOMAIN claims' = 1..Len(claims)
  BY LenProperties DEF SameLedger, IInv, TypeOK
<1>2. /\ IsFiniteSet(SpentClaims(s, k)) /\ SpentBudget(s, k) \in Nat
      /\ SpentBudget(s, k) = Cardinality(SpentClaims(s, k))
      /\ SpentBudget(s, k)' \in Nat /\ SpentBudget(s, k)' = Cardinality(SpentClaims(s, k)')
  BY SpentFinite, SpentFiniteLater DEF IInv
<1>3. SpentClaims(s, k)' \in SUBSET (SpentClaims(s, k) \cup {c})
  BY <1>1 DEF SpentClaims, ClaimsOf
<1>4. /\ IsFiniteSet(SpentClaims(s, k) \cup {c})
      /\ \/ Cardinality(SpentClaims(s, k) \cup {c}) = Cardinality(SpentClaims(s, k))
         \/ Cardinality(SpentClaims(s, k) \cup {c}) = Cardinality(SpentClaims(s, k)) + 1
  BY <1>2, FS_AddElement
<1>5. Cardinality(SpentClaims(s, k)') <= Cardinality(SpentClaims(s, k) \cup {c})
  BY <1>3, <1>4, FS_Subset
<1>6. SpentBudget(s, k)' <= SpentBudget(s, k) + 1
  BY <1>2, <1>4, <1>5
<1>7. ASSUME claims[c].stage # s PROVE SpentBudget(s, k)' <= SpentBudget(s, k)
  <2>1. SpentClaims(s, k)' \in SUBSET SpentClaims(s, k)
    BY <1>1, <1>7 DEF SpentClaims, ClaimsOf, SameLedger
  <2>2. QED
    BY <1>2, <2>1, FS_Subset
<1>8. QED
  BY <1>6, <1>7

LEMMA FailStageBudget ==
    ASSUME IInv, IInv', Budget, NEW w \in Workers,
           NEW cause \in {"saturated", "transient", "fatal"}, FailStage(w, cause)
    PROVE  Budget'
<1> DEFINE c == workers[w].claim
           me == [workers[w] EXCEPT !.pc = "failed", !.held = Snap(run'),
                                    !.claim = 0, !.cause = cause]
<1>1. /\ run' = Moved(run, "failed", workers[w].held.stage)
      /\ FinishClaim(c, "failed", cause) /\ Become(w, me)
      /\ UNCHANGED console /\ env'.ops = env.ops /\ env'.ops <= env.ops
  BY OpsSame DEF FailStage, IInv
<1>2. /\ workers[w].held.stage = run.stage /\ run.status = "running" /\ run.stage \in Stage
  <2>1. /\ workers[w].held.stage = run.stage /\ run.status = "running"
        /\ run.stage # 0 /\ run.stage \in MaybeStage
    BY WorkerHolds, RowStage DEF FailStage
  <2>2. QED
    BY <2>1 DEF Stage, MaybeStage
<1>3. /\ run'.rev > run.rev /\ run'.cycle = run.cycle
      /\ run'.status = "failed" /\ run'.stage = run.stage /\ run' \in RowType
  <2>1. run.stage \in MaybeStage /\ "failed" \in RunStatus
    BY <1>2 DEF Stage, MaybeStage, RunStatus
  <2>2. QED
    BY <1>1, <1>2, <2>1, MovedRow DEF IInv
<1>4. c \in 1..Len(claims)
  BY Typed, LedgerShape DEF IInv, ClaimIds, Worker, FailStage, At
<1>5. cause \in Cause /\ "failed" \in ClaimStatus
  BY DEF Cause, ClaimStatus
<1>6. /\ me \in Worker /\ me.pc = "failed" /\ me.held.stage = run'.stage /\ me.cause = cause
  BY <1>3, <1>5, Typed, SnapType, SnapFields DEF Worker
<1>7. Left(run.stage)
  BY <1>2 DEF Budget, RunGoesOn, EntryStage, Stage
<1>8. SameLedger /\ \A i \in 1..Len(claims) : i # c => claims'[i] = claims[i]
  BY <1>1, <1>4, <1>5, ClosesOne
<1>9. claims[c].stage = run.stage
  BY <1>2 DEF IInv, WorkerSound, WorkerFine, FailStage, At
<1> HIDE DEF me, c
<1>10. workers'[w] = me /\ \A v \in Workers : v # w => workers'[v] = workers[v]
  BY <1>1, <1>6, BecomeType DEF IInv
<1>11. CASE cause = "saturated"
  <2>1. BurnsNothing
    BY <1>1, <1>4, <1>5, <1>11, ClosesWithoutBurning DEF IInv
  <2>2. Left(run.stage)'
    <3>1. PICK s : s = run.stage
      OBVIOUS
    <3>2. Left(s)'
      BY <1>1, <1>3, <1>7, <2>1, <3>1, BurnsNothingFacts, StaysLeft DEF IInv
    <3>3. QED
      BY <1>3, <3>1, <3>2 DEF Left
  <2>3. WorkerThrifty(workers[w])'
    BY <1>3, <1>6, <1>10, <2>2 DEF WorkerThrifty, Left
  <2>4. QED
    BY <1>1, <1>2, <1>3, <1>10, <2>1, <2>3, PlaceBudget DEF IInv
<1>12. CASE cause # "saturated"
  <2>1. WorkerThrifty(workers[w])'
    BY <1>6, <1>10, <1>12 DEF WorkerThrifty
  <2>2. WorkersThrifty' /\ OperatorPaid'
    BY <1>1, <1>3, <1>10, <2>1, NobodyElseGoesOn DEF IInv, WorkersThrifty
  <2>3. RunGoesOn'
    BY <1>3 DEF RunGoesOn
  <2>4. NothingAhead'
    <3>1. /\ DOMAIN claims = 1..Len(claims) /\ DOMAIN claims' = 1..Len(claims)
      BY <1>8, LenProperties DEF SameLedger, IInv, TypeOK
    <3>2. Behind' = Behind /\ EntryStage(run'.stage) = EntryStage(run.stage)
      BY <1>2, <1>3 DEF Behind
    <3> SUFFICES ASSUME NEW i \in 1..Len(claims), claims[i].cycle = run.cycle
                 PROVE  claims[i].stage \in Behind \cup {EntryStage(run.stage)}
      BY <1>3, <1>8, <3>1, <3>2 DEF NothingAhead, SameLedger, EntryStage
    <3>3. QED
      BY <3>1 DEF Budget, NothingAhead
  <2>5. RetryBudget'
    <3> SUFFICES ASSUME NEW s \in Stage
                 PROVE  SpentBudget(s, run.cycle)' <= MaxAttempts + (MaxOps - env'.ops)
      BY DEF RetryBudget
    <3>1. PICK k : k = run.cycle
      OBVIOUS
    <3>2. /\ SpentBudget(s, k)' <= SpentBudget(s, k) + 1
          /\ s # run.stage => SpentBudget(s, k)' <= SpentBudget(s, k)
      BY <1>4, <1>8, <1>9, BurnsOne DEF IInv
    <3>3. /\ SpentBudget(s, k) <= MaxAttempts + (MaxOps - env.ops)
          /\ s = run.stage => SpentBudget(s, k) < MaxAttempts + (MaxOps - env.ops)
      BY <1>7, <3>1 DEF Budget, RetryBudget, Left
    <3>4. /\ SpentBudget(s, k) \in Nat /\ SpentBudget(s, k)' \in Nat
          /\ env.ops \in Nat /\ MaxAttempts \in Nat /\ MaxOps \in Nat
      BY ConfigAssumption, SpentFinite, SpentFiniteLater DEF IInv, TypeOK
    <3>5. SpentBudget(s, k)' <= MaxAttempts + (MaxOps - env'.ops)
      BY <1>1, <3>2, <3>3, <3>4
    <3>6. QED
      BY <1>3, <3>1, <3>5 DEF SpentBudget, ClaimsOf
  <2>6. QED
    BY <1>1, <2>2, <2>3, <2>4, <2>5 DEF Budget
<1>13. QED
  BY <1>11, <1>12

\* No attempt of the stage the commit moves on to has been made in this cycle.
LEMMA CommitStageBudget ==
    ASSUME IInv, IInv', Budget, NEW w \in Workers, CommitStage(w)
    PROVE  Budget'
<1> DEFINE s == workers[w].held.stage
           c == workers[w].claim
           lane == workers[w].lane
<1>1. /\ run' = AfterStage(s, lane) /\ FinishClaim(c, "completed", "none")
      /\ UNCHANGED <<console, env>> /\ env'.ops <= env.ops
  BY OpsSame DEF CommitStage, IInv
<1>2. /\ s = run.stage /\ s \in Stage /\ run.status = "running" /\ lane \in Lane
  <2>1. /\ s = run.stage /\ run.status = "running" /\ run.stage # 0
    BY WorkerHolds DEF CommitStage
  <2>2. run.stage \in MaybeStage /\ lane \in Lane
    BY Typed DEF IInv, RowType, Worker
  <2>3. QED
    BY <2>1, <2>2 DEF Stage, MaybeStage
<1>3. /\ run'.rev > run.rev /\ run'.cycle = run.cycle /\ Behind' = {t \in Stage : t <= s}
  BY <1>1, <1>2, AfterStageRow DEF IInv
<1>4. BurnsNothing
  <2>1. c \in 1..Len(claims)
    BY Typed, LedgerShape DEF IInv, ClaimIds, Worker, CommitStage, At
  <2>2. "completed" \in ClaimStatus /\ "none" \in Cause
    BY DEF ClaimStatus, Cause
  <2>3. QED
    BY <1>1, <2>1, <2>2, ClosesWithoutBurning DEF IInv
<1>5. Behind \cup {EntryStage(run.stage)} = {t \in Stage : t <= s}
  BY <1>2 DEF Behind, EntryStage, Stage
<1>6. NoNewFailure /\ NothingAhead'
  BY <1>3, <1>4, <1>5, BurnsNothingFacts, StaysBehind DEF IInv, Budget
<1>7. run'.status # "completed" => EntryStage(run'.stage) = s + 1
  <2>1. NextStage(s) # 0 => NextStage(s) = s + 1 /\ EntryStage(s + 1) = s + 1
    BY <1>2 DEF NextStage, EntryStage, Stage
  <2>2. CASE NextStage(s) = 0
    BY <1>1, <2>2 DEF AfterStage, Moved
  <2>3. CASE NextStage(s) # 0
    BY <1>1, <2>1, <2>3 DEF AfterStage, Moved
  <2>4. QED
    BY <2>2, <2>3
<1>8. run'.status # "completed" => Left(EntryStage(run'.stage))
  <2>1. SpentClaims(s + 1, run.cycle) = {}
    <3> SUFFICES ASSUME NEW i \in DOMAIN claims,
                        claims[i].stage = s + 1, claims[i].cycle = run.cycle
                 PROVE  FALSE
      BY DEF SpentClaims, ClaimsOf
    <3>1. claims[i].stage \in {t \in Stage : t <= s}
      BY <1>5 DEF Budget, NothingAhead
    <3>2. QED
      BY <1>2, <3>1 DEF Stage
  <2>2. SpentBudget(s + 1, run.cycle) = 0
    BY <2>1, SpentFinite, FS_EmptySet DEF IInv
  <2>3. /\ env.ops \in Nat /\ env.ops <= MaxOps
        /\ MaxOps \in Nat /\ MaxAttempts \in Nat \ {0}
    BY ConfigAssumption DEF IInv, TypeOK, Budget
  <2>4. QED
    BY <1>7, <2>2, <2>3 DEF Left
<1>9. PICK me \in Worker : Become(w, me) /\ me.pc \in {"idle", "loop"}
  <2> DEFINE on == [Idle EXCEPT !.pc = "loop", !.lane = lane]
  <2>1. on \in Worker /\ on.pc = "loop" /\ Idle.pc = "idle"
    BY <1>2, IdleType DEF Worker, Idle
  <2>2. Become(w, on) \/ Become(w, Idle)
    BY DEF CommitStage, ReturnRun
  <2> HIDE DEF on
  <2>3. QED
    BY <2>1, <2>2, IdleType
<1>10. workers'[w] = me /\ \A v \in Workers : v # w => workers'[v] = workers[v]
  BY <1>9, BecomeType DEF IInv
<1>11. WorkerThrifty(workers[w])'
  BY <1>9, <1>10 DEF WorkerThrifty
<1>12. QED
  BY <1>1, <1>3, <1>6, <1>8, <1>10, <1>11, SparingStep DEF IInv

\* A new cycle starts with a ledger of its own, which is empty.
LEMMA RestartRunBudget ==
    ASSUME IInv, IInv', Budget, NEW s \in MaybeStage, RestartRun(s)
    PROVE  Budget'
<1> DEFINE moved == Moved(run, "queued", s)
<1>1. /\ UNCHANGED <<claims, workers, console>> /\ run' = [moved EXCEPT !.cycle = @ + 1]
      /\ env'.ops = env.ops - 1 /\ env'.ops <= env.ops
  BY OpsSpent DEF RestartRun, IInv
<1>2. /\ run'.rev > run.rev /\ run'.cycle > run.cycle
  <2>1. run \in RowType /\ "queued" \in RunStatus
    BY Typed DEF IInv, RunStatus
  <2>2. /\ moved \in RowType /\ moved.rev = run.rev + 1 /\ moved.cycle = run.cycle
    BY <2>1, MovedType
  <2> HIDE DEF moved
  <2>3. QED
    BY <1>1, <2>1, <2>2 DEF RowType
<1>3. \A i \in DOMAIN claims : claims[i].cycle # run'.cycle
  <2> TAKE i \in DOMAIN claims
  <2>1. claims[i].cycle \in Nat /\ claims[i].cycle <= run.cycle
    BY LedgerShape DEF IInv, LedgerCycles, Claim
  <2>2. run.cycle \in Nat /\ run'.cycle \in Nat
    BY DEF IInv, TypeOK
  <2>3. QED
    BY <1>2, <2>1, <2>2
<1>4. NothingAhead'
  BY <1>1, <1>3 DEF NothingAhead
<1>5. /\ env.ops \in Nat /\ env'.ops \in Nat /\ MaxOps \in Nat /\ MaxAttempts \in Nat \ {0}
      /\ env.ops <= MaxOps
  BY ConfigAssumption DEF IInv, TypeOK, Budget
<1>6. env'.ops <= MaxOps /\ 0 < MaxAttempts + (MaxOps - env'.ops)
  BY <1>1, <1>5
<1>7. \A t : SpentBudget(t, run.cycle)' = 0
  <2> TAKE t
  <2>1. SpentClaims(t, run.cycle)' = {}
    BY <1>1, <1>3 DEF SpentClaims, ClaimsOf
  <2>2. Cardinality(SpentClaims(t, run.cycle)') = 0
    BY <2>1, FS_EmptySet
  <2>3. QED
    BY <2>2 DEF SpentBudget, SpentClaims
<1>8. RetryBudget' /\ RunGoesOn'
  BY <1>5, <1>6, <1>7 DEF RetryBudget, RunGoesOn, Left
<1>9. WorkersThrifty' /\ OperatorPaid'
  BY <1>1, <1>2, NobodyElseGoesOn DEF IInv, WorkersThrifty
<1>10. QED
  BY <1>4, <1>6, <1>8, <1>9 DEF Budget

LEMMA InitBudget == Init => Budget
<1> SUFFICES ASSUME Init PROVE Budget
  OBVIOUS
<1>1. /\ claims = << >> /\ DOMAIN claims = {} /\ env.ops = MaxOps /\ MaxOps \in Nat
      /\ MaxAttempts \in Nat \ {0}
  BY ConfigAssumption DEF Init
<1>2. \A s, k : SpentBudget(s, k) = 0
  <2> TAKE s, k
  <2>1. SpentClaims(s, k) = {}
    BY <1>1 DEF SpentClaims, ClaimsOf
  <2>2. Cardinality(SpentClaims(s, k)) = 0
    BY <2>1, FS_EmptySet
  <2>3. QED
    BY <2>2 DEF SpentBudget, SpentClaims
<1>3. RetryBudget /\ RunGoesOn
  BY <1>1, <1>2 DEF RetryBudget, RunGoesOn, Left
<1>4. NothingAhead
  BY <1>1 DEF NothingAhead
<1>5. WorkersThrifty /\ OperatorPaid
  BY DEF Init, WorkersThrifty, WorkerThrifty, OperatorPaid, Idle, NoRequest
<1>6. QED
  BY <1>1, <1>3, <1>4, <1>5 DEF Budget

LEMMA NextBudget == IInv /\ IInv' /\ Budget /\ [Next]_vars => Budget'
<1> SUFFICES ASSUME IInv, IInv', Budget, [Next]_vars PROVE Budget'
  OBVIOUS
<1>1. CASE UNCHANGED vars
  <2>1. UNCHANGED <<run, claims, workers, console, env>> /\ env'.ops <= env.ops
    BY <1>1, OpsSame DEF vars, IInv
  <2>2. QED
    BY <2>1, KeptLedger, StandingStep DEF IInv
<1>2. ASSUME NEW w \in Workers, Work(w) PROVE Budget'
  BY <1>2, QueueBudget, StartTaskBudget, EnterRunBudget, ReadRunBudget, ReturnBudget,
     ClaimStageBudget, CommitStageBudget, LoseCommitBudget, StopBudget,
     CountBudgetBudget, RequeueBudget DEF Work
<1>3. CASE Sweep
  BY <1>3, SweepReadBudget, SweepWriteBudget, SweepCloseBudget, QueueBudget DEF Sweep
<1>4. CASE Console
  BY <1>4, ConsoleReadBudget, ConsoleWriteBudget, RestartRunBudget, SwitchBudget DEF Console
<1>5. CASE Misfortune
  BY <1>5, ReturnBudget, QueueBudget, FailStageBudget, LeaseExpiresBudget DEF Misfortune
<1>6. QED
  BY <1>1, <1>2, <1>3, <1>4, <1>5 DEF Next

\* Whatever crashes, redeliveries, sweeps and restarts a run goes through, a
\* stage burns at most stage_max_attempts failures in a cycle, plus one for each
\* request of the operator.
THEOREM RetriesStayInBudget == Spec => []RetryBudget
<1>1. Init => Budget
  BY InitBudget
<1>2. IInv /\ IInv' /\ Budget /\ [Next]_vars => Budget'
  BY NextBudget
<1>3. Budget => RetryBudget
  BY DEF Budget
<1>4. QED
  BY <1>1, <1>2, <1>3, InductiveInvariant, PTL DEF Spec

-----------------------------------------------------------------------------
(* A run only moves on. *)

LEMMA MovesOnStep ==
    ASSUME IInv, Next
    PROVE  MovesOn
<1>1. /\ run \in RowType /\ run.rev \in Nat /\ run.cycle \in Nat /\ run.stage \in 0 .. NStages
      /\ NStages \in Nat
  BY RowStage, StagesAssumption DEF RowType, MaybeStage
<1>2. CASE Snap(run') = Snap(run)
  BY <1>2 DEF MovesOn
<1>3. CASE CasMove
  <2>1. PICK status \in RunStatus, stage \in MaybeStage :
            ValidMove(status, stage) /\ run' = Moved(run, status, stage)
    BY <1>3 DEF CasMove
  <2>2. /\ run'.status = status /\ run'.stage = stage
        /\ run'.cycle = run.cycle /\ run'.rev = run.rev + 1
    BY <2>1 DEF Moved
  <2>3. /\ run.status # "completed"
        /\ stage = run.stage + 1 \/ stage = run.stage \/ (run.stage = 0 /\ stage = 1)
           \/ (status = "completed" /\ stage = 0)
    BY <1>1, <2>1 DEF ValidMove, EntryStage
  <2>4. Position(run') >= Position(run)
    BY <1>1, <2>2, <2>3 DEF Position
  <2>5. QED
    BY <1>1, <2>2, <2>4 DEF MovesOn
<1>4. CASE DoubleMove
  <2>1. /\ run.status = "running" /\ run'.status = "queued" /\ run'.stage = run.stage
        /\ run'.cycle = run.cycle /\ run'.rev = run.rev + 1 + 1
    BY <1>4 DEF DoubleMove, Moved
  <2>2. Position(run') >= Position(run)
    BY <1>1, <2>1 DEF Position
  <2>3. QED
    BY <1>1, <2>1, <2>2 DEF MovesOn
<1>5. CASE RestartMove
  <2>1. /\ run.status \in Terminal /\ run'.cycle = run.cycle + 1 /\ run'.rev = run.rev + 1
    BY <1>5 DEF RestartMove, Moved
  <2>2. QED
    BY <1>1, <2>1 DEF MovesOn
<1>6. QED
  BY <1>2, <1>3, <1>4, <1>5, RunStep, Zenon

(* Whatever workers, sweeps and operators do to a run, in any order, each    *)
(* move takes a revision no snapshot holds, and no cycle goes back to a      *)
(* stage behind it.                                                          *)
THEOREM RunsMoveOn == Spec => RunMovesOn
<1>1. IInv /\ [Next]_vars => [MovesOn]_vars
  BY MovesOnStep
<1>2. QED
  BY <1>1, InductiveInvariant, PTL DEF Spec, RunMovesOn

=============================================================================
