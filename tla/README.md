# Verification of the Voxint pipeline

Voxint transcribes recordings, tells the speakers apart and lets an operator
review the result.  This directory holds TLA+ models of the parts of Voxint
whose correctness depends on the order of things: who may move a run, who owns
a stage, what a late worker may still commit, which message may be lost.  The
models are translated from the Python sources; they are model-checked with TLC
on small instances, and what matters most is proved with TLAPS for every value
of the constants.

Paths below are relative to the repository; `voxint/` abbreviates `src/voxint/`.

## 1. The system

| Component | Code | State | Operations | What makes it hard |
|---|---|---|---|---|
| Pipeline engine and lanes | `voxint/pipeline/engine.py`, `transitions.py`, `worker/tasks.py` | `pipeline_runs` (status, current_stage, revision, processing_cycle), `stage_runs` (the claim ledger), the stage outputs | submit, execute_run (enter, claim, commit, fail, stop), retry, recovery sweep, stale-claim passes | two deliveries of one run, leases that run out under a living worker, operator requests in between, lost or repeated messages, deaths |
| Run console | `voxint/ingest/service.py` | the same rows, `archived_at`, `queue_paused` | cancel, pause, resume, requeue, restart, archive | each reads, decides and writes in a transaction of its own |
| Notification outbox | `voxint/notify/` | `notification_deliveries` | enqueue with the transition, claim under a lease, deliver, finish, purge | delivery outside any transaction, lease takeover, news that went stale |
| GPU phase orchestrator | `voxint/gpu_phase/` | the singleton `gpu_phase` row, the host broker's lease | tick (read, call, decide, write), admit_lane, set_request, publication of a lane's queue | two GPU tenants that must never overlap; the host may answer late or never |
| Enrichment job lanes | `voxint/enrichment/*_jobs.py`, `plugins/synthdetect/jobs.py` | one job row per attempt, the published generation | create, claim, execute, cancel, force-cancel, publish, stale-QUEUED recovery | a cancelled job's late result, two jobs for one key, a job delivered twice or its worker dead |
| Media operations journal | `voxint/media/operations.py`, `executor.py`, `reconcile.py`, `purge.py` | `media_operations`, files on disk, the media row's pointer | plan, claim, copy, publish, switch pointer, unlink, reconcile | database and file system are not one transaction |
| Adjudication | `voxint/adjudication/`, `voxint/api/routers/adjudication_api.py` | the reviewer slot, the append-only ledger of rulings | claim, refresh, release, decide, relabel, enroll, name, undo | two reviewers, requests sent twice, stamps taken before the lock, undo of what was built upon, a restart in between |
| Speaker roster | `voxint/speakers/` | identities, embeddings, proposals | enroll, archive, restore, rename, merge, reconcile, auto-enrol | a speaker that is archived while a ruling names it |
| Taking recordings in | `voxint/ingest/service.py`, `watch.py`, `sidecar.py`, `pipeline/stages/acquire.py` | `media_items` rows, the files under `incoming/`, source metadata | sweep, confirmed scan, submit, upload, paste a URL, ACQUIRE, clean-up at the start of the API | one path inserted by two transactions, files still being written, downloads that outlive their lease, files and rows that are not one transaction |
| Activity feed | `voxint/activity/` | the event table | emit, read by cursor | ids are assigned before commit |
| Other stage bodies, model clients, model services, export, domain packs, API, front end, harness, installer | see `PROJECT.json` | none that outlives a call, or rows owned by one of the above | | numerical, textual or pure I/O |

How they interact.  The Celery tasks call `execute_run` with the lane they
consume; the engine reads and writes the run only through `cas_update_run`, the
claims through `_claim_stage` and `_finish_claim`; between two transactions it
holds nothing but a snapshot.  Beat calls the recovery sweep once a minute; the
console calls the service functions; neither knows of the workers but through
the rows.  A commit of a run's last stage, and a failure, put a row into the
notification outbox in the same transaction; the lane task then creates the
enrichment jobs.  The GPU phase decides whether a lane task may start at all.

`PROJECT.json` lists every component, and every hazard found, at its line.

What makes each component correct, in a sentence:

- engine, lanes, console: a stage of a cycle completes once and by the worker
  that owns it, nothing is skipped, a stopped run gains nothing, and a run does
  not stay QUEUED or RUNNING for ever;
- outbox: an arrival is closed for a reason, by one sweep, and every arrival is
  closed in the end;
- GPU phase: one tenant at a time, nobody loses the GPU with work in progress,
  and a borrowed GPU comes back;
- job lanes: one live job per key, and a cancelled job publishes nothing;
- media operations: the media row never points at a file that is not there;
- adjudication: a ruling is written under the token that is the run's, names a
  speaker who is on the roster, is made once and undone once, and an undo restores
  what was decided before and nothing else;
- taking recordings in: a path comes in once, whoever asks for it at the same
  time; its row never describes other bytes than the file's; what lies complete in
  a watched folder comes in.

## 2. The modules

| Module | What it is |
|---|---|
| `RunTransitions` | the constants of a pipeline and `validate_transition`: the vocabulary of the next three |
| `RunLifecycle` | abstract: the run's row goes through the allowed transitions, one processing cycle at a time |
| `PipelineRun` | detailed: one run, its claims and outputs, the Celery workers of both lanes, the recovery sweep, the operator, the two queues |
| `PipelineRunInv`, `PipelineRunProofs` | its inductive invariants and the proofs |
| `NewsBoard` | abstract: an arrival is open until it is told, withdrawn as old news, or given up on |
| `NotifyOutbox` | detailed: the outbox rows of one run and the sweeps that deliver them |
| `NotifyOutboxInv`, `NotifyOutboxProofs` | its inductive invariants and the proofs |
| `GpuPhase` | the phase row, its tick, the two lanes, the model services and the host's broker |
| `GpuPhaseProofs` | its inductive invariant and the proofs |
| `JobBoard`, `JobBoardProofs` | abstract: one open job per slot, one generation per kept job, in the order of their sources; what that promise gives |
| `JobLane`, `JobLaneProofs` | detailed: one slot of any of the six enrichment lanes; invariant and proofs |
| `MediaCopies` | abstract: copies come from copies, the pointer moves onto a copy, its copy is never dropped |
| `MediaJournal`, `MediaExecutor`, `MediaReconciler` | detailed: the rows and leases of the journal; requests and the executor's steps; the reconciler, deaths and whatever else goes wrong |
| `MediaInv`, `MediaProofs` | their four inductive invariants and the proofs |
| `Review`, `ReviewInv`, `ReviewProofs` | the reviewer slot, the ledger of rulings and the roster they name; invariant and proofs |
| `ReviewQueue` | who reads the ledger: the resolver and its SQL mirrors |
| `MediaLedger` | abstract: a path is entered once, its digest and metadata are written once and agree |
| `IntakeRows`, `FolderIntake`, `FormIntake`, `Intake` | detailed: the rows new recordings come in through; folders; upload and URL forms; the three together, with the properties |
| `IntakeInv`, `IntakeProofs` | their inductive invariant and the proofs |
| `MCPipelineRun`, `MCNotifyOutbox`, `MCGpuPhase`, `MCJobLane`, `MCMediaReconciler`, `MCReview`, `MCIntake` | instances for TLC |

Each detailed module holds its definitions, then its properties, then its
fairness.  Definitions marked "Faulty variant of ..." are plausible bugs of
the code; they are used nowhere, and each shows what a property would catch if
it took the place of the definition after it.

### PipelineRun

State.  `run` is the `pipeline_runs` row (`rev` is `revision`, `cycle` is
`processing_cycle`, stage 0 is NULL); `claims` are the `stage_runs` rows in
insertion order; `outs[s]` names the claim whose outputs of stage `s` are in
the tables; `first` is a history variable, the stage the current cycle started
at.  `workers[w]` is where a worker stands in `execute_run`, the snapshot it
holds and its claim; `sweep` and `console` are the recovery transaction and the
operator's request between their read and their write; `msgs` counts the
messages of each queue.

Actions are transactions, with the local steps around them: `StartTask`,
`EnterRun`, `ReadRun`/`LeaveRun`, `ClaimStage`/`RefuseClaim`, `CommitStage`,
`FailStage`, `LoseCommit`, `StopIfCancelled`, `StopIfPaused` are the loop of `execute_run` (the stage
body runs between the claim and the commit, so anything may happen in between);
`CountBudget` and `RequeueFailedStage` are the lane task's bounded retry;
`SweepRead`, `SweepWrite`, `SweepClose`, `SweepPublish` are the passes of
`recover_interrupted_runs` and its task; `ConsoleRead`/`ConsoleWrite`,
`RestartRun`, `UnarchiveRun` and `ToggleQueue` are the console; `Crash`,
`LeaseExpires`, `LoseMessage` and `Redeliver` are what befalls them.  A CAS is modelled with its WHERE clause: `Current(held)`
is `revision = held.revision`, and a lost CAS is a disjunct of its own.

### NotifyOutbox

State.  `outbox[r]` is the row for the arrival at revision `r` (a row is unique
in it); `sweeps[s]` is what `deliver_due` holds between its transactions: the
batch it claimed, the row in hand, the outcome not yet recorded; `told` and
`refused` are history: the arrivals the receiver acknowledged, and the POSTs
that went wrong.  Clock columns are flags (`ripe`), lease values are numbers.
The sweep looks at nothing of the run but its revision, so the run is its
revision.  `MoveRun` and `RecoverRun` are the transitions that write rows in
their own transaction; `ClaimDue`, `TakeRow`, `Post`, `Record`, `EndSweep` the
sweep; `Crash` and `RowRaises` its failures; `Ripen` the clock.

### GpuPhase

State.  `row` is the singleton `gpu_phase` row; `tick` is what a tick read
before its calls (request, lane demand, busy lanes); `runs[r]` is where a
recording is (a language-model job counts as a run in the post lane); `running` the services that are up; `broker` the host's side;
`askedIn` is history, the phase a pending request was made in.

A tick is two actions, because its transaction reads without locks and calls
Docker and the broker before it writes: `ReadRow`, then `TakeStep`, one operator
per phase (`InLlm` ... `InError`), each of which is the calls `_observe` makes in
that phase and what `decide` makes of the answers.  Admissions (`Admit`) and
requests (`Ask`) fall between the two.  The calls of one tick and its write are
one action: they are made by the only process that calls Docker or the broker,
and the broker moves by itself before or after.  `Commit` has two outcomes, the
write and a worker that died before it: the calls then have had their effect
and the row knows nothing of it.

The broker is not in the repository; it is modelled from what `client.py`
accepts and from `docs/gpu-sharing.md`.  An answer is any the client tells apart
(held, pending, busy, lost, failed, released, free), also a failure after the
broker acted, and a grant that comes after Voxint stopped asking.  Two lease ids
are enough, as a fresh id need only differ from the one Voxint knows.  A lease
that expires with services loaded leaves the language model stopped (`orphan`),
as the document asks of a broker.  Docker starting a container behind the phase
task's back is `ServiceBoots`.  A service that is running may be reported as unknown or
restarting when its inspection fails, so what `InLlm` sees up is a part of `running`.

### JobLane

The six lanes (assets, clean-up, translation, research, embedding, synthetic
speech) are the same machine with five differences, each an operator on the lane's
name: whether a cancel is a request or ends a RUNNING job at once (`Cooperative`,
`Forceful`), whether the flag is polled during the work (`Polling`), whether the
source is read again before recording (`Rechecking`) and when it is hashed
(`LateStamp`).  The initial state chooses the lane.

State.  `jobs[j]` are the rows of one slot (a run and kind, a run and language, a
speaker), `results` the generations, `source` the revision of what the lane reads,
`mail` the messages, `workers[w].at` the place in `execute_job`.  `Create`,
`RequestCancel`, `Sweep` are the console and the beat; `Deliver`, `Claim`,
`CheckGates`, `Load`, `Work`, `LastLook`, `Recheck`, `Record`, `Finish` are the
executor, one transaction or one read each; `Die`, `Redeliver`, `CloseDoor`, `Edit`,
`BoundPasses` are what happens around it.

### MediaJournal, MediaExecutor, MediaReconciler

State.  `media` is the recording's row (pointer, trashed, purged), `ops[o]` the
journal (state, lease owner, whether the lease is live, who holds the row lock),
`files` the content of each path, `manifest` a purge's children, `actors[a]` a
request, executor or reconciler pass at its place in the code.  A file operation
and a database commit are separate actions, in the code's order: `Publish`,
`CopyBegins`, `CopyEnds`, `LinkTemp`, `UnlinkTemp`, `Apply`, `PointAndApply`,
`CheckLease`, `UnlinkOrigin`, `SweepTemp`, `Finish`; `BuildManifest`,
`AttemptChild` (the lease), `EraseChild` (the unlink), `RecordChild`, `Converge`,
`ApplyPurge`.  A restore reads the recording when it is asked for (`AskRestore`) and
the trash it undoes in a second look (`ChooseTrash`).  `Inspect` and the
`Verdict...` operators are the reconciler's look and its decision table (ADR 0007);
what follows a verdict re-checks only what the code re-checks: R11 that its link
succeeded (`RelinkFails`), the removal of a temporary file the lease (`SparesTemp`).
An actor may die between any two steps.

`runs` are the recording's active pipeline runs, by how they became active.  A submit
asks under the media row's lock (`Admit`).  A requeue, a restart and the automatic
retry do not: `requeue_failed_run`, `restart_run` and `requeue_failed_stage` queue a
run that had ended by a compare-and-set on its own row, and `has_active_run` counts an
ended run as inactive, so an operation may have been planned meanwhile
(`RunReopens`, a trouble of the kind `requeue`).  `ItemTakenOnce` therefore speaks of
admitted runs only, and every other property holds with a reopened run beside the
operation.  `PREPARE` looks for that state and fails the run (`RunEnds`; section 6).

`PointerNamesRecording`
is a property of a run that violates it (section 6, finding 3); `InPlace` names the one
thing that must have happened, and `MediaCopies` is implemented up to it (`Freed`).

### Review

State.  `run[r]` has the status, the generation of its segments and the claim;
`ledger` the committed rows; `voices` the enrolled embeddings; `slot[q]` one request
in flight with its transaction.  A row is stamped with the start of its transaction
(`created_at` defaults to `now()`), so `Begin` takes the stamp, and one of the
`Admit...` actions takes the run's lock, checks what was posted, and decides what to
write; `Commit` writes it.  Claims, refreshes and releases are optimistic: `Read...`
then `WriteClaim`, which fails when the revision moved.  `AdmitRestart` is the
restart of a run that has rulings; `Curate` archives and restores speakers.

`ReviewQueue` adds no step.  It reads the same ledger twice: as `label_states` does,
leaving out every `REVOKE` and what it voids, and as the SQL predicates do that filter
and count in the database.

### Intake

State.  `rows[p]` is the committed `media_items` row of a path with its runs; for
the one form of the model, `disk` is the content at its path (0: no file), `beside`
the contents whose metadata sidecar lies beside it, `fetch` the claim of ACQUIRE;
`files[p]` is a recording in a folder with its YAML sidecar and its folder's domain
pack; `work[c]` is a request, command, sweep or attempt.  The initial state chooses
one of three ways in, which share the rows and nothing else.

`source_path` is UNIQUE, so an insert of a path another transaction has inserted
and not committed waits (`Waits`), and two batches can wait for one another
(`DeadlockVictim`: the database aborts one).  In `FolderIntake`: `SweepScan`,
`ConfirmScan`, `SubmitPath`, then `TakeNext`, `InsertRow`, `EndOfBatch`, `Commit`.
In `FormIntake`: `Post`, `ClaimForm`, `ReplaceFile`; `Attempt`, `Download`,
`PublishInfo`, `LinkFile`, `Describe`, `Save`, which commits only if the claim is
still the attempt's; `ApiStarts` is `reconcile_orphaned_incoming`.  A scan lists in
no particular order, and a sidecar or a pack is good or not, not parsed.  The
attempts' temporary files are the flag `swept`: the clean-up took them.  The
refusal of a trashed item is in `MediaExecutor` (`Admit`), the publication of the
runs in `PipelineRun`.

### What the abstractions leave out

- Time is a flag per deadline: a deadline may pass at any moment or never, so a
  property holds for every value of the settings.
- In `PipelineRun` the GPU is not shared (`GPU_PHASE_ENABLED` off, the default);
  `GpuPhase` has the admission gate and not the run's claims.
- A stage body is what it leaves and whether it raises, with the causes the retry
  logic tells apart (saturated, transient, fatal, interrupted).
- Messages of one run are interchangeable; the queue of each lane is bounded by
  `MaxMsgs`, and publishing to a full one does nothing: another copy of a message that is already
  waiting can only be delivered as a duplicate, which `MaxBroker` allows.

## 3. The checks

Each run lists the properties of its `.cfg`; `PROJECT.json` gives, for each, one
change of the code that violates it.

| Run | Instance | Shows |
|---|---|---|
| `RunRaces` | 3 stages, 2 workers; any two of 2 operator requests, a lease that runs out under a living worker, a message lost or duplicated (`TwoTroubles`) | a CAS on `revision` alone stands for status, stage and cycle (`SnapshotSound`); every stage behind the run left its outputs in this cycle (`NoSkippedStage`); no two live leases on a stage (`ExclusiveLease`); a stage completes once in a cycle (`CompletesOnce`); a commit that can win finds its claim RUNNING (`CommitFindsClaimOpen`); a run that is not RUNNING gains no outputs (`HaltedRunGainsNothing`); `RunLifecycle` is implemented |
| `RunSettles` | fair, 2 stages, 1 worker that may die, 2 failures, 1 lost or duplicated message, 1 request | a run leaves QUEUED and RUNNING (`EventuallySettles`); the claim of a dead worker on a stopped run is closed (`StoppedClaimsClose`); how many failures a stage may burn (`RetryBudget`) |
| `OutboxSweeps` | fair, 2 sweeps, 2 arrivals, 1 death or slow sweep or raising row | one sweep may record an arrival's outcome (`OneOwner`), retries end (`RetriesBounded`), every arrival is settled (`EveryArrivalSettles`), `NewsBoard` is implemented |
| `Phase` | fair, 1 recording, 1 service, 2 requests, one each of death, failure, expiry and reboot | one tenant until a service starts by itself (`OneTenant`), no language-model work while borrowed (`BorrowedWhenIdle`), audio cut only for cause (`CutOnlyForCause`), a request for audio made during the hand-back survives it (`AudioRequestKept`); a hold comes back, also one nobody knows the id of (`HoldReturned`); two tenants do not stay (`TenantsSeparate`); recordings get their window (`RecordingsServed`) |
| `JobLane` | fair, a lane of each of four kinds, 2 jobs, 2 workers, 1 edit, 1 death, loss, redelivery or closed door | two workers never execute one job (`OneExecutor`), a job asked to stop has no generation (`CancelWins`), `JobBoard` is implemented, every job ends (`EveryJobEnds`) |
| `MediaJournal` | fair, 2 overlapping actors, 2 requests, 2 troubles (a death, a filesystem error, an executor that outlives its lease, an ended run queued again, a file added or deleted by somebody else) | one operation at a time and none beside an admitted run (`ItemTakenOnce`); the trash flag says where the file is (`FlagFollowsPointer`); a purge leaves nothing (`PurgedLeavesNothing`); who lost an operation writes nothing more of it (`StaleActorWritesNothing`); the pointer's copy is never lost (`MediaCopies`); every operation ends (`EveryOperationEnds`) |
| `Review` | 1 run, 2 reviewers, 2 requests in flight, 3 that rule or undo, 2 claims, 2 of an expiry, release, restart, refusal, roster change | `TokenStaysGood`, `NamedSpeakerActive`, `RuledAndUndoneOnce`, `NoRemnants`, `UndoRestores` |
| `Intake` | fair, 2 paths, 2 contents, 2 clients, batches of 1; folders with 2 requests and 1 change of the folders, uploads with 3 posts and 2 troubles, URLs with 2 posts and 3 troubles | a recorded digest is the file's (`RowDescribesBytes`), `MediaLedger` is implemented, what can come in does and a URL's run gets an answer (`ArrivalsComeIn`) |
| `RunRestartGap`, `MediaInPlace`, `IntakeKnown`, `ReviewQueue` | one property each | violated: see section 6 |

Bounds and why they are enough.  The environment's misbehaviour is counted
(`MaxCrashes`, `MaxFaults`, `MaxSlow`, `MaxBroker`, `MaxExpiries`, `MaxBoots`, or one
`MaxTrouble` that they share, in the journal also with the requeues of ended runs; `MaxOps` and `MaxRequests` for requests); everything
the program does by itself is unbounded but for attempts, which are data.  The
races are between two actors over one row: two workers, sweeps, actors or requests
give every pair, and the row, being CAS-ed or locked, cannot tell a third.  Three
stages with the handoff after the second have a stage before, at and after it.  A
shared budget of two lets any two troubles meet, which is what each of the
documented races needs.  Two arrivals let news go stale while the first is
delivered.  One service and one recording show the whole hand-over; the proofs are for
any number of both, and so for starts and stops that succeed half way.  Two jobs are
one that is cancelled late and the one that took its place; a lane of each of four
kinds has each difference once.  Two requests of the journal are an operation and
what is planned on its heels; the run for finding 3 has a third, the second restore,
and three troubles, and one actor, which is enough for it.  Three stamps
are two rulings and an undo, or a ruling, its undo and the undo of that.  Two paths
and a batch limit of one are a batch that is cut off; two contents tell a
re-download that differs; recordings that are all still being copied, all beside a bad
sidecar or all under a broken pack at first become anything else by settling or by the
one change.  The fair runs are smaller because the product with the
fairness conditions is larger; symmetry is used only where no fairness is.  The
safety properties that are proved (section 5) need no bound, and type correctness
is a theorem rather than a property of a run where it is proved.

Deadlock is checked in the `Phase`, `JobLane`, `Media` and `Intake` runs: the phase
task always has a step, and in the others the action `Rest` says where the system
may stop (nobody in the middle of anything).  In the remaining runs it is not: a
completed run with no message left, an outbox with every row settled, a reviewed
run are where the system stops, and in `Review` the bound on stamps.

What some liveness properties say.  `EventuallySettles` excuses a queue that stays
paused for good, which holds work by design.  `RecordingsServed` says that the
window opens, not that a certain recording gets in before it closes.
`EveryOperationEnds` excuses operations whose files somebody took away.
`ArrivalsComeIn` is about a recording that stays settled, with a sidecar that stays
fit; it is entered, which by finding 1 does not give it a run.

## 4. Fairness

Weak fairness only, and only on what the deployment drives: Celery beat fires
the recovery sweep, the notification sweep and the phase tick periodically
(`voxint/worker/app.py`); a worker that has a message works on it or dies,
and deaths are bounded; clocks run, so a lease that nobody renews and a backoff
pass; an HTTP request to the console ends; a Docker or broker call ends, having
a timeout; and the broker finishes a stop or a restore that it began.
Nothing says that an operator acts, that a stage body succeeds, that a message
is not lost, or that a lease of a *living* worker runs out (`MaxSlow`); the
windows of `acquiring`, `starting_services` and `releasing` pass only as faults,
because hosts that are slower than 10 or 15 minutes every time serve nobody.
In `JobLane` workers consume and go on, the beat sweeps stale QUEUED rows
(`redispatch_stale_lane_jobs`), gates and phases open again, and an operator cancels
a job that runs past its bound with nobody on it: the lanes have no recovery of
RUNNING rows but that one, and without it the slot stays taken, as the lanes'
docstrings say.  In the media journal an actor goes on or dies, the reconciler's
beat claims what it may, the lease of a dead actor runs out (that of a busy one is
a trouble, `slow`), and retries fall due.  In `Intake` beat runs the sweep again and
again, a client that began goes on or dies, a queued ACQUIRE is delivered and the
recovery sweep takes the claim of a dead attempt.  `Review` has safety only: nothing
there must happen.

`TakeStep` is fair as a whole, never per answer; an answer other than the good one
costs one of `MaxFaults`, so that what is assumed of the host is that it fails finitely often.

## 5. The proofs

Checked by `tlapm` from the modules' assumptions on their constants alone: the
number of stages, workers, sweeps, recordings, services, jobs, runs, requests and of
every kind of failure is arbitrary.

| Theorem | Says |
|---|---|
| `InductiveInvariant`, `TypeCorrect` | `IInv` of `PipelineRunInv` is invariant; hence `TypeOK` |
| `SnapshotsAreSound`, `LeasesAreExclusive`, `CommitsFindTheirClaimOpen`, `StagesCompleteOnce`, `NoStageIsSkipped`, `HaltedRunsGainNothing` | the run's safety properties |
| `RetriesStayInBudget` | `RetryBudget`: a stage burns no more failures than its budget and the operator's requests |
| `RunImplementsLifecycle` | `PipelineRun` implements `RunLifecycle` |
| `RunsMoveOn` | `RunMovesOn`: no actor, however stale, takes a run back to where it has been; only the operator's restart does, and it opens a new cycle |
| `OutboxInvariant`, `OutboxTypeCorrect`, `OneSweepOwnsARow`, `OutboxImplementsBoard` | the outbox's, and that it implements `NewsBoard` |
| `EveryFateIsEarned`, `FatesStayFinal` | what the board's readers rely on: a fate that the board shows was earned by what happened to the arrival, and a closed arrival never opens again |
| `RetriesAreBounded` | `RetriesBounded`: what goes wrong with an arrival is paid for by its attempts and by what befell the sweeps |
| `PhaseInvariant`, `PhaseTypeCorrect`, `LlmBorrowedWhenIdle`, `AudioCutOnlyForCause`, `AudioRequestsStay` | the phase's |
| `TenantsApart` | `OneTenant`: until a container starts by itself, which makes it a second tenant whatever the phase task does until it is stopped (`TenantsSeparate`) |
| `TypeCorrect`, `NoDoubleExecution`, `CancelAlwaysWins`, `TerminalRowsAreFinal`, `LaneImplementsBoard` (`JobLaneProofs`) | the job lanes', and that they implement `JobBoard` |
| `MediaInvariant`, `MediaTypeCorrect`, `ItemIsTakenOnce`, `StaleActorIsSilent` | `Base` of `MediaInv` is invariant; hence `TypeOK`, `ItemTakenOnce`, `StaleActorWritesNothing` |
| `CopiesInvariant`, `PointerNamesACopy`, `JournalImplementsCopies` | if no lease runs out between its last check and the unlink it guards (`Prompt`): until a restore in place the pointer names a copy, and the journal implements `MediaCopies` |
| `FlagInvariant`, `FlagIsWhereThePointerIs` | with the same hypothesis, `FlagFollowsPointer` |
| `PurgeInvariant`, `PurgeLeavesNothing` | `PurgedLeavesNothing` |
| `PublicationClobbersNothing` | `NothingClobbered`: with no hypothesis, a recording or somebody else's file is never written over |
| `BoardPromise` | what any implementation of `JobBoard` gives: one generation per kept job, none for another, sources in order |
| `LaneKeepsItsPromise` | the same of the job lanes: at most one result per kept job, and results in the order of their sources |
| `IntakeInvariant`, `IntakeTypeCorrect`, `RecordedDigestsHold`, `IntakeImplementsLedger` | of taking recordings in, and that the rows implement `MediaLedger` |
| `OneRunUnasked`, `RecordsAreNotRewritten` | what the ledger is kept for: a path gets at most one run that nobody asked for, what is known of it is consistent, and no digest, metadata or run is ever rewritten |
| `ReviewInvariant`, `ReviewTypeCorrect`, `TokensStayGood`, `NamedSpeakersActive`, `RuledOnce`, `NothingIsLeftBehind`, `UndosRestore` | the review's |

The argument for the run.  No property is inductive by itself, because each
actor writes on what it read in an earlier transaction.  `IInv` says what each
program point still knows: a held snapshot is at most as new as the row and, if
it is at the row's revision, *is* the row (`HeldSound`); a worker in a body holds
a claim of the stage and cycle of its snapshot (`WorkerFine`); claim ids are not
shared (`ClaimIds`); among claims of one stage and cycle attempts grow and only
the newest can be live (`LedgerOrder`).  `SweepSound` is what makes
`CommitFindsClaimOpen` true though the sweep overwrites a claim by primary key:
the claim it is about to close is one whose worker holds a snapshot no newer
than the sweep's, so that worker's commit wins only if the sweep's CAS does not
come first.

The argument for `RetryBudget` is a second invariant, `Budget`, on top of `IInv`.  The
ledger of failures only grows, so the property needs that whoever makes a FAILED run go
on has a failure in hand: `RunGoesOn` says that a run that is not stopped has one left on
the stage it is at; `WorkersThrifty` and `OperatorPaid` that a worker about to requeue
counted the ledger at the row's revision, or failed it for a cause that burns nothing,
and that an operator's request has bought one more before it commits.

The argument for the outbox.  A claim in a sweep's hands was copied from its row
under a lease number that only grows (`ClaimFine`); two sweeps never hold the
same number (`LeasesDiffer`), which gives `OneOwner`; a verdict not yet recorded
is justified by what has happened (`VerdictFine`), which gives the refinement
step of `Record`.  `RetriesBounded` is an account (`Accounted`): a POST that goes wrong
is owed by a claim that has not been posted yet, and paid by the attempt the row
records, by the row's present owner while its lease is safe, or by one of the troubles
(a death, a row that raises, a sweep that is overtaken) that let two sweeps hold the
same row.  The claims owed are counted by their lease numbers, which `LeasesDiffer`
keeps apart.

The argument for the phase.  `GInv` adds `CountsFresh` to `BorrowedWhenIdle`: the
count a drain waits for was read outside any lock, but in a draining phase the
lane is closed, so the count can only have fallen; and only a tick moves the
phase, of which there is one.  `OneTenant` needs that services start only after
a renewal answered "held" in the same tick (`MayStart`), and are stopped before a
release is sent.  `AudioRequestKept` needs no invariant but the types: in the phases
of the hand-back a tick consumes a request only if it is the release that it read.

The argument for the job lanes.  A worker past its claim is on a RUNNING row, or on
one that was force-cancelled under it (`HeldInv`); at most one row of a slot is open
(`SlotInv`); a generation is written in the transaction that writes SUCCEEDED, which
checks the row (`CancelWins`).  `SourceInv` says that a worker that has loaded the
source holds a revision no older than any published one, because the slot was empty
when its job was created; that gives the order of sources in `JobBoard`, and is
where a late result of a force-cancelled job would show.

The argument for the review.  `IInv` is about the requests that hold a run's lock
(`HoldersFine`): what such a request has decided to write stays right until it
commits.  `HoldStep` shows that a request that takes the lock decides rightly;
`CommitSparesHolders` that the commit of another, for another run, disturbs none of
it; `LedgerGrows` that adding rows changes what is shown of no other run.  Stamps are
unique though they are not in the order of commits (`StampsTaken`), which is what
`UndoRestores` needs to tell what came before.

The argument for the media journal has four invariants, because what it promises
rests on different things.

`Base` has no hypothesis.  A row lock is its owner's, in the owner's own transaction on
that operation (`LockFine`); who still owns the operation in hand has not seen it end
(`OwnersBusy`); a path a row or the pointer names is home or in the trash (`Placed`).
From the row lock and the compare-and-set on owner and state follow `ItemTakenOnce` and
that a stale actor writes nothing.  Runs that are queued again are in the model with no
guard but their own row, so none of the theorems takes a recording with an operation in
flight to have no run.

`CopiesInv` says what an actor knows of the files at each of its points: who is about to
move the pointer has a complete copy at the destination, or beside it with a name that
only its link removes (`PublishFine`); who is about to unlink has the lease and the
pointer elsewhere (`CleanFine`); what a pass read under the row lock is still true of
the pointer and of any copy (`DecideFine`); once `fs_applied` is committed and until the
pointer moves, the copy is there (`AppliedFine`).  `Prompt` is needed, and is a constant
of the model: the code checks its lease before an unlink and not with it, so a lease that
runs out in between lets a second actor at the same files.  `Freed` lists what voids the
promise, a purge and a foreign hand by design, and a restore in place by finding 3.

`FlagInv` says that the flag can disagree with the pointer only while an operation is
past its pointer write (`Applied`), and then the pointer is at that operation's
destination, so that its completion sets the flag right; a purge past its own has
emptied the row.  It is what the reconciler's two commits (pointer, then `trashed_at`)
cost, and it fails after a filesystem error behind the pointer, which the property
excuses.

`EraseInv` needs no `Prompt`, and holds while no lease runs out under a living actor.
Then every operation in hand is its holder's and in flight (`HandsOn`), so no two actors
work on one; a purge passes its manifest only when every child is dealt with
(`EraseRow`); and a file that a manifest calls gone stays gone: the only steps that
make a file are those of a move in flight, which makes it at its own trash path or at
home, while the trash path that the purge erased is that of an operation that is over.

The argument for taking recordings in.  `IInv` of `IntakeInv` has four parts.
`PlaceInv`: where a client is says what its transaction holds, and a submission by
path holds at most its one path.  `InsertInv`: an uncommitted insert is of a path that
is not known and belongs to one transaction, which is what a UNIQUE index and waiting
give; it makes a commit a step of `Enter` or `RunAgain`.  `RowsInv`: metadata that is
recorded is of the recorded digest.  `BytesInv` adds to `RowDescribesBytes` what is
about to be recorded: the bytes of an upload that will commit are in place, because
its claim still holds the row; the digest of an attempt that describes or saves is the
file's, because `os.link` never replaces one; and one attempt at a time is between its
update of the row and its commit.

The refinement mappings are functions of the detailed state: `RunLifecycle` sees
`run`'s status, stage and cycle, `NewsBoard` each row's status with pending and in
flight both open, `JobBoard` each job's status and the generations, `MediaCopies` the
pointer and the paths that hold the recording, `MediaLedger` the rows themselves.  In a
refinement that is proved, one step per action shows that it is a step of the abstract
module or a stutter.

What the abstract modules are for is then proved of them and carried down.  A reader of
the board, of the ledger or of the lane's results does not care for leases, locks and
claims; `FatesEarned` and `FatesAreFinal` (`NewsBoard`), `EntriesHonest` and
`NothingRewritten` (`MediaLedger`), `OneResultPerKept` and `SourcesInOrder` (`JobBoard`)
and `RunMovesOn` are stated of what such a reader sees and proved of every step of the
abstract module, and each step of the code's module is one of those (`FatesStep`,
`StandStep`, `PromiseStep`, `LifeStep`).  `RunMovesOn` is the one that is not an
invariant of the abstract state: it orders the positions (cycle, stage, finished) a run
goes through, and a stale compare-and-set would show as a step backwards.

`NothingClobbered` needs no invariant but the types: what guards it is not what an actor
has read but how it writes (`WorkClobbersNothing`), a link or an exclusive create that
finds the name free, or a write to a file still partial.

Every safety property that a passing run checks is stated by a theorem.  `RunMovesOn`,
`NothingClobbered` and the properties of `NewsBoard` and `MediaLedger` named above are
proved and in no run: TLC agreed with them on the instances of section 3 before they
were proved.  Only model-checked: the liveness properties (`EventuallySettles`, `StoppedClaimsClose`,
`EveryArrivalSettles`, `HoldReturned`, `TenantsSeparate`, `RecordingsServed`,
`EveryJobEnds`, `EveryOperationEnds`, `ArrivalsComeIn`), because liveness under fairness
is beyond the prover.

## 6. Where the code and its documents disagree

With a run that shows it:

1. `IntakeKnown`.  `submit_media_item_if_new` flushes the row in a savepoint and
   freezes the run's config after it; when that raises `DomainPackError` the watch
   sweep logs, goes on and commits the batch.  The recording then has a row and no run,
   and since every scan passes over what has a row, repairing the pack does not bring
   it in: the operator has to submit it by path (`voxint/ingest/service.py:819`,
   `watch.py:200`).
2. `RunRestartGap`.  The restart prerequisites count COMPLETED claims of any cycle: a
   restart that deletes the outputs, cancelled, then a restart from the last stage
   completes without them (`voxint/ingest/service.py:1482`).
3. `MediaInPlace`.  ADR 0007:45 says that the system's own operations never leave the
   origin absent and the destination unverified.  When a restore is finished by
   `_pointer_then_complete` (`voxint/media/reconcile.py:243`) and its cleanup raises after
   the unlink, the operation ends in `digest_mismatch` (`reconcile.py:447`) with the
   pointer home and `trashed_at` set.  `plan_restore` (`executor.py:281`) compares no
   paths and plans a second restore from home to home; if its executor dies before it
   publishes, the decision table finds a destination that exists and matches (R3), moves
   the pointer to where it is, and unlinks the origin (`reconcile.py:278`), which is the
   only copy.
4. `ReviewQueue`.  The SQL mirror of the resolver counts any ledger row as a ruling, a
   `REVOKE` and what it voids too, which its docstring calls a divergence of revoked
   automatic enrollments only.  Every undo and every restart of a run somebody had ruled
   on appends one: the run is back in the review queue, and the lists of runs and
   recordings and the home page count it as resolved (`voxint/adjudication/resolver.py:91`).

Found with TLC while modelling, stated in the modules or here, without a run:

- `SearchAgrees` (`ReviewQueue`): for the same reason a run is not found under the
  speaker it is attributed to once a later ruling was undone
  (`voxint/adjudication/resolver.py:305`), though its tests are headed "must agree with
  `label_states` — always".

- `ArchivedIsTerminal` (`PipelineRun`): archiving leaves the revision alone and the
  automatic retry checks only the revision, so a run archived between the two runs on
  while hidden (`voxint/worker/tasks.py:196`).
- `OutputsHaveCompletedClaim` (`PipelineRun`): the sweep writes FAILED to a claim by
  primary key before its CAS and commits it even when the CAS is lost; the claim of a
  stage that has completed meanwhile reads interrupted (`voxint/pipeline/engine.py:509`).
- `ReleaseWaitsForRuns` (`GpuPhase`): a release asked for in `audio` while a tick is
  moving to `draining` is kept for the next tick, which takes it for the request that
  stops the services at once (`voxint/gpu_phase/orchestrator.py:203`).
- `InfoSurvives` (`Intake`): `acquire.py:137` promises that the metadata sidecar lies
  beside a published file; the clean-up at the start of the API removes it, since no row
  names it.  `reconcile_orphaned_incoming` takes it that nobody else writes under
  `incoming/` (`voxint/ingest/service.py:2131`), but workers are other processes: their
  temporary files go too, and the attempt fails.
- `env.late` (`Intake`): `submit_upload` calls `os.replace` without knowing whether its
  transaction still lives.  If the connection broke after the claim and a second post
  has committed other bytes, the file is replaced under its row; `RowDescribesBytes`
  names this exception.
- `RestoreReturnsHome` (`MediaReconciler`): the planner checks `trashed_at` on the
  instance it read before the row lock, and the reconciler commits the pointer before
  the flag: a second trash, read in between, is planned from the trash path, and a
  restore then returns the recording to the first trash path, where ADR 0007:258 says
  "the recorded original location" (`voxint/media/executor.py:174`).
- ADR 0007:123 says that the row lock "closes both the executor-versus-executor race and
  the move-versus-run race".  It does for submits; a requeue, a restart or the automatic
  retry of an ended run (`voxint/ingest/service.py:895`, 1574, `voxint/worker/tasks.py:185`)
  takes neither the lock nor a look, so a run can be active beside an operation
  (`RunReopens`).  The state is foreseen: "The PREPARE stage defers (re-queues)" (ADR
  0007:122), and `StageDeferError` is documented as "(not a failure)"
  (`voxint/pipeline/stages/context.py:86`).  But the engine treats it as any exception
  (`voxint/pipeline/engine.py:407`) and `retryable_cause` (`worker/tasks.py:122`) knows
  only `ServiceError`: the run is FAILED until somebody requeues it.  One that resumes
  behind PREPARE meets no such check.
- A lease that runs out under an executor that is still copying (ADR 0007:101 expects it
  to have died) lets the new owner remove the temporary file under it; the media run
  takes `Prompt`, that a copy is not interrupted so.
- After an error behind the moved pointer (`voxint/media/executor.py:553`) no digest was
  recorded, the decision table ends in `digest_mismatch`, and the trashed item has no
  completed trash a restore could name.
- `_newer_operation_exists` (`voxint/media/reconcile.py`) cannot be true while one
  operation of an item is active at a time, which `ItemTakenOnce` shows.
- The synthetic-speech lane hashes its source again when it publishes, so a generation
  made from older audio carries the newer hash; the model has the code's order.
- Two looks of the review without a lock: `undo.py:416` reads whether a speaker is
  archived that its ruling will name again, and `_archive_if_orphaned` (`undo.py:115`)
  counts rulings that another run's open transaction is about to add to.
- A ruling that waited for the run's lock behind a younger one is committed under the
  older stamp and is never in force (`voxint/api/routers/adjudication_api.py:667`).
- The restart locks the run and then speakers (`voxint/ingest/service.py:1352`), a merge of
  speakers the other way round: the database ends one of the two.
- `docs/operations.md` says that a failure requeued before delivery is suppressed;
  `_deliver_one` looks at the run before its POST, not with it.  The module's docstring
  promises no more, and `NewsBoard` allows it.

## 7. Not modelled, and the plan

`PROJECT.json` gives the reason for every part that is not modelled: numerical
code, text, I/O of one file or request at a time, single-transaction CRUD.  The
settings and API routers, the command line and the schema, which are most of the code
by lines, are such parts: they parse, call one service function in one transaction, and
render.  In the modelled parts these are left out: the publication of a lane's messages
after a phase commit (the recovery sweep republishes what it misses), a host without
service control, the side effects a completed run creates, restart's impact
acknowledgements, address vetting and signing of webhooks; the validation of generated
payloads and the review of drafts; the merge of labels, word ranges and splits; the
merge and the renaming of speakers, the deletion of an embedding and automatic
enrollment; moves of a recording to another folder; the cap on directory entries of a
scan and the parsing of a sidecar; what an active run itself reads and writes among a
recording's derived files while an operation is in flight.

Next, in this order:

1. `Merges`: label merges and their undo over `Review`'s ledger, and speaker merges
   against it, with the two lock orders of section 6.
2. `SharedRun`: `PipelineRun`'s lanes behind `GpuPhase`'s admission gate, with a worker
   cut in the middle of a stage.
3. `Activity`: events appended in the caller's transaction and read by cursor, whose ids
   are assigned before commit.
4. Proofs of these, and of `MediaCopies` after a purge: `Freed` ends the promise at the
   planning of one, and it could end at its first unlink.
