------------------------------- MODULE JobLane --------------------------------
(***************************************************************************)
(* One slot of an enrichment job lane: its job rows, the Celery messages   *)
(* that name them, the workers that execute them and the generations they  *)
(* publish.  The six lanes of the program are the same machine with a few  *)
(* differences, the operators after Lane; which lane it is is chosen in    *)
(* the initial state.                                                      *)
(*                                                                         *)
(* A worker's `at` is its place in execute_job: each action is one         *)
(* transaction, or one read that a later write depends on.  `overdue` is   *)
(* the age test of request_cancel, `source` counts the revisions of what   *)
(* the lane reads (transcript, speaker, turns).                            *)
(***************************************************************************)
EXTENDS Naturals, Sequences

CONSTANTS
    Workers,        \* worker processes
    Lanes,          \* which of the lanes the slot may belong to
    MaxJobs,        \* bound: jobs asked for in the slot
    MaxEdits,       \* bound: revisions of the source
    MaxTrouble      \* bound: losses, deaths, doors that close

Lane == {"assets", "cleanup", "translation", "research", "embedding", "synthdetect"}

ASSUME LaneAssumption ==
    /\ Lanes \subseteq Lane
    /\ MaxJobs \in Nat /\ MaxEdits \in Nat /\ MaxTrouble \in Nat

Cooperative == {"assets", "cleanup", "translation", "research"}
    \* request_cancel flags a RUNNING job and ends it only past its bound;
    \* execute_job asks admit_lane and has statements outside its try
Forceful == Lane \ Cooperative
    \* request_cancel ends the job; the flag is read before the work starts
Polling == {"cleanup", "translation", "research", "embedding"}
    \* the flag is read between batches, rounds or steps of the work
Rechecking == {"cleanup", "translation"}
    \* the source is read again before the generation is recorded
LateStamp == {"synthdetect"}
    \* the source is hashed when the result is published

VARIABLES
    lane,           \* the lane of the slot
    jobs,           \* jobs[j]: the job rows
    results,        \* the generations, oldest first
    source,         \* the revision of the source
    mail,           \* jobs named by a message at the broker
    workers,        \* the program state of each worker
    doors,          \* the feature's gate and the GPU phase
    trouble         \* what is left of MaxTrouble

vars == <<lane, jobs, results, source, mail, workers, doors, trouble>>

Job == 1..MaxJobs
Status == {"none", "queued", "running", "succeeded", "failed", "cancelled"}
Verdict == {"failed", "cancelled"}
Place == {"idle", "admit", "gates", "load", "work", "final", "recheck", "record", "finish"}

NoJob == [status |-> "none", cancel |-> FALSE, overdue |-> FALSE, error |-> FALSE]
Idle == [at |-> "idle", job |-> 0, source |-> 0, verdict |-> "failed"]

Init ==
    /\ lane \in Lanes
    /\ jobs = [j \in Job |-> NoJob]
    /\ results = <<>>
    /\ source = 0
    /\ mail = {}
    /\ workers = [w \in Workers |-> Idle]
    /\ doors = [gate |-> TRUE, phase |-> TRUE]
    /\ trouble = MaxTrouble

IsActive(j) == jobs[j].status \in {"queued", "running"}
IsTerminal(j) == jobs[j].status \in {"succeeded", "failed", "cancelled"}
Strike == trouble > 0 /\ trouble' = trouble - 1

-----------------------------------------------------------------------------
(* The console, the post-finalize hooks and the recovery sweep.            *)

\* Faulty variant: the check for an active job without the unique index.
SlotTakenByRunning == \E i \in Job : jobs[i].status = "running"

SlotTaken == \E i \in Job : IsActive(i)

\* create_job; a taken slot is a skip, told by the partial unique index.  The
\* caller commits and then publishes, or dies in between.
Create(j) ==
    /\ doors.gate
    /\ ~SlotTaken
    /\ jobs[j].status = "none" /\ \A i \in Job : i < j => jobs[i].status # "none"
    /\ jobs' = [jobs EXCEPT ![j].status = "queued"]
    /\ mail' \in {mail, mail \cup {j}}
    /\ UNCHANGED <<lane, results, source, workers, doors, trouble>>

\* Faulty variant: the sweep forgets the lanes that have no phase.
DuePhased(j) == jobs[j].status = "queued" /\ lane \in Cooperative /\ doors.phase

\* stale_queued_job_ids, with post_open for the phased lanes.
Due(j) == jobs[j].status = "queued" /\ (lane \in Cooperative => doors.phase)

Sweep(j) ==
    /\ Due(j)
    /\ j \notin mail
    /\ mail' = mail \cup {j}
    /\ UNCHANGED <<lane, jobs, results, source, workers, doors, trouble>>

CancelledRow(j) == [jobs[j] EXCEPT
    !.cancel = TRUE,
    !.status = IF lane \in Forceful \/ @ = "queued" \/ jobs[j].overdue THEN "cancelled" ELSE @]

RequestCancel(j) ==
    /\ IsActive(j)
    /\ jobs' = [jobs EXCEPT ![j] = CancelledRow(j)]
    /\ UNCHANGED <<lane, results, source, mail, workers, doors, trouble>>

\* A RUNNING row outlives its bound, its worker alive or not.
BoundPasses(j) ==
    /\ lane \in Cooperative
    /\ jobs[j].status = "running" /\ ~jobs[j].overdue
    /\ jobs' = [jobs EXCEPT ![j].overdue = TRUE]
    /\ UNCHANGED <<lane, results, source, mail, workers, doors, trouble>>

Edit ==
    /\ source < MaxEdits
    /\ source' = source + 1
    /\ UNCHANGED <<lane, jobs, results, mail, workers, doors, trouble>>

CloseDoor ==
    /\ Strike
    /\ \E d \in {"gate", "phase"} : doors[d] /\ doors' = [doors EXCEPT ![d] = FALSE]
    /\ UNCHANGED <<lane, jobs, results, source, mail, workers>>

OpenDoor ==
    /\ doors # [gate |-> TRUE, phase |-> TRUE]
    /\ doors' = [gate |-> TRUE, phase |-> TRUE]
    /\ UNCHANGED <<lane, jobs, results, source, mail, workers, trouble>>

-----------------------------------------------------------------------------
(* execute_job.                                                            *)

At(w, place) == workers[w].at = place
JobOf(w) == workers[w].job
Become(w, s) == workers' = [workers EXCEPT ![w] = s]
Goto(w, place) == Become(w, [workers[w] EXCEPT !.at = place])
Decide(w, v) == Become(w, [Idle EXCEPT !.at = "finish", !.job = JobOf(w), !.verdict = v])

Deliver(w, j) ==
    /\ At(w, "idle")
    /\ j \in mail
    /\ mail' = mail \ {j}
    /\ Become(w, [Idle EXCEPT !.at = "admit", !.job = j])
    /\ UNCHANGED <<lane, jobs, results, source, doors, trouble>>

\* Faulty variant: the claim without its cancel_requested and status tests.
ClaimableAnyActive(j) == IsActive(j)

Claimable(j) == jobs[j].status = "queued" /\ ~jobs[j].cancel

\* admit_lane and claim_job: one transaction.
Claim(w) ==
    /\ At(w, "admit")
    /\ IF Claimable(JobOf(w)) /\ (lane \in Cooperative => doors.phase)
       THEN /\ jobs' = [jobs EXCEPT ![JobOf(w)].status = "running"]
            /\ Goto(w, "gates")
       ELSE Become(w, Idle) /\ UNCHANGED jobs
    /\ UNCHANGED <<lane, results, source, mail, doors, trouble>>

CheckGates(w) ==
    /\ At(w, "gates")
    /\ IF doors.gate THEN Goto(w, "load") ELSE Decide(w, "failed")
    /\ UNCHANGED <<lane, jobs, results, source, mail, doors, trouble>>

\* The source cannot be loaded, or is read as it is now.
Load(w) ==
    /\ At(w, "load")
    /\ IF lane \in Forceful /\ jobs[JobOf(w)].cancel
       THEN Decide(w, "cancelled")
       ELSE \/ Decide(w, "failed")
            \/ Become(w, [workers[w] EXCEPT !.at = "work", !.source = source])
    /\ UNCHANGED <<lane, jobs, results, source, mail, doors, trouble>>

\* The calls to the model; a flag set meanwhile is seen between two of them,
\* or not when it came during the last.
Work(w) ==
    /\ At(w, "work")
    /\ \/ Goto(w, "final")
       \/ Decide(w, "failed")
       \/ lane \in Polling /\ jobs[JobOf(w)].cancel /\ Decide(w, "cancelled")
    /\ UNCHANGED <<lane, jobs, results, source, mail, doors, trouble>>

LastLook(w) ==
    /\ At(w, "final")
    /\ IF jobs[JobOf(w)].cancel THEN Decide(w, "cancelled")
       ELSE Goto(w, IF lane \in Rechecking THEN "recheck" ELSE "record")
    /\ UNCHANGED <<lane, jobs, results, source, mail, doors, trouble>>

Recheck(w) ==
    /\ At(w, "recheck")
    /\ IF workers[w].source = source THEN Goto(w, "record") ELSE Decide(w, "failed")
    /\ UNCHANGED <<lane, jobs, results, source, mail, doors, trouble>>

\* Faulty variant: the final stamp trusts the last look at the flag.
StampsRunning(j) == jobs[j].status = "running"

Stamps(j) == jobs[j].status = "running" /\ ~jobs[j].cancel

StampedSource(w) == IF lane \in LateStamp THEN source ELSE workers[w].source

\* One transaction under the slot's advisory lock: the generation, what it
\* supersedes, the job's stamp.  A stamp that finds the row cancelled rolls
\* the generation back; so does an exception.
Record(w) ==
    /\ At(w, "record")
    /\ \/ /\ Stamps(JobOf(w))
          /\ results' = Append(results, [job |-> JobOf(w), source |-> StampedSource(w)])
          /\ jobs' = [jobs EXCEPT ![JobOf(w)].status = "succeeded"]
          /\ Become(w, Idle)
       \/ ~Stamps(JobOf(w)) /\ Decide(w, "cancelled") /\ UNCHANGED <<results, jobs>>
       \/ Decide(w, "failed") /\ UNCHANGED <<results, jobs>>
    /\ UNCHANGED <<lane, source, mail, doors, trouble>>

Finishes(j) == IsActive(j)

\* _finish: an operator's cancel outranks a failure, whose text only the
\* clean-up lane then leaves out.
FinishedRow(w, row) == [row EXCEPT
    !.status = IF row.cancel THEN "cancelled" ELSE workers[w].verdict,
    !.error = workers[w].verdict = "failed" /\ ~(row.cancel /\ lane = "cleanup")]

Finish(w) ==
    /\ At(w, "finish")
    /\ jobs' = [jobs EXCEPT ![JobOf(w)] = IF Finishes(JobOf(w)) THEN FinishedRow(w, @) ELSE @]
    /\ Become(w, Idle)
    /\ UNCHANGED <<lane, results, source, mail, doors, trouble>>

\* The worker dies, acknowledged or not (task_acks_late), or the cooperative
\* lanes raise outside their try; the row stays as it is.
Die(w) ==
    /\ Strike
    /\ ~At(w, "idle")
    /\ Become(w, Idle)
    /\ mail' \in {mail, mail \cup {JobOf(w)}}
    /\ UNCHANGED <<lane, jobs, results, source, doors>>

\* The broker's visibility timeout passes under a living worker.
Redeliver(w) ==
    /\ Strike
    /\ ~At(w, "idle") /\ JobOf(w) \notin mail
    /\ mail' = mail \cup {JobOf(w)}
    /\ UNCHANGED <<lane, jobs, results, source, workers, doors>>

-----------------------------------------------------------------------------

Execute(w) ==
    \/ Claim(w)
    \/ CheckGates(w)
    \/ Load(w)
    \/ Work(w)
    \/ LastLook(w)
    \/ Recheck(w)
    \/ Record(w)
    \/ Finish(w)

Handle(j) ==
    \/ Create(j)
    \/ Sweep(j)
    \/ RequestCancel(j)
    \/ BoundPasses(j)

\* The bound on jobs is used up and all is quiet.
Rest ==
    /\ \A j \in Job : IsTerminal(j)
    /\ UNCHANGED vars

Next ==
    \/ \E j \in Job : Handle(j)
    \/ \E w \in Workers : Execute(w) \/ Die(w) \/ Redeliver(w)
    \/ \E w \in Workers, j \in Job : Deliver(w, j)
    \/ Edit
    \/ CloseDoor
    \/ OpenDoor
    \/ Rest

Spec == Init /\ [][Next]_vars

\* A worker on the job: alive and past its claim.
Held(j) == \E w \in Workers : JobOf(w) = j /\ workers[w].at \notin {"idle", "admit"}

\* The operator cancels a job that runs past its bound with nobody on it: the
\* lanes have no recovery of RUNNING rows but that.
OperatorCleansUp(j) ==
    /\ jobs[j].status = "running" /\ ~Held(j)
    /\ lane \in Cooperative => jobs[j].overdue
    /\ RequestCancel(j)

\* Workers consume and run, the beat sweeps, clocks advance, what was closed
\* opens again.
Fairness ==
    /\ \A w \in Workers : WF_vars(Execute(w))
    /\ WF_vars(\E w \in Workers, j \in Job : Deliver(w, j))
    /\ \A j \in Job : WF_vars(Sweep(j)) /\ WF_vars(BoundPasses(j))
    /\ \A j \in Job : WF_vars(OperatorCleansUp(j))
    /\ WF_vars(OpenDoor)

FairSpec == Spec /\ Fairness

-----------------------------------------------------------------------------
(* Properties.                                                             *)

TypeOK ==
    /\ lane \in Lanes
    /\ jobs \in [Job -> [status : Status, cancel : BOOLEAN,
                     overdue : BOOLEAN, error : BOOLEAN]]
    /\ results \in Seq([job : Job, source : 0..MaxEdits])
    /\ source \in 0..MaxEdits
    /\ mail \subseteq Job
    /\ workers \in [Workers -> [at : Place, job : Job \cup {0},
                                source : 0..MaxEdits, verdict : Verdict]]
    /\ doors \in [gate : BOOLEAN, phase : BOOLEAN]
    /\ trouble \in 0..MaxTrouble

(* "queued -> running, exactly once (duplicate delivery no-ops)"           *)
(* (asset_jobs.py:215): however often a message is published, redelivered  *)
(* or swept up, no two workers execute one job.                            *)
OneExecutor ==
    \A v, w \in Workers :
        /\ JobOf(v) = JobOf(w)
        /\ {workers[v].at, workers[w].at} \cap {"idle", "admit"} = {}
        => v = w

(* "a cancel that lands between the check below and this stamp must win"   *)
(* (asset_jobs.py:497): a job that was asked to stop has no generation, in *)
(* whatever order the worker's look at the flag, its write and the         *)
(* operator's update fall; and a job has one exactly when it succeeded.    *)
CancelWins ==
    \A j \in Job :
        /\ jobs[j].cancel => jobs[j].status # "succeeded"
        /\ jobs[j].status = "succeeded" <=> \E n \in DOMAIN results : results[n].job = j
        /\ \A m, n \in DOMAIN results : {results[m].job, results[n].job} = {j} => m = n

(* "a terminal row is never mutated again" (asset_jobs.py:312): a worker   *)
(* whose job was force-cancelled under it changes nothing of it any more.  *)
TerminalIsFinal ==
    [][\A j \in Job : IsTerminal(j) => jobs'[j] = jobs[j]]_vars

BoardOf(j) ==
    CASE jobs[j].status = "none" -> "unasked"
      [] IsActive(j) -> "open"
      [] jobs[j].status = "succeeded" -> "kept"
      [] OTHER -> "dropped"

Board == INSTANCE JobBoard WITH
    Source <- 0..MaxEdits, board <- [j \in Job |-> BoardOf(j)], shelf <- results

(* The lane keeps the promise of JobBoard: one open job in the slot, one   *)
(* generation per kept job, and generations that follow the source: a      *)
(* worker that read an old source and was force-cancelled cannot publish   *)
(* over its replacement's.                                                 *)
ImplementsJobBoard == Board!BoardSpec

(* A QUEUED job whose message is lost or deferred holds the slot until the *)
(* sweep brings it back, a RUNNING one without a worker until an operator  *)
(* cancels it past its bound: every job ends (tasks.py:492,                *)
(* asset_jobs.py:246).                                                     *)
EveryJobEnds == \A j \in Job : IsActive(j) ~> IsTerminal(j)
=============================================================================
