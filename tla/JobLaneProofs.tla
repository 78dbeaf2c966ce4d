----------------------------- MODULE JobLaneProofs -----------------------------
(***************************************************************************)
(* Proofs about JobLane, for any workers, lanes and bounds.                *)
(***************************************************************************)
EXTENDS JobLane, TLAPS

Working == {"work", "final", "recheck", "record"}
Past(w) == workers[w].at \notin {"idle", "admit"}

(* At most one job of the slot is active.                                  *)
SlotInv == \A i, j \in Job : IsActive(i) /\ IsActive(j) => i = j

(* A worker past its claim is on a job that left QUEUED.                   *)
HeldInv ==
    \A w \in Workers :
        /\ ~At(w, "idle") => JobOf(w) \in Job
        /\ Past(w) => jobs[JobOf(w)].status \notin {"none", "queued"}

(* What a worker read, and what was published, is no newer than the        *)
(* source; what the worker of the active job read is no older than any     *)
(* generation.                                                             *)
SourceInv ==
    /\ \A n \in DOMAIN results : results[n].source <= source
    /\ \A w \in Workers : workers[w].at \in Working =>
        /\ workers[w].source <= source
        /\ IsActive(JobOf(w)) =>
            \A n \in DOMAIN results : results[n].source <= workers[w].source

LaneInv == TypeOK /\ SlotInv /\ HeldInv /\ OneExecutor /\ CancelWins /\ SourceInv

-----------------------------------------------------------------------------
(* Records and functions.                                                  *)

WorkerSet == [at : Place, job : Job \cup {0}, source : 0..MaxEdits, verdict : Verdict]
RowSet == [status : Status, cancel : BOOLEAN, overdue : BOOLEAN, error : BOOLEAN]

\* Writing a worker's state with a well-typed one keeps the type.
LEMMA BecomeType ==
    ASSUME TypeOK, NEW w \in Workers, NEW s \in WorkerSet, Become(w, s)
    PROVE  /\ workers' \in [Workers -> WorkerSet]
           /\ workers'[w] = s
           /\ \A v \in Workers \ {w} : workers'[v] = workers[v]
BY DEF TypeOK, Become, WorkerSet

\* An idle worker's state is well typed.
LEMMA IdleType == Idle \in WorkerSet
BY LaneAssumption DEF Idle, WorkerSet, Place, Verdict

\* Moving a worker to another place keeps its type.
LEMMA GotoType ==
    ASSUME TypeOK, NEW w \in Workers, NEW p \in Place
    PROVE  [workers[w] EXCEPT !.at = p] \in WorkerSet
BY DEF TypeOK, WorkerSet

\* So does the decision on a verdict.
LEMMA DecideType ==
    ASSUME TypeOK, NEW w \in Workers, NEW v \in Verdict
    PROVE  [Idle EXCEPT !.at = "finish", !.job = JobOf(w), !.verdict = v] \in WorkerSet
BY IdleType DEF TypeOK, WorkerSet, Place, JobOf

\* The initial state is well typed.
LEMMA InitType == Init => TypeOK
BY IdleType, LaneAssumption
DEF Init, TypeOK, WorkerSet, NoJob, Status

\* Every step keeps the types: one step per action.
LEMMA NextType == LaneInv /\ [Next]_vars => TypeOK'
<1> SUFFICES ASSUME LaneInv, [Next]_vars PROVE TypeOK'
  OBVIOUS
<1>0. TypeOK
  BY DEF LaneInv
<1>1. ASSUME NEW j \in Job, Handle(j) PROVE TypeOK'
  <2>1. jobs \in [Job -> RowSet]
    BY <1>0 DEF TypeOK, RowSet
  <2>2. jobs' \in [Job -> RowSet]
    <3>1. CASE Create(j)
      BY <3>1, <2>1 DEF Create, RowSet, Status
    <3>2. CASE Sweep(j)
      BY <3>2, <2>1 DEF Sweep
    <3>3. CASE RequestCancel(j)
      <4>1. CancelledRow(j) \in RowSet
        BY <2>1 DEF CancelledRow, RowSet, Status
      <4>2. QED
        BY <3>3, <2>1, <4>1, Zenon DEF RequestCancel
    <3>4. CASE BoundPasses(j)
      BY <3>4, <2>1 DEF BoundPasses, RowSet
    <3>5. QED
      BY <1>1, <3>1, <3>2, <3>3, <3>4 DEF Handle
  <2>3. mail' \subseteq Job
    BY <1>0, <1>1 DEF Handle, Create, Sweep, RequestCancel, BoundPasses, TypeOK
  <2>4. UNCHANGED <<lane, results, source, workers, doors, trouble>>
    BY <1>1 DEF Handle, Create, Sweep, RequestCancel, BoundPasses
  <2>5. QED
    BY <1>0, <2>2, <2>3, <2>4 DEF TypeOK, RowSet
<1>2. ASSUME NEW w \in Workers, Execute(w) PROVE TypeOK'
  <2>1. jobs \in [Job -> RowSet] /\ workers[w] \in WorkerSet
    BY <1>0 DEF TypeOK, RowSet, WorkerSet
  <2>2. UNCHANGED <<lane, source, mail, doors, trouble>>
    BY <1>2 DEF Execute, Claim, CheckGates, Load, Work, LastLook, Recheck, Record, Finish
  <2>3. jobs' \in [Job -> RowSet]
    <3>1. CASE Claim(w)
      BY <3>1, <2>1 DEF Claim, RowSet, Status
    <3>2. CASE Record(w)
      BY <3>2, <2>1 DEF Record, RowSet, Status
    <3>3. CASE Finish(w)
      <4>1. ASSUME NEW row \in RowSet PROVE FinishedRow(w, row) \in RowSet
        <5>1. (IF row.cancel THEN "cancelled" ELSE workers[w].verdict) \in Status
          BY <2>1 DEF WorkerSet, Verdict, Status
        <5>2. (workers[w].verdict = "failed" /\ ~(row.cancel /\ lane = "cleanup")) \in BOOLEAN
          OBVIOUS
        <5>3. QED
          BY <5>1, <5>2 DEF FinishedRow, RowSet
      <4>2. QED
        BY <3>3, <2>1, <4>1 DEF Finish
    <3>4. CASE UNCHANGED jobs
      BY <3>4, <2>1
    <3>5. QED
      BY <1>2, <3>1, <3>2, <3>3, <3>4
      DEF Execute, CheckGates, Load, Work, LastLook, Recheck
  <2>4. results' \in Seq([job : Job, source : 0..MaxEdits])
    <3>1. CASE Record(w) /\ UNCHANGED results
      BY <3>1, <1>0 DEF TypeOK
    <3>2. CASE Record(w) /\ results' # results
      <4>1. JobOf(w) \in Job
        BY <3>2 DEF LaneInv, HeldInv, Record, At
      <4>2. StampedSource(w) \in 0..MaxEdits
        BY <1>0, <2>1 DEF StampedSource, TypeOK, WorkerSet
      <4>3. results' = Append(results, [job |-> JobOf(w), source |-> StampedSource(w)])
        BY <3>2 DEF Record
      <4>4. QED
        BY <4>1, <4>2, <4>3, <1>0 DEF TypeOK
    <3>3. CASE ~Record(w)
      BY <3>3, <1>2, <1>0
      DEF Execute, Claim, CheckGates, Load, Work, LastLook, Recheck, Finish, TypeOK
    <3>4. QED
      BY <3>1, <3>2, <3>3
  <2>5. workers' \in [Workers -> WorkerSet]
    <3>1. PICK r \in WorkerSet : Become(w, r)
      <4>1. \A p \in Place : [workers[w] EXCEPT !.at = p] \in WorkerSet
        BY <1>0, GotoType
      <4>2. \A v \in Verdict :
              [Idle EXCEPT !.at = "finish", !.job = JobOf(w), !.verdict = v] \in WorkerSet
        BY <1>0, DecideType
      <4>3. [workers[w] EXCEPT !.at = "work", !.source = source] \in WorkerSet
        BY <1>0, <2>1 DEF TypeOK, WorkerSet, Place
      <4>4. CASE Claim(w)
        BY <4>1, <4>4, IdleType DEF Claim, Goto, Place
      <4>5. CASE CheckGates(w) \/ Work(w) \/ LastLook(w) \/ Recheck(w)
        BY <4>1, <4>2, <4>5
        DEF CheckGates, Work, LastLook, Recheck, Goto, Decide, Place, Verdict
      <4>6. CASE Load(w)
        BY <4>2, <4>3, <4>6 DEF Load, Decide, Verdict
      <4>7. CASE Record(w) \/ Finish(w)
        BY <4>2, <4>7, IdleType DEF Record, Finish, Decide, Verdict
      <4>8. QED
        BY <1>2, <4>4, <4>5, <4>6, <4>7 DEF Execute
    <3>2. QED
      BY <3>1, <1>0, BecomeType
  <2>6. QED
    BY <1>0, <2>2, <2>3, <2>4, <2>5 DEF TypeOK, RowSet, WorkerSet
<1>3. ASSUME NEW w \in Workers, NEW j \in Job, Deliver(w, j) PROVE TypeOK'
  <2>1. [Idle EXCEPT !.at = "admit", !.job = j] \in WorkerSet
    BY IdleType DEF WorkerSet, Place
  <2>2. workers' \in [Workers -> WorkerSet]
    BY <1>0, <1>3, <2>1, BecomeType DEF Deliver
  <2>3. mail' \subseteq Job
    BY <1>0, <1>3 DEF Deliver, TypeOK
  <2>4. QED
    BY <1>0, <1>3, <2>2, <2>3 DEF Deliver, TypeOK, WorkerSet
<1>4. ASSUME NEW w \in Workers, Die(w) \/ Redeliver(w) PROVE TypeOK'
  <2>1. JobOf(w) \in Job
    BY <1>4 DEF LaneInv, HeldInv, Die, Redeliver
  <2>2. mail' \subseteq Job
    BY <1>0, <1>4, <2>1 DEF Die, Redeliver, TypeOK
  <2>3. workers' \in [Workers -> WorkerSet]
    <3>1. CASE Die(w)
      BY <1>0, <3>1, IdleType, BecomeType DEF Die
    <3>2. CASE Redeliver(w)
      BY <1>0, <3>2 DEF Redeliver, TypeOK, WorkerSet
    <3>3. QED
      BY <1>4, <3>1, <3>2
  <2>4. trouble' \in 0..MaxTrouble
    BY <1>0, <1>4, LaneAssumption DEF Die, Redeliver, Strike, TypeOK
  <2>5. UNCHANGED <<lane, jobs, results, source, doors>>
    BY <1>4 DEF Die, Redeliver
  <2>6. QED
    BY <1>0, <2>2, <2>3, <2>4, <2>5 DEF TypeOK, WorkerSet
<1>5. ASSUME Edit PROVE TypeOK'
  BY <1>0, <1>5, LaneAssumption DEF Edit, TypeOK
<1>6. ASSUME CloseDoor \/ OpenDoor PROVE TypeOK'
  <2>1. doors' \in [gate : BOOLEAN, phase : BOOLEAN]
    <3>1. CASE CloseDoor
      <4>1. PICK d \in {"gate", "phase"} : doors' = [doors EXCEPT ![d] = FALSE]
        BY <3>1 DEF CloseDoor
      <4>2. CASE d = "gate"
        BY <4>1, <4>2, <1>0 DEF TypeOK
      <4>3. CASE d = "phase"
        BY <4>1, <4>3, <1>0 DEF TypeOK
      <4>4. QED
        BY <4>2, <4>3
    <3>2. CASE OpenDoor
      BY <3>2 DEF OpenDoor
    <3>3. QED
      BY <1>6, <3>1, <3>2
  <2>2. trouble' \in 0..MaxTrouble
    BY <1>0, <1>6, LaneAssumption DEF CloseDoor, OpenDoor, Strike, TypeOK
  <2>3. UNCHANGED <<lane, jobs, results, source, mail, workers>>
    BY <1>6 DEF CloseDoor, OpenDoor
  <2>4. QED
    BY <1>0, <2>1, <2>2, <2>3 DEF TypeOK
<1>7. ASSUME UNCHANGED vars PROVE TypeOK'
  BY <1>0, <1>7 DEF vars, TypeOK
<1>8. QED
  BY <1>1, <1>2, <1>3, <1>4, <1>5, <1>6, <1>7 DEF Next, Rest

-----------------------------------------------------------------------------
(* What a step does to a row and to a worker.                              *)

RowStep(j) ==
    /\ IsActive(j)' => IsActive(j) \/ Create(j)
    /\ jobs[j].status \notin {"none", "queued"} => jobs'[j].status \notin {"none", "queued"}
    /\ IsTerminal(j) => jobs'[j] = jobs[j]
    /\ jobs'[j].status = "succeeded" =>
          \/ jobs[j].status = "succeeded"
          \/ /\ ~jobs'[j].cancel
             /\ \E w \in Workers : Record(w) /\ JobOf(w) = j /\ Stamps(j)

\* What any step may do to a job row (RowStep), action by action.
LEMMA RowSteps == LaneInv /\ [Next]_vars => \A j \in Job : RowStep(j)
<1> SUFFICES ASSUME LaneInv, [Next]_vars, NEW j \in Job PROVE RowStep(j)
  OBVIOUS
<1>0. jobs \in [Job -> RowSet]
  BY DEF LaneInv, TypeOK, RowSet
<1>1. CASE UNCHANGED jobs
  BY <1>1 DEF RowStep, IsActive, IsTerminal
<1>2. ASSUME NEW i \in Job, Handle(i) PROVE RowStep(j)
  <2>1. CASE Create(i)
    BY <1>0, <2>1 DEF Create, RowStep, IsActive, IsTerminal, RowSet
  <2>2. CASE RequestCancel(i)
    <3>1. CASE i = j
      BY <1>0, <2>2, <3>1
      DEF RequestCancel, CancelledRow, RowStep, IsActive, IsTerminal, RowSet
    <3>2. CASE i # j
      BY <1>0, <2>2, <3>2 DEF RequestCancel, RowStep, IsActive, IsTerminal
    <3>3. QED
      BY <3>1, <3>2
  <2>3. CASE BoundPasses(i)
    BY <1>0, <2>3 DEF BoundPasses, RowStep, IsActive, IsTerminal, RowSet
  <2>4. CASE Sweep(i)
    BY <1>1, <2>4 DEF Sweep
  <2>5. QED
    BY <1>2, <2>1, <2>2, <2>3, <2>4 DEF Handle
<1>3. ASSUME NEW w \in Workers, Execute(w) PROVE RowStep(j)
  <2>1. CASE Claim(w)
    BY <1>0, <2>1 DEF Claim, Claimable, RowStep, IsActive, IsTerminal, RowSet
  <2>2. CASE Record(w)
    <3>1. CASE UNCHANGED jobs
      BY <1>1, <3>1
    <3>2. CASE Stamps(JobOf(w)) /\ jobs' = [jobs EXCEPT ![JobOf(w)].status = "succeeded"]
      <4>1. CASE JobOf(w) = j
        BY <1>0, <2>2, <3>2, <4>1 DEF Stamps, RowStep, IsActive, IsTerminal, RowSet
      <4>2. CASE JobOf(w) # j
        BY <1>0, <3>2, <4>2 DEF RowStep, IsActive, IsTerminal
      <4>3. QED
        BY <4>1, <4>2
    <3>3. QED
      BY <2>2, <3>1, <3>2 DEF Record
  <2>3. CASE Finish(w)
    <3>1. CASE JobOf(w) = j /\ Finishes(j)
      <4>1. jobs'[j] = FinishedRow(w, jobs[j])
        BY <1>0, <2>3, <3>1 DEF Finish
      <4>2. workers[w].verdict \in {"failed", "cancelled"}
        BY DEF LaneInv, TypeOK, Verdict
      <4>3. FinishedRow(w, jobs[j]).status \in {"failed", "cancelled"}
        BY <1>0, <4>2 DEF FinishedRow, RowSet
      <4>4. QED
        BY <3>1, <4>1, <4>3 DEF RowStep, IsActive, IsTerminal, Finishes
    <3>2. CASE ~(JobOf(w) = j /\ Finishes(j))
      <4>1. jobs'[j] = jobs[j]
        BY <1>0, <2>3, <3>2 DEF Finish
      <4>2. QED
        BY <4>1 DEF RowStep, IsActive, IsTerminal
    <3>3. QED
      BY <3>1, <3>2
  <2>4. QED
    BY <1>1, <1>3, <2>1, <2>2, <2>3 DEF Execute, CheckGates, Load, Work, LastLook, Recheck
<1>4. QED
  BY <1>1, <1>2, <1>3 DEF Next, Deliver, Die, Redeliver, Edit, CloseDoor, OpenDoor, Rest, vars

\* How a worker can move: it stops, takes a message, claims, or goes on.
Moves(w) ==
    \/ workers'[w] = Idle
    \/ \E j \in Job : workers'[w] = [Idle EXCEPT !.at = "admit", !.job = j]
    \/ /\ At(w, "admit") /\ Claimable(JobOf(w))
       /\ workers'[w] = [workers[w] EXCEPT !.at = "gates"]
       /\ jobs'[JobOf(w)].status = "running"
    \/ /\ Past(w) /\ workers'[w].at \notin {"idle", "admit"}
       /\ workers'[w].job = JobOf(w)
       /\ UNCHANGED results
       /\ workers'[w].at \in Working =>
             \/ workers'[w].source = source
             \/ workers[w].at \in Working /\ workers'[w].source = workers[w].source

\* What any step may do to a worker's state (Moves).
LEMMA WorkerSteps ==
    LaneInv /\ [Next]_vars =>
        \/ UNCHANGED workers
        \/ \E w \in Workers :
              Moves(w) /\ \A v \in Workers \ {w} : workers'[v] = workers[v]
<1> SUFFICES ASSUME LaneInv, [Next]_vars, workers' # workers
             PROVE \E w \in Workers :
                     Moves(w) /\ \A v \in Workers \ {w} : workers'[v] = workers[v]
  OBVIOUS
<1>0. TypeOK /\ workers \in [Workers -> WorkerSet]
  BY DEF LaneInv, TypeOK, WorkerSet
<1>1. ASSUME NEW w \in Workers, NEW r, Become(w, r)
      PROVE  workers'[w] = r /\ \A v \in Workers \ {w} : workers'[v] = workers[v]
  BY <1>0, <1>1 DEF Become
<1>2. ASSUME NEW w \in Workers, NEW j \in Job, Deliver(w, j)
      PROVE  Moves(w) /\ \A v \in Workers \ {w} : workers'[v] = workers[v]
  BY <1>1, <1>2 DEF Deliver, Moves
<1>3. ASSUME NEW w \in Workers, Die(w)
      PROVE  Moves(w) /\ \A v \in Workers \ {w} : workers'[v] = workers[v]
  BY <1>1, <1>3 DEF Die, Moves
<1>4. ASSUME NEW w \in Workers, Execute(w)
      PROVE  Moves(w) /\ \A v \in Workers \ {w} : workers'[v] = workers[v]
  <2>1. ASSUME NEW p \in Place \ {"idle", "admit"}, Past(w), Goto(w, p), UNCHANGED results,
               p \in Working => workers[w].at \in Working
        PROVE  Moves(w) /\ \A v \in Workers \ {w} : workers'[v] = workers[v]
    <3>1. /\ workers'[w] = [workers[w] EXCEPT !.at = p]
          /\ \A v \in Workers \ {w} : workers'[v] = workers[v]
      BY <1>1, <2>1 DEF Goto
    <3>2. workers[w] \in WorkerSet
      BY <1>0
    <3>3. QED
      BY <2>1, <3>1, <3>2 DEF Moves, WorkerSet, JobOf
  <2>2. ASSUME NEW v \in Verdict, Past(w), Decide(w, v), UNCHANGED results
        PROVE  Moves(w) /\ \A u \in Workers \ {w} : workers'[u] = workers[u]
    <3> DEFINE r == [Idle EXCEPT !.at = "finish", !.job = JobOf(w), !.verdict = v]
    <3>1. workers'[w] = r /\ \A u \in Workers \ {w} : workers'[u] = workers[u]
      BY <1>1, <2>2 DEF Decide
    <3>2. r.at = "finish" /\ r.job = JobOf(w)
      BY DEF Idle
    <3>3. QED
      BY <2>2, <3>1, <3>2 DEF Moves, Working
  <2>3. CASE Claim(w)
    <3>1. CASE Become(w, Idle)
      BY <1>1, <3>1 DEF Moves
    <3>2. CASE ~Become(w, Idle)
      <4>1. /\ At(w, "admit") /\ Claimable(JobOf(w)) /\ Goto(w, "gates")
            /\ jobs' = [jobs EXCEPT ![JobOf(w)].status = "running"]
        BY <2>3, <3>2 DEF Claim
      <4>2. JobOf(w) \in Job
        BY <4>1 DEF LaneInv, HeldInv, At
      <4>3. jobs'[JobOf(w)].status = "running"
        BY <4>1, <4>2 DEF LaneInv, TypeOK
      <4>4. QED
        BY <1>1, <4>1, <4>3 DEF Goto, Moves
    <3>3. QED
      BY <3>1, <3>2
  <2>4. CASE CheckGates(w)
    <3>1. Past(w) /\ UNCHANGED results /\ "load" \notin Working
      BY <2>4 DEF CheckGates, At, Past, Working
    <3>2. Goto(w, "load") \/ Decide(w, "failed")
      BY <2>4 DEF CheckGates
    <3>3. QED
      BY <2>1, <2>2, <3>1, <3>2 DEF Place, Verdict
  <2>5. CASE Load(w)
    <3>1. Past(w) /\ UNCHANGED results
      BY <2>5 DEF Load, At, Past
    <3>2. CASE Decide(w, "failed") \/ Decide(w, "cancelled")
      BY <2>2, <3>1, <3>2 DEF Verdict
    <3>3. CASE Become(w, [workers[w] EXCEPT !.at = "work", !.source = source])
      <4>1. workers[w] \in WorkerSet
        BY <1>0
      <4>2. QED
        <5> DEFINE r == [workers[w] EXCEPT !.at = "work", !.source = source]
        <5>1. workers'[w] = r /\ \A v \in Workers \ {w} : workers'[v] = workers[v]
          BY <1>1, <3>3
        <5>2. r.at = "work" /\ r.job = JobOf(w) /\ r.source = source
          BY <4>1 DEF WorkerSet, JobOf
        <5>3. QED
          BY <3>1, <5>1, <5>2 DEF Moves
    <3>4. QED
      BY <2>5, <3>2, <3>3 DEF Load
  <2>6. CASE Work(w) \/ LastLook(w) \/ Recheck(w)
    <3>1. Past(w) /\ UNCHANGED results /\ workers[w].at \in Working
      BY <2>6 DEF Work, LastLook, Recheck, At, Past, Working
    <3>2. \/ Decide(w, "failed") \/ Decide(w, "cancelled")
          \/ Goto(w, "final") \/ Goto(w, "recheck") \/ Goto(w, "record")
      BY <2>6 DEF Work, LastLook, Recheck
    <3>3. QED
      BY <2>1, <2>2, <3>1, <3>2 DEF Place, Verdict
  <2>7. CASE Record(w)
    <3>1. CASE Become(w, Idle)
      BY <1>1, <3>1 DEF Moves
    <3>2. CASE ~Become(w, Idle)
      <4>1. Past(w) /\ UNCHANGED results
        BY <2>7, <3>2 DEF Record, At, Past
      <4>2. Decide(w, "failed") \/ Decide(w, "cancelled")
        BY <2>7, <3>2 DEF Record
      <4>3. QED
        BY <2>2, <4>1, <4>2 DEF Verdict
    <3>3. QED
      BY <3>1, <3>2
  <2>8. CASE Finish(w)
    BY <1>1, <2>8 DEF Finish, Moves
  <2>9. QED
    BY <1>4, <2>3, <2>4, <2>5, <2>6, <2>7, <2>8 DEF Execute
<1>5. \/ \E w \in Workers : Execute(w) \/ Die(w)
      \/ \E w \in Workers, j \in Job : Deliver(w, j)
  BY DEF Next, Handle, Create, Sweep, RequestCancel, BoundPasses, Redeliver,
         Edit, CloseDoor, OpenDoor, Rest, vars
<1>6. QED
  BY <1>2, <1>3, <1>4, <1>5

-----------------------------------------------------------------------------
(* The invariant.                                                          *)

\* Only a Record that stamps its job adds a generation.
LEMMA StepResults ==
    LaneInv /\ [Next]_vars =>
        \/ UNCHANGED results
        \/ \E w \in Workers :
              /\ Record(w) /\ Stamps(JobOf(w)) /\ JobOf(w) \in Job
              /\ jobs'[JobOf(w)].status = "succeeded" /\ UNCHANGED source
              /\ results' = Append(results, [job |-> JobOf(w), source |-> StampedSource(w)])
              /\ workers'[w] = Idle
<1> SUFFICES ASSUME LaneInv, [Next]_vars, results' # results
             PROVE \E w \in Workers :
              /\ Record(w) /\ Stamps(JobOf(w)) /\ JobOf(w) \in Job
              /\ jobs'[JobOf(w)].status = "succeeded" /\ UNCHANGED source
              /\ results' = Append(results, [job |-> JobOf(w), source |-> StampedSource(w)])
              /\ workers'[w] = Idle
  BY Zenon
<1>1. PICK w \in Workers : Record(w)
  BY DEF Next, Handle, Create, Sweep, RequestCancel, BoundPasses, Redeliver, Deliver, Die,
         Edit, CloseDoor, OpenDoor, Rest, vars, Execute, Claim, CheckGates, Load, Work,
         LastLook, Recheck, Finish
<1>2. JobOf(w) \in Job
  BY <1>1 DEF LaneInv, HeldInv, Record, At
<1>3. Stamps(JobOf(w)) /\ Become(w, Idle)
      /\ jobs' = [jobs EXCEPT ![JobOf(w)].status = "succeeded"]
      /\ results' = Append(results, [job |-> JobOf(w), source |-> StampedSource(w)])
      /\ UNCHANGED source
  BY <1>1 DEF Record
<1>4. jobs'[JobOf(w)].status = "succeeded" /\ workers'[w] = Idle
  BY <1>2, <1>3 DEF LaneInv, TypeOK, Become
<1>5. QED
  BY <1>1, <1>2, <1>3, <1>4

\* A job becomes active only in a free slot.
LEMMA SlotStep == LaneInv /\ [Next]_vars => SlotInv'
<1> SUFFICES ASSUME LaneInv, [Next]_vars, NEW i \in Job, NEW j \in Job,
                    IsActive(i)', IsActive(j)'
             PROVE i = j
  BY DEF SlotInv
<1>1. RowStep(i) /\ RowStep(j)
  BY RowSteps
<1>2. CASE IsActive(i) /\ IsActive(j)
  BY <1>2 DEF LaneInv, SlotInv
<1>3. ASSUME NEW k \in Job, Create(k) PROVE i = j
  <2>1. \A n \in Job : ~IsActive(n)
    BY <1>3 DEF Create, SlotTaken
  <2>2. Create(i) /\ Create(j)
    BY <1>1, <2>1 DEF RowStep
  <2>3. \A n \in Job \ {i} : jobs'[n] = jobs[n]
    BY <2>2 DEF Create, LaneInv, TypeOK
  <2>4. QED
    BY <2>1, <2>3 DEF IsActive
<1>4. QED
  BY <1>1, <1>2, <1>3 DEF RowStep

\* A worker past its claim keeps a job that left QUEUED.
LEMMA HeldStep == LaneInv /\ [Next]_vars => HeldInv'
<1> SUFFICES ASSUME LaneInv, [Next]_vars, NEW w \in Workers, ~At(w, "idle")'
             PROVE  JobOf(w)' \in Job
                    /\ (Past(w)' => jobs'[JobOf(w)'].status \notin {"none", "queued"})
  BY DEF HeldInv, At, Past, JobOf
<1>1. \A j \in Job : RowStep(j)
  BY RowSteps
<1>2. CASE workers'[w] = workers[w]
  BY <1>1, <1>2, Zenon DEF LaneInv, HeldInv, RowStep, At, Past, JobOf
<1>3. CASE Moves(w)
  <2>1. workers'[w] # Idle
    BY DEF At, Idle
  <2>2. ASSUME NEW j \in Job, workers'[w] = [Idle EXCEPT !.at = "admit", !.job = j]
        PROVE  JobOf(w)' \in Job /\ ~Past(w)'
    <3>1. workers'[w].job = j /\ workers'[w].at = "admit"
      BY <2>2 DEF Idle
    <3>2. QED
      BY <3>1 DEF Past, JobOf
  <2>3. CASE /\ At(w, "admit") /\ workers'[w] = [workers[w] EXCEPT !.at = "gates"]
             /\ jobs'[JobOf(w)].status = "running"
    <3>1. workers'[w].job = JobOf(w)
      BY <2>3 DEF LaneInv, TypeOK, JobOf
    <3>2. QED
      BY <2>3, <3>1 DEF LaneInv, HeldInv, JobOf, At
  <2>4. CASE Past(w) /\ workers'[w].job = JobOf(w)
    BY <1>1, <2>4 DEF LaneInv, HeldInv, RowStep, Past, JobOf, At
  <2>5. QED
    BY <1>3, <2>1, <2>2, <2>3, <2>4 DEF Moves
<1>4. QED
  BY <1>2, <1>3, WorkerSteps

\* A worker past its claim after a step was there before, or has just claimed.
LEMMA PastSteps ==
    ASSUME LaneInv, [Next]_vars, NEW w \in Workers, Past(w)'
    PROVE  /\ workers'[w].job = JobOf(w)
           /\ \/ Past(w)
              \/ At(w, "admit") /\ Claimable(JobOf(w)) /\ workers'[w] # workers[w]
<1>1. CASE workers'[w] = workers[w]
  BY <1>1, Zenon DEF Past, JobOf
<1>2. CASE Moves(w)
  <2>1. workers'[w] # Idle
    BY DEF Past, Idle
  <2>2. ASSUME NEW j \in Job PROVE workers'[w] # [Idle EXCEPT !.at = "admit", !.job = j]
    <3>1. [Idle EXCEPT !.at = "admit", !.job = j].at = "admit"
      BY DEF Idle
    <3>2. QED
      BY <3>1 DEF Past
  <2>3. CASE At(w, "admit") /\ Claimable(JobOf(w)) /\ workers'[w] = [workers[w] EXCEPT !.at = "gates"]
    <3>1. workers'[w].job = JobOf(w) /\ workers'[w].at = "gates"
      BY <2>3 DEF LaneInv, TypeOK, JobOf
    <3>2. QED
      BY <2>3, <3>1 DEF At
  <2>4. QED
    BY <1>2, <2>1, <2>2, <2>3 DEF Moves
<1>3. QED
  BY <1>1, <1>2, WorkerSteps

\* A claim needs a QUEUED row, and no worker past its claim is on one.
LEMMA ExecutorStep == LaneInv /\ [Next]_vars => OneExecutor'
<1> SUFFICES ASSUME LaneInv, [Next]_vars, NEW v \in Workers, NEW w \in Workers,
                    JobOf(v)' = JobOf(w)', Past(v)', Past(w)'
             PROVE v = w
  BY DEF OneExecutor, Past
<1>1. JobOf(v) = JobOf(w)
  BY PastSteps DEF JobOf
<1>2. CASE Past(v) /\ Past(w)
  BY <1>1, <1>2 DEF LaneInv, OneExecutor, Past
<1>3. CASE ~Past(v) /\ ~Past(w)
  <2>1. workers'[v] # workers[v] /\ workers'[w] # workers[w]
    BY <1>3, PastSteps
  <2>2. QED
    BY <2>1, WorkerSteps
<1>4. ASSUME NEW a \in Workers, NEW b \in Workers, JobOf(a) = JobOf(b),
             Past(a), ~Past(b), Past(b)'
      PROVE FALSE
  <2>1. jobs[JobOf(b)].status = "queued"
    BY <1>4, PastSteps DEF Claimable
  <2>2. QED
    BY <1>4, <2>1 DEF LaneInv, HeldInv
<1>5. QED
  BY <1>1, <1>2, <1>3, <1>4

\* The stamp reads the flag in the transaction that publishes.
LEMMA CancelStep == LaneInv /\ [Next]_vars => CancelWins'
<1> SUFFICES ASSUME LaneInv, [Next]_vars, NEW j \in Job
             PROVE  /\ jobs'[j].cancel => jobs'[j].status # "succeeded"
                    /\ jobs'[j].status = "succeeded"
                          <=> \E n \in DOMAIN results' : results'[n].job = j
                    /\ \A m, n \in DOMAIN results' :
                          {results'[m].job, results'[n].job} = {j} => m = n
  BY DEF CancelWins
<1>0. /\ jobs[j].cancel => jobs[j].status # "succeeded"
      /\ jobs[j].status = "succeeded" <=> \E n \in DOMAIN results : results[n].job = j
      /\ \A m, n \in DOMAIN results : {results[m].job, results[n].job} = {j} => m = n
  BY DEF LaneInv, CancelWins
<1>1. RowStep(j)
  BY RowSteps
<1>2. jobs[j].status = "succeeded" => jobs'[j] = jobs[j]
  BY <1>1 DEF RowStep, IsTerminal
<1>3. jobs'[j].cancel => jobs'[j].status # "succeeded"
  BY <1>0, <1>1, <1>2 DEF RowStep
<1>4. CASE UNCHANGED results
  <2>1. jobs'[j].status = "succeeded" => jobs[j].status = "succeeded"
    <3>1. SUFFICES ASSUME NEW w \in Workers, Record(w), JobOf(w) = j, Stamps(j),
                          jobs'[j].status = "succeeded"
                   PROVE FALSE
      BY <1>1 DEF RowStep
    <3>2. results' # Append(results, [job |-> JobOf(w), source |-> StampedSource(w)])
      BY <1>4 DEF LaneInv, TypeOK
    <3>3. UNCHANGED jobs
      BY <3>1, <3>2 DEF Record
    <3>4. QED
      BY <3>1, <3>3 DEF Stamps
  <2>2. QED
    BY <1>0, <1>2, <1>3, <1>4, <2>1
<1>5. CASE results' # results
  <2>1. PICK w \in Workers :
              /\ Record(w) /\ Stamps(JobOf(w)) /\ JobOf(w) \in Job
              /\ jobs'[JobOf(w)].status = "succeeded"
              /\ results' = Append(results, [job |-> JobOf(w), source |-> StampedSource(w)])
    BY <1>5, StepResults
  <2>2. results \in Seq([job : Job, source : 0..MaxEdits])
    BY DEF LaneInv, TypeOK
  <2>3. /\ DOMAIN results' = DOMAIN results \cup {Len(results) + 1}
        /\ \A n \in DOMAIN results : results'[n] = results[n]
        /\ results'[Len(results) + 1].job = JobOf(w)
        /\ Len(results) + 1 \notin DOMAIN results
    BY <2>1, <2>2
  <2>4. CASE JobOf(w) = j
    <3>1. jobs[j].status # "succeeded"
      BY <2>1, <2>4 DEF Stamps
    <3>2. \A n \in DOMAIN results : results[n].job # j
      BY <1>0, <3>1
    <3>3. \E n \in DOMAIN results' : results'[n].job = j
      BY <2>3, <2>4
    <3>4. \A n \in DOMAIN results' : results'[n].job = j => n = Len(results) + 1
      BY <2>3, <3>2
    <3>5. \A m, n \in DOMAIN results' : {results'[m].job, results'[n].job} = {j} => m = n
      <4>1. SUFFICES ASSUME NEW m \in DOMAIN results', NEW n \in DOMAIN results',
                            {results'[m].job, results'[n].job} = {j}
                     PROVE m = n
        OBVIOUS
      <4>2. results'[m].job = j /\ results'[n].job = j
        BY <4>1
      <4>3. QED
        BY <3>4, <4>2
    <3>6. QED
      BY <1>3, <2>1, <2>4, <3>3, <3>5
  <2>5. CASE JobOf(w) # j
    <3>1. jobs'[j].status = "succeeded" => jobs[j].status = "succeeded"
      <4>1. jobs' = [jobs EXCEPT ![JobOf(w)].status = "succeeded"]
        <5>1. results' # results
          BY <1>5
        <5>2. QED
          BY <2>1, <5>1 DEF Record
      <4>2. QED
        BY <2>5, <4>1 DEF LaneInv, TypeOK
    <3>2. (\E n \in DOMAIN results' : results'[n].job = j)
            <=> (\E n \in DOMAIN results : results[n].job = j)
      BY <2>3, <2>5
    <3>3. \A m, n \in DOMAIN results' :
            {results'[m].job, results'[n].job} = {j} => m = n
      BY <1>0, <2>3, <2>5
    <3>4. QED
      BY <1>0, <1>2, <1>3, <3>1, <3>2, <3>3
  <2>6. QED
    BY <2>4, <2>5
<1>6. QED
  BY <1>4, <1>5

\* The source is only ever revised.
LEMMA SourceGrows == LaneInv /\ [Next]_vars => source' >= source
<1> SUFFICES ASSUME LaneInv, [Next]_vars PROVE source' >= source
  OBVIOUS
<1>1. source \in Nat
  BY DEF LaneInv, TypeOK
<1>2. CASE Edit
  BY <1>1, <1>2 DEF Edit
<1>3. CASE UNCHANGED source
  BY <1>1, <1>3
<1>4. QED
  BY <1>2, <1>3 DEF Next, Handle, Create, Sweep, RequestCancel, BoundPasses, Redeliver, Deliver,
         Die, CloseDoor, OpenDoor, Rest, vars, Execute, Claim, CheckGates, Load, Work,
         LastLook, Recheck, Record, Finish

\* What Record publishes is between the generations there and the source.
LEMMA StampBounds ==
    ASSUME LaneInv, NEW w \in Workers, Record(w), Stamps(JobOf(w))
    PROVE  /\ StampedSource(w) \in 0..MaxEdits
           /\ StampedSource(w) <= source
           /\ \A n \in DOMAIN results : results[n].source <= StampedSource(w)
<1>1. workers[w].at \in Working /\ IsActive(JobOf(w))
  BY DEF Record, At, Stamps, Working, IsActive
<1>2. workers[w].source <= source
      /\ \A n \in DOMAIN results : results[n].source <= workers[w].source
  BY <1>1 DEF LaneInv, SourceInv
<1>3. \A n \in DOMAIN results : results[n].source <= source
  BY DEF LaneInv, SourceInv
<1>4. source \in 0..MaxEdits /\ workers[w].source \in 0..MaxEdits
  BY DEF LaneInv, TypeOK
<1>5. QED
  BY <1>2, <1>3, <1>4, LaneAssumption DEF StampedSource

\* The claim of a new active job comes after every earlier generation.
LEMMA SourceStep == LaneInv /\ [Next]_vars => SourceInv'
<1> SUFFICES ASSUME LaneInv, [Next]_vars PROVE SourceInv'
  OBVIOUS
<1>0. /\ source \in Nat /\ source' \in Nat /\ source' >= source
      /\ \A w \in Workers : workers[w].source \in Nat
      /\ results \in Seq([job : Job, source : 0..MaxEdits])
      /\ \A n \in DOMAIN results : results[n].source \in Nat
  <2>1. TypeOK /\ TypeOK'
    BY NextType DEF LaneInv
  <2>2. source' >= source
    BY SourceGrows
  <2>3. 0..MaxEdits \subseteq Nat
    BY LaneAssumption
  <2>4. source \in Nat /\ source' \in Nat
    BY <2>1, <2>3 DEF TypeOK
  <2>5. \A w \in Workers : workers[w].source \in Nat
    BY <2>1, <2>3 DEF TypeOK
  <2>6. results \in Seq([job : Job, source : 0..MaxEdits])
    BY <2>1 DEF TypeOK
  <2>7. \A n \in DOMAIN results : results[n].source \in Nat
    <3> DEFINE Generation == [job : Job, source : 0..MaxEdits]
    <3>1. \A g \in Generation : g.source \in Nat
      BY <2>3
    <3>2. results \in Seq(Generation)
      BY <2>6
    <3> HIDE DEF Generation
    <3>3. \A n \in DOMAIN results : results[n] \in Generation
      BY <3>2
    <3>4. QED
      BY <3>1, <3>3
  <2>8. QED
    BY <2>2, <2>4, <2>5, <2>6, <2>7
<1>1. \A n \in DOMAIN results' : results'[n].source <= source'
  <2>1. CASE UNCHANGED results
    BY <1>0, <2>1 DEF LaneInv, SourceInv
  <2>2. CASE results' # results
    <3>1. PICK w \in Workers :
                /\ Record(w) /\ Stamps(JobOf(w)) /\ UNCHANGED source
                /\ results' = Append(results, [job |-> JobOf(w), source |-> StampedSource(w)])
      BY <2>2, StepResults
    <3>2. StampedSource(w) <= source
      BY <3>1, StampBounds
    <3>3. QED
      BY <1>0, <3>1, <3>2 DEF LaneInv, SourceInv
  <2>3. QED
    BY <2>1, <2>2
<1>2. ASSUME NEW w \in Workers, workers'[w].at \in Working
      PROVE  /\ workers'[w].source <= source'
             /\ IsActive(JobOf(w))' =>
                    \A n \in DOMAIN results' : results'[n].source <= workers'[w].source
  <2>0. Past(w)' /\ workers'[w] # Idle
    BY <1>2 DEF Past, Working, Idle
  <2>1. \/ UNCHANGED results /\ workers'[w].source = source
        \/ workers[w].at \in Working /\ workers'[w].source = workers[w].source
    <3>1. CASE workers'[w] = workers[w]
      BY <1>2, <3>1
    <3>2. CASE Moves(w)
      <4>1. ASSUME NEW j \in Job PROVE workers'[w] # [Idle EXCEPT !.at = "admit", !.job = j]
        <5>1. [Idle EXCEPT !.at = "admit", !.job = j].at = "admit"
          BY DEF Idle
        <5>2. QED
          BY <5>1, <1>2 DEF Working
      <4>2. workers'[w] # [workers[w] EXCEPT !.at = "gates"]
        <5>1. [workers[w] EXCEPT !.at = "gates"].at = "gates"
          BY DEF LaneInv, TypeOK
        <5>2. QED
          BY <5>1, <1>2 DEF Working
      <4>3. QED
        BY <1>2, <2>0, <3>2, <4>1, <4>2 DEF Moves
    <3>3. QED
      BY <3>1, <3>2, WorkerSteps
  <2>2. workers'[w].source <= source'
    <3>1. workers'[w].source <= source
      BY <2>1, <1>0 DEF LaneInv, SourceInv
    <3>2. workers'[w].source \in Nat
      BY <2>1, <1>0
    <3>3. QED
      BY <3>1, <3>2, <1>0
  <2>3. ASSUME IsActive(JobOf(w))' PROVE IsActive(JobOf(w)) /\ JobOf(w) \in Job
    <3>1. workers'[w].job = JobOf(w)
      BY <2>0, PastSteps
    <3>2. JobOf(w) \in Job
      <4>1. ~At(w, "idle")
        BY <2>0, PastSteps DEF Past, At
      <4>2. QED
        BY <4>1 DEF LaneInv, HeldInv
    <3>3. IsActive(JobOf(w)) \/ Create(JobOf(w))
      <4>1. PICK j \in Job : j = JobOf(w)
        BY <3>2
      <4>2. IsActive(j)'
        BY <2>3, <3>1, <4>1 DEF IsActive, JobOf
      <4>3. IsActive(j) \/ Create(j)
        BY <4>2, RowSteps DEF RowStep
      <4>4. QED
        BY <4>1, <4>3
    <3>4. ~Create(JobOf(w))
      <4>1. CASE Past(w)
        BY <4>1 DEF LaneInv, HeldInv, Create
      <4>2. CASE Claimable(JobOf(w))
        BY <4>2 DEF Claimable, Create
      <4>3. QED
        BY <4>1, <4>2, <2>0, PastSteps
    <3>5. QED
      BY <3>2, <3>3, <3>4
  <2>4. CASE UNCHANGED results
    <3>1. CASE workers'[w].source = source
      BY <2>2, <2>4, <3>1 DEF LaneInv, SourceInv
    <3>2. CASE workers[w].at \in Working /\ workers'[w].source = workers[w].source
      BY <2>2, <2>3, <2>4, <3>2 DEF LaneInv, SourceInv
    <3>3. QED
      BY <2>1, <3>1, <3>2
  <2>5. CASE results' # results
    <3>1. PICK v \in Workers :
                /\ Record(v) /\ Stamps(JobOf(v)) /\ JobOf(v) \in Job
                /\ jobs'[JobOf(v)].status = "succeeded"
      BY <2>5, StepResults
    <3>2. ASSUME IsActive(JobOf(w))' PROVE FALSE
      <4>1. IsActive(JobOf(w)) /\ IsActive(JobOf(v)) /\ JobOf(w) \in Job
        BY <2>3, <3>1, <3>2 DEF Stamps, IsActive
      <4>2. JobOf(w) = JobOf(v)
        BY <3>1, <4>1 DEF LaneInv, SlotInv
      <4>3. workers'[w].job = JobOf(w)
        BY <2>0, PastSteps
      <4>4. QED
        BY <3>1, <3>2, <4>2, <4>3 DEF IsActive, JobOf
    <3>3. QED
      BY <2>2, <3>2
  <2>6. QED
    BY <2>4, <2>5
<1>3. QED
  BY <1>1, <1>2 DEF SourceInv

\* The invariant holds initially.
LEMMA InitInv == Init => LaneInv
<1> SUFFICES ASSUME Init PROVE LaneInv
  OBVIOUS
<1>1. TypeOK
  BY InitType
<1>2. /\ \A j \in Job : jobs[j].status = "none"
      /\ \A w \in Workers : workers[w].at = "idle"
      /\ DOMAIN results = {}
  BY DEF Init, NoJob, Idle
<1>3. SlotInv
  BY <1>2 DEF SlotInv, IsActive
<1>4. HeldInv /\ OneExecutor
  BY <1>2 DEF HeldInv, OneExecutor, At, Past
<1>5. SourceInv
  BY <1>2 DEF SourceInv, Working
<1>6. CancelWins
  BY DEF Init, CancelWins, NoJob
<1>7. QED
  BY <1>1, <1>3, <1>4, <1>5, <1>6 DEF LaneInv

\* The invariant is inductive.
LEMMA InvStep == LaneInv /\ [Next]_vars => LaneInv'
BY NextType, SlotStep, HeldStep, ExecutorStep, CancelStep, SourceStep DEF LaneInv

(* The inductive invariant holds in every reachable state.                 *)
THEOREM LaneInvariant == Spec => []LaneInv
BY InitInv, InvStep, PTL DEF Spec

-----------------------------------------------------------------------------
(* The properties.                                                         *)

(* The variables keep their types.                                         *)
THEOREM TypeCorrect == Spec => []TypeOK
<1>1. LaneInv => TypeOK
  BY DEF LaneInv
<1>2. QED
  BY <1>1, LaneInvariant, PTL

(* No two workers execute one job, however often it is delivered.          *)
THEOREM NoDoubleExecution == Spec => []OneExecutor
<1>1. LaneInv => OneExecutor
  BY DEF LaneInv
<1>2. QED
  BY <1>1, LaneInvariant, PTL

(* A job asked to stop publishes nothing, and one that succeeded published *)
(* once.                                                                   *)
THEOREM CancelAlwaysWins == Spec => []CancelWins
<1>1. LaneInv => CancelWins
  BY DEF LaneInv
<1>2. QED
  BY <1>1, LaneInvariant, PTL

(* A terminal row never changes again.                                     *)
THEOREM TerminalRowsAreFinal == Spec => TerminalIsFinal
<1>1. LaneInv /\ [Next]_vars => [\A j \in Job : IsTerminal(j) => jobs'[j] = jobs[j]]_vars
  BY RowSteps DEF RowStep
<1>2. QED
  BY <1>1, LaneInvariant, PTL DEF Spec, TerminalIsFinal

-----------------------------------------------------------------------------
(* The lane implements the board.                                          *)

Slate == [j \in Job |-> BoardOf(j)]

\* A row that stays active, or keeps its status, says the same to the board.
LEMMA SameCard ==
    ASSUME NEW j \in Job,
           \/ jobs'[j].status = jobs[j].status
           \/ IsActive(j) /\ IsActive(j)'
    PROVE  BoardOf(j)' = BoardOf(j)
<1>1. CASE jobs'[j].status = jobs[j].status
  BY <1>1 DEF BoardOf, IsActive
<1>2. CASE IsActive(j) /\ IsActive(j)'
  BY <1>2 DEF BoardOf, IsActive
<1>3. QED
  BY <1>1, <1>2

\* Rows that all say the same leave the board as it is.
LEMMA SameSlate ==
    ASSUME \A i \in Job : BoardOf(i)' = BoardOf(i), UNCHANGED results
    PROVE  UNCHANGED Board!bvars
<1>1. UNCHANGED Slate
  BY DEF Slate
<1>2. QED
  BY <1>1 DEF Slate, Board!bvars

\* One row at most changes in a step.
LEMMA OneCard ==
    ASSUME LaneInv, NEW j \in Job, NEW r, jobs' = [jobs EXCEPT ![j] = r], NEW c, BoardOf(j)' = c
    PROVE  Slate' = [Slate EXCEPT ![j] = c]
<1>1. ASSUME NEW i \in Job, i # j PROVE BoardOf(i)' = BoardOf(i)
  <2>1. jobs'[i] = jobs[i]
    BY <1>1 DEF LaneInv, TypeOK
  <2>2. QED
    BY <2>1, SameCard
<1>2. QED
  BY <1>1 DEF Slate

\* A created job opens one of the board.
LEMMA CreateOpens ==
    ASSUME LaneInv, NEW j \in Job, Create(j)
    PROVE  Board!OpenJob(j)
<1>1. jobs' = [jobs EXCEPT ![j] = [jobs[j] EXCEPT !.status = "queued"]]
  BY DEF Create
<1>2. BoardOf(j)' = "open"
  <2>1. jobs'[j].status = "queued"
    BY <1>1 DEF LaneInv, TypeOK
  <2>2. QED
    BY <2>1 DEF BoardOf, IsActive
<1>3. Slate' = [Slate EXCEPT ![j] = "open"]
  BY <1>1, <1>2, OneCard
<1>4. BoardOf(j) = "unasked" /\ \A i \in Job : BoardOf(i) # "open"
  BY DEF Create, SlotTaken, BoardOf
<1>5. UNCHANGED results
  BY DEF Create
<1>6. QED
  BY <1>3, <1>4, <1>5 DEF Board!OpenJob, Slate

\* A row that leaves the active states without succeeding.
LEMMA RowDrops ==
    ASSUME LaneInv, NEW j \in Job, NEW r, jobs' = [jobs EXCEPT ![j] = r], UNCHANGED results,
           IsActive(j), r.status \in {"failed", "cancelled"}
    PROVE  Board!DropJob(j)
<1>1. BoardOf(j)' = "dropped"
  <2>1. jobs'[j] = r
    BY DEF LaneInv, TypeOK
  <2>2. QED
    BY <2>1 DEF BoardOf, IsActive
<1>2. Slate' = [Slate EXCEPT ![j] = "dropped"]
  BY <1>1, OneCard
<1>3. BoardOf(j) = "open"
  BY DEF BoardOf, IsActive
<1>4. QED
  BY <1>2, <1>3 DEF Board!DropJob, Slate

\* A row that stays active.
LEMMA RowStays ==
    ASSUME LaneInv, NEW j \in Job, NEW r, jobs' = [jobs EXCEPT ![j] = r], UNCHANGED results,
           \/ r.status = jobs[j].status
           \/ IsActive(j) /\ r.status \in {"queued", "running"}
    PROVE  UNCHANGED Board!bvars
<1>1. \A i \in Job : BoardOf(i)' = BoardOf(i)
  <2> SUFFICES ASSUME NEW i \in Job PROVE BoardOf(i)' = BoardOf(i)
    OBVIOUS
  <2>1. jobs'[i] = IF i = j THEN r ELSE jobs[i]
    BY DEF LaneInv, TypeOK
  <2>2. QED
    BY <2>1, SameCard DEF IsActive
<1>2. QED
  BY <1>1, SameSlate

\* A cancel drops the job, or leaves it open until its worker sees the flag.
LEMMA CancelMaps ==
    ASSUME LaneInv, NEW j \in Job, RequestCancel(j)
    PROVE  Board!DropJob(j) \/ UNCHANGED Board!bvars
<1>1. jobs' = [jobs EXCEPT ![j] = CancelledRow(j)] /\ UNCHANGED results /\ IsActive(j)
  BY DEF RequestCancel
<1>2. CancelledRow(j).status \in {"cancelled", jobs[j].status}
  BY DEF LaneInv, TypeOK, CancelledRow
<1>3. CASE CancelledRow(j).status = "cancelled"
  BY <1>1, <1>3, RowDrops
<1>4. CASE CancelledRow(j).status = jobs[j].status
  BY <1>1, <1>4, RowStays
<1>5. QED
  BY <1>2, <1>3, <1>4

\* A verdict on an active row drops the job; on another it writes nothing.
LEMMA FinishMaps ==
    ASSUME LaneInv, NEW w \in Workers, Finish(w)
    PROVE  (\E j \in Job : Board!DropJob(j)) \/ UNCHANGED Board!bvars
<1>1. PICK j \in Job : j = JobOf(w)
  BY DEF LaneInv, HeldInv, Finish, At
<1>2. UNCHANGED results
  BY DEF Finish
<1>3. CASE Finishes(j)
  <2>1. jobs' = [jobs EXCEPT ![j] = FinishedRow(w, jobs[j])]
    BY <1>1, <1>3 DEF Finish
  <2>2. FinishedRow(w, jobs[j]).status \in {"failed", "cancelled"}
    BY DEF FinishedRow, LaneInv, TypeOK, Verdict
  <2>3. QED
    BY <1>2, <1>3, <2>1, <2>2, RowDrops DEF Finishes
<1>4. CASE ~Finishes(j)
  <2>1. jobs' = [jobs EXCEPT ![j] = jobs[j]]
    BY <1>1, <1>4 DEF Finish
  <2>2. QED
    BY <1>2, <2>1, RowStays
<1>5. QED
  BY <1>3, <1>4

\* A generation that is recorded keeps its job.
LEMMA RecordMaps ==
    ASSUME LaneInv, NEW w \in Workers, Record(w)
    PROVE  (\E j \in Job, s \in 0..MaxEdits : Board!Keep(j, s)) \/ UNCHANGED Board!bvars
<1>1. PICK j \in Job : j = JobOf(w)
  BY DEF LaneInv, HeldInv, Record, At
<1>2. CASE UNCHANGED <<results, jobs>>
  <2>1. \A i \in Job : BoardOf(i)' = BoardOf(i)
    BY <1>2, SameCard
  <2>2. QED
    BY <1>2, <2>1, SameSlate
<1>3. CASE /\ Stamps(JobOf(w))
           /\ results' = Append(results, [job |-> JobOf(w), source |-> StampedSource(w)])
           /\ jobs' = [jobs EXCEPT ![JobOf(w)].status = "succeeded"]
  <2>1. PICK s \in 0..MaxEdits :
              /\ s = StampedSource(w)
              /\ \A n \in DOMAIN results : results[n].source <= s
    BY <1>3, StampBounds
  <2>2. jobs' = [jobs EXCEPT ![j] = [jobs[j] EXCEPT !.status = "succeeded"]]
    BY <1>1, <1>3
  <2>3. BoardOf(j)' = "kept"
    <3>1. jobs'[j].status = "succeeded"
      BY <2>2 DEF LaneInv, TypeOK
    <3>2. QED
      BY <3>1 DEF BoardOf, IsActive
  <2>4. Slate' = [Slate EXCEPT ![j] = "kept"]
    BY <2>2, <2>3, OneCard
  <2>5. BoardOf(j) = "open"
    BY <1>1, <1>3 DEF BoardOf, Stamps, IsActive
  <2>6. results' = Append(results, [job |-> j, source |-> s])
    BY <1>1, <1>3, <2>1
  <2>7. Board!Keep(j, s)
    BY <2>1, <2>4, <2>5, <2>6 DEF Board!Keep, Slate
  <2>8. QED
    BY <2>7
<1>4. QED
  BY <1>2, <1>3 DEF Record

\* Every step of the lane is a step of the board, or leaves it as it is.
LEMMA StepMaps == LaneInv /\ [Next]_vars => [Board!BoardNext]_(Board!bvars)
<1> SUFFICES ASSUME LaneInv, [Next]_vars
             PROVE  Board!BoardNext \/ UNCHANGED Board!bvars
  OBVIOUS
<1>1. ASSUME NEW j \in Job, Create(j) PROVE Board!BoardNext
  BY <1>1, CreateOpens DEF Board!BoardNext
<1>2. ASSUME NEW j \in Job, RequestCancel(j)
      PROVE  Board!BoardNext \/ UNCHANGED Board!bvars
  BY <1>2, CancelMaps DEF Board!BoardNext
<1>3. ASSUME NEW j \in Job, BoundPasses(j) PROVE UNCHANGED Board!bvars
  <2>1. jobs' = [jobs EXCEPT ![j] = [jobs[j] EXCEPT !.overdue = TRUE]] /\ UNCHANGED results
    BY <1>3 DEF BoundPasses
  <2>2. [jobs[j] EXCEPT !.overdue = TRUE].status = jobs[j].status
    BY DEF LaneInv, TypeOK
  <2>3. QED
    BY <2>1, <2>2, RowStays
<1>4. ASSUME NEW w \in Workers, Claim(w) PROVE UNCHANGED Board!bvars
  <2>1. UNCHANGED results
    BY <1>4 DEF Claim
  <2>2. CASE UNCHANGED jobs
    <3>1. \A i \in Job : BoardOf(i)' = BoardOf(i)
      BY <2>2, SameCard
    <3>2. QED
      BY <2>1, <3>1, SameSlate
  <2>3. CASE ~UNCHANGED jobs
    <3>1. PICK j \in Job : j = JobOf(w)
      BY <1>4 DEF LaneInv, HeldInv, Claim, At
    <3>2. jobs' = [jobs EXCEPT ![j] = [jobs[j] EXCEPT !.status = "running"]] /\ IsActive(j)
      BY <1>4, <2>3, <3>1 DEF Claim, Claimable, IsActive
    <3>3. [jobs[j] EXCEPT !.status = "running"].status = "running"
      BY DEF LaneInv, TypeOK
    <3>4. QED
      BY <2>1, <3>2, <3>3, RowStays
  <2>4. QED
    BY <2>2, <2>3
<1>5. ASSUME NEW w \in Workers, Record(w) PROVE Board!BoardNext \/ UNCHANGED Board!bvars
  BY <1>5, RecordMaps DEF Board!BoardNext
<1>6. ASSUME NEW w \in Workers, Finish(w) PROVE Board!BoardNext \/ UNCHANGED Board!bvars
  BY <1>6, FinishMaps DEF Board!BoardNext
<1>7. CASE UNCHANGED <<jobs, results>>
  <2>1. \A i \in Job : BoardOf(i)' = BoardOf(i)
    BY <1>7, SameCard
  <2>2. QED
    BY <1>7, <2>1, SameSlate
<1>8. QED
  BY <1>1, <1>2, <1>3, <1>4, <1>5, <1>6, <1>7
  DEF Next, Handle, Sweep, Redeliver, Deliver, Die, Edit, CloseDoor, OpenDoor, Rest, vars,
      Execute, CheckGates, Load, Work, LastLook, Recheck

(* The lane keeps the promise of the board: one open job in the slot, one  *)
(* generation per kept job, and no generation made from an older source    *)
(* than one before it, for any number of workers, jobs, edits and faults.  *)
THEOREM LaneImplementsBoard == Spec => ImplementsJobBoard
<1>1. Init => Board!BoardInit
  <2>1. Init => \A j \in Job : jobs[j].status = "none"
    BY DEF Init, NoJob
  <2>2. Init => \A j \in Job : BoardOf(j) = "unasked"
    BY <2>1 DEF BoardOf, IsActive
  <2>3. QED
    BY <2>2 DEF Init, Board!BoardInit
<1>2. QED
  BY <1>1, StepMaps, LaneInvariant, PTL DEF Spec, ImplementsJobBoard, Board!BoardSpec

-----------------------------------------------------------------------------
(* What the promise of the board amounts to in the lane. *)

Promise == INSTANCE JobBoardProofs WITH
    Source <- 0..MaxEdits, board <- [j \in Job |-> BoardOf(j)], shelf <- results

\* The lane's board is typed, and its step is a step of the instance whose
\* promises JobBoardProofs proves.
LEMMA PromiseStep ==
    ASSUME Promise!BoardInv, [Board!BoardNext]_(Board!bvars)
    PROVE  Promise!BoardInv'
<1>1. 0 .. MaxEdits \subseteq Nat
  OBVIOUS
<1>2. [Promise!BoardNext]_(Promise!bvars)
  BY DEF Board!BoardNext, Board!OpenJob, Board!DropJob, Board!Keep, Board!bvars,
         Promise!BoardNext, Promise!OpenJob, Promise!DropJob, Promise!Keep, Promise!bvars
<1>3. QED
  BY <1>1, <1>2, Promise!BoardStep

LEMMA PromiseStart == Init => Promise!BoardInv
<1> SUFFICES ASSUME Init PROVE Promise!BoardInv
  OBVIOUS
<1>1. \A j \in Job : BoardOf(j) = "unasked"
  BY DEF Init, NoJob, BoardOf, IsActive
<1>2. results = <<>>
  BY DEF Init
<1>3. Promise!BoardTypeOK
  BY <1>1, <1>2 DEF Promise!BoardTypeOK
<1>4. Promise!OneResultPerKept /\ Promise!SourcesInOrder
  BY <1>1, <1>2 DEF Promise!OneResultPerKept, Promise!SourcesInOrder
<1>5. QED
  BY <1>3, <1>4 DEF Promise!BoardInv

(* Whatever workers, edits, redeliveries, cancels and crashes do: a job     *)
(* that succeeded with something to keep has written one generation, no     *)
(* other job has written any, and a newer generation was never made from    *)
(* an older transcript than the one before it.                              *)
THEOREM LaneKeepsItsPromise == Spec => [](Board!OneResultPerKept /\ Board!SourcesInOrder)
<1>1. Promise!BoardInv => Board!OneResultPerKept /\ Board!SourcesInOrder
  BY DEF Promise!BoardInv, Promise!OneResultPerKept, Promise!SourcesInOrder,
         Board!OneResultPerKept, Board!SourcesInOrder
<1>2. LaneInv /\ Promise!BoardInv /\ [Next]_vars => Promise!BoardInv'
  BY StepMaps, PromiseStep
<1>3. QED
  BY <1>1, <1>2, PromiseStart, LaneInvariant, PTL DEF Spec

=============================================================================
