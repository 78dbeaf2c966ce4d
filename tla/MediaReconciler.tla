--------------------------- MODULE MediaReconciler ----------------------------
(***************************************************************************)
(* The reconciler beat over MediaExecutor's operations, and everything     *)
(* that goes wrong around both: deaths, filesystem errors, leases that run *)
(* out, files that somebody else adds or deletes.                          *)
(*                                                                         *)
(* A pass claims a row and commits, locks the row again, reads pointer and *)
(* filesystem (Inspect), and acts on what it read by the decision table    *)
(* of ADR 0007 (Verdict).  The row lock lasts from Inspect to the first    *)
(* commit; the files are nobody's to lock.                                 *)
(***************************************************************************)
EXTENDS MediaExecutor

\* reconcile_operations' selection and _process_one's claim.
Claim(a, o) ==
    /\ At(a, "idle")
    /\ Active(o) /\ (ops[o].state = "awaiting_retry" => ops[o].due)
    /\ Claimable(o) /\ Open(a, o)
    /\ SetRow(o, [ops[o] EXCEPT !.owner = a, !.live = TRUE])
    /\ Become(a, [Idle EXCEPT !.pc = "relock", !.op = o])
    /\ UNCHANGED <<media, files, manifest, stager, runs, far, env>>

\* The state a row is worked on from (_reenter_retry for a waiting one).
Reentered(row) ==
    IF row.state # "awaiting_retry" THEN row.state
    ELSE IF row.lost \/ PointerOf(row) = "destination" THEN "fs_applied" ELSE "planned"

ViewOf(o) ==
    [pointer |-> PointerOf(ops[o]), origin |-> files[ops[o].origin],
     dest |-> files[ops[o].dest], temp |-> files[Temp(o)]]

\* Faulty variant of PurgeEntry: nothing handles a purge that waited.
PurgeEntryUnhandled(state) ==
    CASE state = "planned" -> "manifest"
      [] state = "fs_applied" -> "purged"
      [] state = "db_applied" -> "finish"
      [] OTHER -> state

\* Where execute_purge resumes.
PurgeEntry(state) ==
    CASE state = "fs_applied" -> "purged"
      [] state = "db_applied" -> "finish"
      [] OTHER -> "manifest"

\* _process_one's second look, under the lock.
StillMine(a, o) == Active(o) /\ ops[o].owner = a

Inspect(a) ==
    /\ At(a, "relock") /\ Open(a, OpOf(a))
    /\ LET o == OpOf(a)
       IN IF ~StillMine(a, o)
          THEN Leave(a) /\ UNCHANGED ops
          ELSE /\ SetRow(o, [ops[o] EXCEPT !.held = a])
               /\ Become(a, IF ops[o].kind = "purge"
                    THEN [actors[a] EXCEPT !.pc = PurgeEntry(ops[o].state),
                                           !.from = ops[o].state, !.role = "reconciler"]
                    ELSE [actors[a] EXCEPT !.pc = "decide", !.view = ViewOf(o),
                                           !.from = Reentered(ops[o])])
    /\ UNCHANGED <<media, files, manifest, stager, runs, far, env>>

-----------------------------------------------------------------------------
(* _apply_table.  No caller records a digest when it plans, so the digest  *)
(* a destination is compared with is the one of the origin, if it exists.  *)

There(content) == content # "none"

DigestMatches(v) == There(v.origin) /\ v.dest = v.origin

\* _destination_owned: operations always name a destination of their own.
VerdictPlanned(v) ==
    IF v.pointer = "other" THEN "fail"                                  \* R7
    ELSE IF v.pointer = "destination"
    THEN IF DigestMatches(v) THEN "close" ELSE "fail"                   \* R6
    ELSE IF There(v.dest)
    THEN IF DigestMatches(v) THEN "forward" ELSE "fail"                 \* R3, R5
    ELSE IF There(v.origin) THEN "execute" ELSE "park"                  \* R1, R2, R4, R4a

VerdictFsApplied(v) ==
    IF v.pointer = "other" THEN "scrap"                                 \* R13
    ELSE IF v.pointer = "destination"
    THEN IF DigestMatches(v) THEN "clean" ELSE "fail"                   \* R9, R10
    ELSE IF There(v.dest)
    THEN IF DigestMatches(v) THEN "forward" ELSE "fail"                 \* R8
    ELSE IF There(v.temp)
    THEN IF v.temp = v.origin THEN "relink" ELSE "scrap"                \* R11
    ELSE IF There(v.origin) THEN "lost" ELSE "fail"                     \* R12

VerdictDbApplied(v) ==
    IF v.pointer = "destination" /\ There(v.dest) THEN "clean" ELSE "fail" \* R14 - R16

Verdict(state, v) ==
    CASE state = "planned" -> VerdictPlanned(v)
      [] state = "fs_applied" -> VerdictFsApplied(v)
      [] OTHER -> VerdictDbApplied(v)

Decided(a, verdict) == At(a, "decide") /\ Verdict(actors[a].from, actors[a].view) = verdict

\* A leftover temp file is removed under the lease or the pass is over; a
\* superseded or corrupt move asks for the lease whatever it saw there.
SparesTemp(a) ==
    /\ There(actors[a].view.temp) \/ Decided(a, "scrap")
    /\ ~LeaseStillHeld(a, OpOf(a))

WithoutTemp(a) ==
    IF There(actors[a].view.temp) THEN FilePut(Temp(OpOf(a)), "none") ELSE files

Commit(a, row) == SetRow(OpOf(a), row) /\ Leave(a)

GiveUp(a) == Decided(a, "fail") /\ Commit(a, Moved(RowOf(a), "failed")) /\ UNCHANGED files

\* R4, R4a, R12 and R13 / R11's corrupt temp.
Shelve(a) ==
    \/ /\ Decided(a, "lost")
       /\ Commit(a, Parked(RowOf(a), TRUE)) /\ UNCHANGED files
    \/ /\ Decided(a, "park") /\ ~SparesTemp(a)
       /\ Commit(a, Parked(RowOf(a), FALSE)) /\ files' = WithoutTemp(a)

Scrap(a) ==
    /\ Decided(a, "scrap") /\ ~SparesTemp(a)
    /\ Commit(a, Moved(RowOf(a), "failed")) /\ files' = FilePut(Temp(OpOf(a)), "none")

LeaveTemp(a) ==
    /\ SparesTemp(a)
    /\ Decided(a, "park") \/ Decided(a, "scrap") \/ Decided(a, "execute")
    /\ Rollback(a) /\ Leave(a) /\ UNCHANGED files

\* R1, R2: the executor, inside this transaction.
Restart(a) ==
    /\ Decided(a, "execute") /\ ~SparesTemp(a)
    /\ Become(a, [actors[a] EXCEPT !.pc = "publish", !.view = NoView])
    /\ files' = WithoutTemp(a) /\ UNCHANGED ops

\* R6, R9, R14: nothing left but the cleanup.
CleanUp(a) ==
    /\ Become(a, [actors[a] EXCEPT !.role = "reconciler", !.view = NoView,
                     !.pc = IF Decided(a, "close") THEN "finish" ELSE "check"])
    /\ Decided(a, "close") \/ Decided(a, "clean")
    /\ UNCHANGED <<ops, files>>

\* R11: os.link raises, the temp file is no longer there.
RelinkFails(a) ==
    /\ Decided(a, "relink") /\ files[Temp(OpOf(a))] = "none"
    /\ Goto(a, "rescue") /\ Rollback(a) /\ UNCHANGED files

\* R3, R5, R8, R11 (_pointer_then_complete): the pointer moves and commits;
\* trashed_at waits for the completion.  Only R11 looks at the files again.
RollForward(a) ==
    LET row == RowOf(a)
        relinked == IF Decided(a, "relink") /\ files[row.dest] = "none"
                    THEN FilePut(row.dest, files[Temp(OpOf(a))]) ELSE files
    IN /\ Decided(a, "forward") \/ (Decided(a, "relink") /\ There(files[Temp(OpOf(a))]))
       /\ files' = relinked
       /\ IF /\ media.path = row.origin
             /\ Decided(a, "relink") => relinked[row.dest] = actors[a].view.origin
          THEN /\ media' = [media EXCEPT !.path = row.dest]
               /\ SetRow(OpOf(a), Moved(row, "db_applied"))
               /\ Become(a, [actors[a] EXCEPT !.pc = "check", !.from = "db_applied",
                                              !.role = "reconciler", !.view = NoView])
          ELSE Commit(a, Moved(row, "failed")) /\ UNCHANGED media

\* _process_one's except clause, in a session of its own.
Rescue(a) ==
    /\ At(a, "rescue") /\ Open(a, OpOf(a))
    /\ LET o == OpOf(a)  mine == [Parked(ops[o], FALSE) EXCEPT !.owner = a]
       IN IF Active(o) /\ Claimable(o) THEN SetRow(o, [mine EXCEPT !.live = TRUE])
          ELSE IF Active(o) /\ ops[o].owner = a THEN SetRow(o, mine)
          ELSE UNCHANGED ops
    /\ Leave(a) /\ UNCHANGED <<media, files>>

Act(a) ==
    /\ \/ /\ GiveUp(a) \/ Shelve(a) \/ Scrap(a) \/ LeaveTemp(a) \/ Restart(a)
             \/ CleanUp(a) \/ RelinkFails(a)
          /\ UNCHANGED media
       \/ RollForward(a)
       \/ Rescue(a)
    /\ UNCHANGED <<manifest, stager, runs, far, env>>

-----------------------------------------------------------------------------
(* The environment. *)

\* A filesystem call raises.  The executor records the error from the state it
\* had committed; the reconciler's own code rolls back and is rescued.
Stumble(a) ==
    /\ Meets("fault")
    /\ \/ /\ actors[a].pc \in {"publish", "copy", "stage", "link", "unstage", "clean", "sweep"}
          /\ actors[a].role = "executor"
          /\ Goto(a, "try_later") \/ Goto(a, "give_up")
          /\ UNCHANGED ops
       \/ /\ At(a, "point") /\ actors[a].from = "planned"   \* fsync after the link
          /\ Goto(a, "try_later") \/ Goto(a, "give_up")
          /\ UNCHANGED ops
       \/ /\ actors[a].pc \in {"decide", "clean", "sweep"}
          /\ At(a, "decide") \/ actors[a].role = "reconciler"
          /\ Goto(a, "rescue") /\ Rollback(a)
    /\ UNCHANGED <<media, files, manifest, stager, runs, far>>

\* The process dies: its open transaction is rolled back, its files stay.
Crash(a) ==
    /\ ~At(a, "idle") /\ Meets("crash")
    /\ Leave(a)
    /\ IF OpOf(a) = 0 THEN UNCHANGED ops ELSE Rollback(a)
    /\ UNCHANGED <<media, files, manifest, stager, runs, far>>

Busy(o) == \E a \in Actors : OpOf(a) = o /\ ops[o].owner = a

\* Past the lease check, before the unlinks it guards.
Committed(o) == \E a \in Actors : /\ OpOf(a) = o /\ ops[o].owner = a
                                  /\ actors[a].pc \in {"clean", "sweep"}

LeaseExpires(o) ==
    /\ Active(o) /\ ops[o].live
    /\ Prompt => ~Committed(o)
    /\ IF Busy(o) THEN Meets("slow") ELSE UNCHANGED env
    /\ SetRow(o, [ops[o] EXCEPT !.live = FALSE])
    /\ UNCHANGED <<media, files, manifest, stager, runs, actors, far>>

\* next_attempt_at is reached.
RetryDue(o) ==
    /\ ops[o].state = "awaiting_retry" /\ ~ops[o].due
    /\ SetRow(o, [ops[o] EXCEPT !.due = TRUE])
    /\ UNCHANGED <<media, files, manifest, stager, runs, actors, far, env>>

\* Somebody else deletes a file, or puts a new one where the recording was.
Outside ==
    /\ Meets("outside")
    /\ \/ \E p \in Path : files[p] # "none" /\ files' = FilePut(p, "none")
       \/ files[Home] = "none" /\ files' = FilePut(Home, "foreign")
    /\ UNCHANGED <<media, ops, manifest, stager, runs, actors, far>>

Reconcile(a) == Inspect(a) \/ Act(a)

Work(a) == Execute(a) \/ Reconcile(a)

\* The system at rest: nothing asked, nothing in hand.
Rest ==
    /\ env.requests = 0 /\ ~HasActiveOperation /\ ~HasActiveRun
    /\ \A a \in Actors : At(a, "idle")
    /\ UNCHANGED vars

Next ==
    \/ \E a \in Actors : Request(a) \/ Work(a) \/ Stumble(a) \/ Crash(a)
    \/ \E a \in Actors, o \in Op : Claim(a, o)
    \/ \E o \in Op : LeaseExpires(o) \/ RetryDue(o)
    \/ RunEnds \/ RunReopens \/ Outside \/ Rest

Spec == Init /\ [][Next]_vars

\* Every actor goes on, leases run out, retries fall due, the beat beats.
Fairness ==
    /\ \A a \in Actors : WF_vars(Work(a))
    /\ \A o \in Op : /\ WF_vars(\E a \in Actors : Claim(a, o))
                     /\ WF_vars(~Busy(o) /\ LeaseExpires(o))
                     /\ WF_vars(RetryDue(o))

FairSpec == Spec /\ Fairness

-----------------------------------------------------------------------------
(* Properties. *)

SeenType == [kind : Kind, path : Path \cup {Nowhere}, trashed : BOOLEAN, purged : BOOLEAN,
             dest : Path \cup {Nowhere}]

ViewType == [pointer : {"origin", "destination", "other"}, origin : Content,
             dest : Content, temp : Content]

ProgramPoint ==
    {"idle", "choose", "plan", "admit", "publish", "copy", "stage", "link", "unstage",
     "apply", "point", "check", "clean", "sweep", "finish", "collide", "try_later",
     "give_up", "manifest", "children", "erase", "record", "converge", "purged",
     "relock", "decide", "rescue"}

ActorType ==
    [pc : ProgramPoint, op : Op \cup {0}, role : {"executor", "reconciler"},
     from : OperationState, seen : SeenType, view : ViewType, todo : SUBSET Part,
     part : Part, outcome : PartStatus]

RowType ==
    [kind : Kind, state : OperationState, origin : Path \cup {Nowhere},
     dest : Path \cup {Nowhere}, owner : Actors \cup {NoOne}, live : BOOLEAN,
     due : BOOLEAN, lost : BOOLEAN, held : Actors \cup {NoOne}]

EnvType == [requests : 0..MaxRequests, trouble : 0..MaxTrouble, met : SUBSET Troubles]

TypeOK ==
    /\ media \in [path : Path \cup {Nowhere}, trashed : BOOLEAN, purged : BOOLEAN]
    /\ ops \in [Op -> RowType]
    /\ files \in [Path -> Content]
    /\ manifest \in [Op -> [Part -> PartStatus]]
    /\ stager \in [Op -> Actors \cup {NoOne}]
    /\ runs \subseteq Entry
    /\ actors \in [Actors -> ActorType]
    /\ far \in BOOLEAN
    /\ env \in EnvType

Untouched == Spared("outside")
PurgePlanned == \E o \in Op : ops[o].kind = "purge"

\* A restore was planned of a recording that is already where it belongs.
InPlace == \E o \in Op : ops[o].kind = "restore" /\ ops[o].dest = ops[o].origin

\* What voids the promise of MediaCopies.
Freed == PurgePlanned \/ InPlace \/ ~Untouched

(* "This closes both the executor-versus-executor race and the             *)
(* move-versus-run race" (ADR 0007:123): at most one operation of an item  *)
(* is in flight, one waiting for its retry included, and none beside a run *)
(* a submit admitted (has_active_operation and has_active_run under the    *)
(* media row's lock).  A run that had ended and is queued again            *)
(* (RunReopens) can stand beside an operation: nothing asks for either.    *)
ItemTakenOnce ==
    /\ \A o, p \in Op : Active(o) /\ Active(p) => o = p
    /\ "admitted" \in runs => ~HasActiveOperation

(* "Restore is a journaled move back to the recorded original location"    *)
(* (ADR 0007:258).  It is not: a trash planned on a stale trashed_at is    *)
(* planned from the trash tree, and its restore returns the file there.    *)
(* The next two properties say what holds apart from that.                 *)
RestoreReturnsHome ==
    \A o \in Op : ops[o].kind = "restore" => ops[o].dest = Home

(* Between operations the trash flag says where the recording is, whoever  *)
(* finished the last one, the executor or the reconciler after its death.  *)
FlagFollowsPointer ==
    /\ Spared("fault") /\ Untouched /\ ~InPlace
    /\ ~HasActiveOperation /\ ~media.purged
    /\ \A o \in Op : ops[o].kind = "trash" => ops[o].origin = Home
    => (media.trashed <=> media.path # Home)

(* A purge of a trash path that is over leaves no file of its manifest     *)
(* behind, after retries of children that failed and deaths between an     *)
(* unlink and its record.  (An executor that outlived its lease may still  *)
(* link a new name; a path outside the trash tree may be taken again.)     *)
PurgedLeavesNothing ==
    media.purged /\ Spared("slow") /\ RestoreReturnsHome =>
        \A o \in Op :
            /\ ops[o].kind = "purge" /\ ops[o].origin # Home
            /\ ops[o].state \in {"db_applied", "completed"}
            => \A p \in Part : files[PartPath(o, p)] = "none"

(* "the system never creates a window where its own operations leave both  *)
(* the origin absent and the destination unverified" (ADR 0007:45): until  *)
(* a purge, or somebody else's hand, the pointer names the recording.      *)
PointerNamesRecording ==
    PurgePlanned \/ ~Untouched \/ files[media.path] = "recording"

(* "A stale actor whose CAS returns zero rows affected knows it lost the   *)
(* race and aborts without further side effects" (ADR 0007:97): a step of  *)
(* an actor another one took the operation from changes neither the        *)
(* operation's state nor the recording's row.                              *)
StaleActorWritesNothing ==
    [][\A a \in Actors :
           /\ actors'[a] # actors[a] /\ OpOf(a) # 0
           /\ RowOf(a).owner # a /\ ~At(a, "rescue")
           => media' = media /\ ops'[OpOf(a)].state = RowOf(a).state]_vars

(* "Filesystem publication (durable, no-clobber)" (the plan of the journaled  *)
(* operations, docs/plans/2026-08-26-16-02:103): whatever an executor or a *)
(* reconciler saw before it wrote, a recording or a file of somebody else  *)
(* keeps its content for as long as it keeps its name.                     *)
Whole(content) == content \in {"recording", "foreign"}

NothingClobbered ==
    [][\A p \in Path : Whole(files[p]) => files'[p] \in {files[p], "none"}]_vars

(* The journal keeps the promise of MediaCopies: copies come from copies,  *)
(* the pointer moves only onto a copy and its copy is never unlinked.      *)
Copies == INSTANCE MediaCopies
    WITH Place <- Path \ {Derived}, Start <- Home,
         where <- media.path,
         copies <- {p \in Path \ {Derived} : files[p] = "recording"},
         freed <- Freed

ImplementsCopies == Copies!CopiesSpec

(* "Drive interrupted media operations to a consistent terminal state"     *)
(* (worker/tasks.py:695): no operation stays in flight for ever, unless    *)
(* files went missing under it.                                            *)
EveryOperationEnds == \A o \in Op : Active(o) ~> (~Active(o) \/ ~Untouched)
=============================================================================
