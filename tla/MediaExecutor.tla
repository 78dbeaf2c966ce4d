---------------------------- MODULE MediaExecutor -----------------------------
(***************************************************************************)
(* Console requests on one recording: trash, restore and empty-trash, the  *)
(* admission of a pipeline run, and the executor that carries a planned    *)
(* operation through publication, pointer move and cleanup.                *)
(***************************************************************************)
EXTENDS MediaJournal

-----------------------------------------------------------------------------
(* Requests.  plan_trash and plan_restore read the media row before they   *)
(* lock it, and the locked query returns the instance already read, so     *)
(* what they check later is `seen`.                                        *)

Ask(a, pc, seen) ==
    /\ At(a, "idle") /\ env.requests > 0
    /\ Become(a, [Idle EXCEPT !.pc = pc, !.seen = seen])
    /\ env' = [env EXCEPT !.requests = @ - 1]
    /\ UNCHANGED <<media, ops, files, manifest, stager, runs, far>>

SeenAs(kind, dest) ==
    [kind |-> kind, path |-> media.path, trashed |-> media.trashed,
     purged |-> media.purged, dest |-> dest]

Trashed(o) == ops[o].kind = "trash" /\ ops[o].state = "completed"

\* The last completed trash of the item.
LatestTrash(o) == Trashed(o) /\ \A p \in Op : Trashed(p) => p <= o

AskTrash(a) == media.path # Nowhere /\ Ask(a, "plan", SeenAs("trash", Nowhere))

AskRestore(a) ==
    media.trashed /\ media.path # Nowhere /\ Ask(a, "choose", SeenAs("restore", Nowhere))

AskRun(a) == Ask(a, "admit", SeenAs("none", Nowhere))

\* restore_media's query: where the last completed trash took the item from.
ChooseTrash(a) ==
    /\ At(a, "choose")
    /\ \/ /\ ~\E o \in Op : Trashed(o)
          /\ Leave(a)
       \/ \E o \in Op : /\ LatestTrash(o)
                        /\ Become(a, [actors[a] EXCEPT !.pc = "plan",
                                                       !.seen.dest = ops[o].origin])
    /\ UNCHANGED <<media, ops, files, manifest, stager, runs, far, env>>

\* The journal row an insert creates.
Fresh(o) == ops[o].kind = "none" /\ \A p \in Op : p < o => ops[p].kind # "none"

\* Faulty variant of Refused: the planner does not look for an active run.
RefusedByRows(seen) ==
    \/ HasActiveOperation
    \/ seen.purged
    \/ seen.trashed /\ seen.kind # "restore"

Refused(seen) ==
    \/ HasActiveRun
    \/ HasActiveOperation
    \/ seen.purged
    \/ seen.trashed /\ seen.kind # "restore"

PlannedRow(a, kind, origin, dest) ==
    [kind |-> kind, state |-> "planned", origin |-> origin, dest |-> dest,
     owner |-> a, live |-> TRUE, due |-> FALSE, lost |-> FALSE, held |-> NoOne]

\* _plan_operation, under the media row's lock up to the commit.
Plan(a) ==
    /\ At(a, "plan")
    /\ LET seen == actors[a].seen
           Dest(o) == IF seen.kind = "trash" THEN Trash(o) ELSE seen.dest
       IN \/ Refused(seen) /\ Leave(a) /\ UNCHANGED ops
          \/ /\ ~Refused(seen)
             /\ \E o \in Op :
                    /\ Fresh(o)
                    /\ SetRow(o, PlannedRow(a, seen.kind, seen.path, Dest(o)))
                    /\ Become(a, [Idle EXCEPT !.pc = "publish", !.op = o])
    /\ UNCHANGED <<media, files, manifest, stager, runs, far, env>>

\* plan_purge reads the media row under its lock.
PlanPurge(a) ==
    /\ At(a, "idle") /\ env.requests > 0
    /\ media.trashed /\ ~media.purged /\ ~HasActiveRun /\ ~HasActiveOperation
    /\ \E o \in Op :
           /\ Fresh(o)
           /\ SetRow(o, PlannedRow(a, "purge", media.path, Nowhere))
           /\ Become(a, [Idle EXCEPT !.pc = "manifest", !.op = o])
    /\ env' = [env EXCEPT !.requests = @ - 1]
    /\ UNCHANGED <<media, files, manifest, stager, runs, far>>

\* _guard_run_admission and the submit it guards.
Admit(a) ==
    /\ At(a, "admit")
    /\ runs' = IF actors[a].seen.trashed \/ actors[a].seen.purged \/ HasActiveOperation
               THEN runs ELSE runs \cup {"admitted"}
    /\ Leave(a)
    /\ UNCHANGED <<media, ops, files, manifest, stager, far, env>>

\* A run reaches a terminal status.  PREPARE fails its run when it finds an
\* operation in flight (StageDeferError, which nothing treats as a deferral).
RunEnds ==
    /\ \E entry \in runs : runs' = runs \ {entry}
    /\ UNCHANGED <<media, ops, files, manifest, stager, actors, far, env>>

\* requeue_failed_run, restart_run and requeue_failed_stage queue an ended run
\* again: a compare-and-set on the run's row, without the media row's lock or a
\* look for an operation.  (A recording has an ended run from its intake on.)
RunReopens ==
    /\ "reopened" \notin runs /\ runs' = runs \cup {"reopened"}
    /\ Meets("requeue")
    /\ UNCHANGED <<media, ops, files, manifest, stager, actors, far>>

-----------------------------------------------------------------------------
(* _execute_move_like: publication.                                        *)

Here == UNCHANGED <<media, ops, manifest, stager, runs, far, env>>

\* _publish_same_device: os.link never replaces the destination.
Publish(a) ==
    /\ At(a, "publish")
    /\ LET row == RowOf(a)
       IN IF files[row.dest] # "none" /\ files[row.origin] # "none"
          THEN Goto(a, "collide") /\ UNCHANGED files
          ELSE IF files[row.origin] = "none"
          THEN Goto(a, "give_up") /\ UNCHANGED files
          ELSE IF far
          THEN Goto(a, "copy") /\ UNCHANGED files
          ELSE files' = FilePut(row.dest, files[row.origin]) /\ Goto(a, "point")
    /\ Here

\* _publish_cross_device: the exclusive create of the temp file, the copy
\* through the opened origin, the link, the removal of the temp's own name.
CopyBegins(a) ==
    /\ At(a, "copy")
    /\ LET row == RowOf(a)  temp == Temp(OpOf(a))
       IN IF files[row.origin] = "none" \/ (files[temp] # "none" /\ files[row.dest] = "none")
          THEN Goto(a, "give_up") /\ UNCHANGED <<files, stager>>
          ELSE IF files[temp] # "none"
          THEN /\ files' = FilePut(temp, "none") /\ Goto(a, "collide")
               /\ UNCHANGED stager
          ELSE /\ files' = FilePut(temp, "partial")
               /\ stager' = [stager EXCEPT ![OpOf(a)] = a]
               /\ Become(a, [actors[a] EXCEPT !.pc = "stage",
                                              !.view.origin = files[row.origin]])
    /\ UNCHANGED <<media, ops, manifest, runs, far, env>>

\* The copy is complete in the file this actor opened, under whatever names it
\* still has; the size check then reads the file now at the temp's name.
CopyEnds(a) ==
    /\ At(a, "stage")
    /\ LET o == OpOf(a)
           temp == Temp(o)
           names == {p \in {temp, RowOf(a).dest} : files[p] = "partial" /\ stager[o] = a}
           after == [p \in Path |-> IF p \in names THEN actors[a].view.origin ELSE files[p]]
       IN /\ files' = after
          /\ Goto(a, IF after[temp] = "none" THEN "give_up"
                     ELSE IF after[temp] = "partial" THEN "try_later" ELSE "link")
    /\ Here

LinkTemp(a) ==
    /\ At(a, "link")
    /\ LET row == RowOf(a)  temp == Temp(OpOf(a))
       IN IF files[temp] = "none"
          THEN Goto(a, "give_up") /\ UNCHANGED files
          ELSE IF files[row.dest] # "none"
          THEN files' = FilePut(temp, "none") /\ Goto(a, "collide")
          ELSE files' = FilePut(row.dest, files[temp]) /\ Goto(a, "unstage")
    /\ Here

UnlinkTemp(a) ==
    /\ At(a, "unstage")
    /\ LET temp == Temp(OpOf(a))
       IN IF files[temp] = "none"
          THEN Goto(a, "give_up") /\ UNCHANGED files
          ELSE files' = FilePut(temp, "none") /\ Goto(a, "apply")
    /\ Here

-----------------------------------------------------------------------------
(* _execute_move_like: what it commits.                                    *)

Quietly == UNCHANGED <<files, manifest, stager, runs, far, env>>

\* A compare-and-set that either commits or gives the operation up.
Transition(a, from, row, then) ==
    /\ Open(a, OpOf(a))
    /\ IF Owns(a, OpOf(a), from)
       THEN SetRow(OpOf(a), row) /\ Become(a, then)
       ELSE Rollback(a) /\ Leave(a)

Apply(a) ==
    /\ At(a, "apply")
    /\ Transition(a, "planned", Moved(RowOf(a), "fs_applied"),
                  [actors[a] EXCEPT !.pc = "point", !.from = "fs_applied"])
    /\ UNCHANGED media /\ Quietly

\* cas_pointer's write together with the metadata of the operation.
MoveTo(row) ==
    [media EXCEPT !.path = row.dest, !.trashed = Metadata(row.kind, media.trashed)]

\* One transaction: pointer, trashed_at, db_applied.  It holds nothing if the
\* compare-and-set on the row fails.
PointAndApply(a) ==
    /\ At(a, "point")
    /\ LET row == RowOf(a)  owns == Owns(a, OpOf(a), actors[a].from)
       IN IF media.path = row.origin
          THEN /\ media' = IF owns THEN MoveTo(row) ELSE media
               /\ Transition(a, actors[a].from, Moved(row, "db_applied"),
                             [actors[a] EXCEPT !.pc = "check", !.from = "db_applied"])
          ELSE /\ UNCHANGED media
               /\ Transition(a, actors[a].from, Moved(row, "failed"), Idle)
    /\ Quietly

\* The last look at the lease before the origin is unlinked.
CheckLease(a) ==
    /\ At(a, "check")
    /\ IF LeaseStillHeld(a, OpOf(a))
       THEN Goto(a, "clean") /\ UNCHANGED ops
       ELSE Leave(a) /\ Rollback(a)
    /\ UNCHANGED media /\ Quietly

UnlinkOrigin(a) ==
    /\ At(a, "clean")
    /\ files' = FilePut(RowOf(a).origin, "none")
    /\ Goto(a, "sweep")
    /\ Here

\* fsync of the origin's directory, removal of a leftover temp file.
SweepTemp(a) ==
    /\ At(a, "sweep")
    /\ files' = FilePut(Temp(OpOf(a)), "none")
    /\ Goto(a, "finish")
    /\ Here

\* Faulty variant of FinalMetadata: the reconciler leaves trashed_at alone.
NoMetadata(a) == media

\* The reconciler's _complete writes the metadata, the executor has done so.
FinalMetadata(a) ==
    IF actors[a].role = "reconciler"
    THEN [media EXCEPT !.trashed = Metadata(RowOf(a).kind, @)] ELSE media

Finish(a) ==
    /\ At(a, "finish")
    /\ media' = IF Owns(a, OpOf(a), actors[a].from) THEN FinalMetadata(a) ELSE media
    /\ Transition(a, actors[a].from, Moved(RowOf(a), "completed"), Idle)
    /\ Quietly

\* _fail_destination_collision.
Collide(a) ==
    /\ At(a, "collide")
    /\ Transition(a, "planned", Moved(RowOf(a), "failed"), Idle)
    /\ UNCHANGED media /\ Quietly

\* _record_filesystem_error, of an errno worth a retry or not.
RecordError(a) ==
    /\ \/ /\ At(a, "try_later")
          /\ Transition(a, actors[a].from, Parked(RowOf(a), FALSE), Idle)
       \/ /\ At(a, "give_up")
          /\ Transition(a, actors[a].from, Moved(RowOf(a), "failed"), Idle)
    /\ UNCHANGED media /\ Quietly

-----------------------------------------------------------------------------
(* execute_purge: manifest, one child at a time, convergence, rows.        *)

\* Faulty variant of Unresolved: a failed child counts as resolved.
UnresolvedPending(o) == {p \in Part : manifest[o][p] = "pending"}

Unresolved(o) == {p \in Part : manifest[o][p] \in {"pending", "failed"}}

PartPath(o, p) == IF p = "source" THEN ops[o].origin ELSE Derived

\* build_manifest and its commit; then the children still to attempt.
BuildManifest(a) ==
    /\ At(a, "manifest") /\ Open(a, OpOf(a))
    /\ LET o == OpOf(a)
           built == IF manifest[o] = NoManifest THEN [p \in Part |-> "pending"]
                    ELSE manifest[o]
       IN /\ manifest' = [manifest EXCEPT ![o] = built]
          /\ Become(a, [actors[a] EXCEPT !.pc = "children",
                           !.todo = {p \in Part : built[p] \in {"pending", "failed"}}])
          /\ Rollback(a)
    /\ UNCHANGED <<media, files, stager, runs, far, env>>

\* _attempt_children: the lease, the unlink and the child's row, a step each.
AttemptChild(a) ==
    /\ At(a, "children")
    /\ \/ /\ actors[a].todo = {} \/ ~LeaseStillHeld(a, OpOf(a))
          /\ Goto(a, "converge")
       \/ /\ LeaseStillHeld(a, OpOf(a))
          /\ \E p \in actors[a].todo :
                 Become(a, [actors[a] EXCEPT !.pc = "erase", !.part = p, !.todo = @ \ {p}])
    /\ UNCHANGED <<media, ops, files, manifest, stager, runs, far, env>>

EraseChild(a) ==
    /\ At(a, "erase")
    /\ LET path == PartPath(OpOf(a), actors[a].part)
       IN \/ /\ files' = FilePut(path, "none")
             /\ Become(a, [actors[a] EXCEPT !.pc = "record",
                    !.outcome = IF files[path] # "none" THEN "done" ELSE "missing"])
             /\ UNCHANGED env
          \/ /\ Meets("fault")
             /\ Become(a, [actors[a] EXCEPT !.pc = "record", !.outcome = "failed"])
             /\ UNCHANGED files
    /\ UNCHANGED <<media, ops, manifest, stager, runs, far>>

RecordChild(a) ==
    /\ At(a, "record")
    /\ manifest' = [manifest EXCEPT ![OpOf(a)][actors[a].part] = actors[a].outcome]
    /\ Become(a, [actors[a] EXCEPT !.pc = "children", !.part = Idle.part,
                                   !.outcome = Idle.outcome])
    /\ UNCHANGED <<media, ops, files, stager, runs, far, env>>

\* Not every child resolved: planned waits for its retry, and a row already
\* waiting raises TransitionError, which the reconciler's handler parks.
Converge(a) ==
    /\ At(a, "converge")
    /\ IF Unresolved(OpOf(a)) = {}
       THEN Transition(a, actors[a].from, Moved(RowOf(a), "fs_applied"),
                       [actors[a] EXCEPT !.pc = "purged", !.from = "fs_applied"])
       ELSE IF actors[a].from = "awaiting_retry"
       THEN Goto(a, "rescue") /\ UNCHANGED ops
       ELSE Transition(a, actors[a].from, Parked(RowOf(a), FALSE), Idle)
    /\ UNCHANGED media /\ Quietly

ApplyPurge(a) ==
    /\ At(a, "purged")
    /\ media' = IF Owns(a, OpOf(a), "fs_applied")
                THEN [media EXCEPT !.path = Nowhere, !.purged = TRUE] ELSE media
    /\ Transition(a, "fs_applied", Moved(RowOf(a), "db_applied"),
                  [actors[a] EXCEPT !.pc = "finish", !.from = "db_applied"])
    /\ Quietly

Request(a) == AskTrash(a) \/ AskRestore(a) \/ AskRun(a) \/ PlanPurge(a)

Execute(a) ==
    \/ ChooseTrash(a) \/ Plan(a) \/ Admit(a)
    \/ Publish(a) \/ CopyBegins(a) \/ CopyEnds(a) \/ LinkTemp(a) \/ UnlinkTemp(a)
    \/ Apply(a) \/ PointAndApply(a) \/ CheckLease(a) \/ UnlinkOrigin(a) \/ SweepTemp(a)
    \/ Finish(a) \/ Collide(a) \/ RecordError(a)
    \/ BuildManifest(a) \/ AttemptChild(a) \/ EraseChild(a) \/ RecordChild(a)
    \/ Converge(a) \/ ApplyPurge(a)
=============================================================================
