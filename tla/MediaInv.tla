------------------------------- MODULE MediaInv -------------------------------
(***************************************************************************)
(* The inductive invariants of MediaReconciler: what its safety properties *)
(* need besides themselves to be preserved by every step.                  *)
(***************************************************************************)
EXTENDS MediaReconciler

MovePoint ==
    {"publish", "copy", "stage", "link", "unstage", "apply", "point", "check", "clean", "sweep",
     "collide", "try_later", "give_up", "decide"}

PurgePoint == {"manifest", "children", "erase", "record", "converge", "purged"}

\* Where an actor has no transaction open.
OpenPoint == {"relock", "rescue", "children", "erase", "record", "converge"}

Move(o) == ops[o].kind \in {"trash", "restore"}

Mine(a) == RowOf(a).owner = a

-----------------------------------------------------------------------------
(* Who works on what.                                                      *)

\* Where a recording can be: at home or where some trash moves it.
Placed(p) == p = Home \/ \E k \in Op : p = Trash(k) /\ ops[k].kind # "none"

\* What each program point knows of the operation in hand.
ActorFine(me) ==
    /\ me.op = 0 <=> me.pc \in {"idle", "choose", "plan", "admit"}
    /\ me.op # 0 => ops[me.op].kind # "none"
    /\ me.pc \in MovePoint => Move(me.op)
    /\ me.pc \in PurgePoint => ops[me.op].kind = "purge"
    /\ me.pc = "choose" => me.seen.kind = "restore" /\ Placed(me.seen.path)
    /\ me.pc = "plan" => /\ me.seen.kind \in {"trash", "restore"} /\ Placed(me.seen.path)
                         /\ me.seen.kind = "restore" => Placed(me.seen.dest)
    /\ me.from \notin Terminal

ActorsFine == \A a \in Actors : ActorFine(actors[a])

RowFine(o) ==
    /\ ops[o].kind # "none" => Placed(ops[o].origin)
    /\ ops[o].kind = "trash" => ops[o].dest = Trash(o) /\ ops[o].origin # Trash(o)
    /\ ops[o].kind = "restore" => Placed(ops[o].dest)

RowsFine == \A o \in Op : RowFine(o)

PointerFine == IF media.path = Nowhere THEN media.purged ELSE Placed(media.path)

\* A row lock is its owner's, in the owner's transaction on that operation.
LockFine(o) ==
    ops[o].held # NoOne =>
        /\ Active(o) /\ ops[o].owner = ops[o].held
        /\ OpOf(ops[o].held) = o
        /\ actors[ops[o].held].pc \notin OpenPoint

LocksFine ==
    /\ \A o \in Op : LockFine(o)
    /\ \A a \in Actors : At(a, "decide") => RowOf(a).held = a

\* Who still owns the operation in hand has not seen it end.
OwnersBusy == \A a \in Actors : OpOf(a) # 0 /\ Mine(a) => Active(OpOf(a))

Base ==
    /\ TypeOK
    /\ ActorsFine
    /\ RowsFine
    /\ PointerFine
    /\ LocksFine
    /\ OwnersBusy
    /\ ItemTakenOnce

-----------------------------------------------------------------------------
(* The copies: who is about to move the pointer has a copy to move it to,  *)
(* and who is about to unlink has the lease and the pointer elsewhere.     *)

Copied(p) == p \in Path /\ files[p] = "recording"

FromPointer(a) == media.path = RowOf(a).origin

\* The owner's copy is at the destination, or complete beside it.
PublishFine(a) ==
    /\ At(a, "stage") => actors[a].view.origin \in {"recording", "partial"}
    /\ At(a, "stage") /\ Mine(a) /\ FromPointer(a) => actors[a].view.origin = "recording"
    /\ At(a, "link") /\ Mine(a) /\ FromPointer(a) =>
           files[RowOf(a).dest] # "none" \/ Copied(Temp(OpOf(a)))
    /\ At(a, "unstage") /\ Active(OpOf(a)) => files[RowOf(a).dest] # "none"
    /\ actors[a].pc \in {"unstage", "apply", "point"} /\ Mine(a) /\ FromPointer(a) =>
           Copied(RowOf(a).dest)

CleanFine(a) ==
    /\ At(a, "check") /\ Mine(a) => media.path = RowOf(a).dest
    /\ actors[a].pc \in {"clean", "sweep"} =>
           Mine(a) /\ RowOf(a).live /\ media.path = RowOf(a).dest

\* What a pass read under the row lock stays true of the pointer and of a copy.
DecideFine(a) ==
    At(a, "decide") =>
        LET v == actors[a].view
        IN /\ v.pointer = PointerOf(RowOf(a))
           /\ actors[a].from = Reentered(RowOf(a))
           /\ v.pointer = "origin" => v.origin = "recording"
           /\ v.dest = "recording" => Copied(RowOf(a).dest)
           /\ v.pointer = "destination" => v.dest = "recording"
           /\ v.pointer = "origin" /\ actors[a].from = "fs_applied" => v.dest = "recording"

\* Once published, and until the pointer moves, the copy is at the destination.
AppliedFine(o) ==
    /\ Active(o) /\ ops[o].state = "fs_applied" /\ media.path = ops[o].origin => Copied(ops[o].dest)
    /\ ~ops[o].lost

Copying ==
    /\ \A p \in Path : files[p] # "foreign"
    /\ Copied(media.path)
    /\ \A a \in Actors : PublishFine(a) /\ CleanFine(a) /\ DecideFine(a)
    /\ \A o \in Op : AppliedFine(o)

CopiesInv == ~Freed => Copying

-----------------------------------------------------------------------------
(* The flag: while nothing fails and every trash starts from home, only an *)
(* operation past its pointer write can hold the trash flag out of step.   *)

\* A restore goes back to where some trash came from.
CameFrom(dest) == \E k \in Op : ops[k].kind = "trash" /\ ops[k].origin = dest

RestoresFine ==
    /\ \A o \in Op : ops[o].kind = "restore" => CameFrom(ops[o].dest)
    /\ \A a \in Actors : At(a, "plan") /\ actors[a].seen.kind = "restore" =>
           CameFrom(actors[a].seen.dest)

\* A purge past its pointer write has emptied the media row.
PurgesFine ==
    /\ \A o \in Op : ops[o].kind = "purge" /\ ops[o].state \in {"db_applied"} \cup Terminal =>
           media.purged
    /\ \A a \in Actors : At(a, "finish") /\ RowOf(a).kind = "purge" => media.purged

Undisturbed ==
    /\ ~Freed /\ Spared("fault")
    /\ \A o \in Op : ops[o].kind = "trash" => ops[o].origin = Home

InStep == media.trashed <=> media.path # Home

Applied(o) == Active(o) /\ ops[o].state = "db_applied"

BeforePoint ==
    {"publish", "copy", "stage", "link", "unstage", "apply", "point", "collide", "try_later",
     "give_up"}

AfterPoint == {"check", "clean", "sweep", "finish"}

FlagFine(a) ==
    /\ actors[a].pc \in BeforePoint /\ Mine(a) => RowOf(a).state # "db_applied"
    /\ actors[a].pc \in AfterPoint /\ Mine(a) =>
           /\ media.path = RowOf(a).dest
           /\ actors[a].role = "executor" => InStep
    /\ ~At(a, "rescue")

Flagged ==
    /\ ~InStep => \E o \in Op : Applied(o)
    /\ \A o \in Op : Applied(o) => media.path = ops[o].dest
    /\ \A a \in Actors : FlagFine(a)

FlagInv ==
    /\ RestoresFine
    /\ PurgesFine
    /\ Undisturbed => Flagged

-----------------------------------------------------------------------------
(* The purge: while no lease runs out under a living actor, each operation *)
(* in flight is in its owner's hands, and what a manifest calls gone is.   *)

HandsOn(a) == OpOf(a) # 0 => Mine(a) /\ RowOf(a).live /\ Active(OpOf(a))

Dealt == {"done", "missing"}

Resolved(o) == \A p \in Part : manifest[o][p] \in Dealt

\* A purge of a path that nothing but the trash used.
OfTrash(o) == RestoreReturnsHome /\ ops[o].origin # Home

EraseRow(o) ==
    /\ manifest[o] = NoManifest \/ \A p \in Part : manifest[o][p] # "none"
    /\ ops[o].kind = "none" => manifest[o] = NoManifest
    /\ ops[o].kind = "purge" =>
           /\ ops[o].state \in {"fs_applied", "db_applied"} \cup Terminal => Resolved(o)
           /\ \A k \in Op : ops[o].origin = Trash(k) => ops[k].state \in Terminal
           /\ OfTrash(o) =>
                  \A p \in Part : manifest[o][p] \in Dealt => files[PartPath(o, p)] = "none"

EraseFine(a) ==
    /\ actors[a].pc \in {"manifest", "children", "erase", "record", "converge"} =>
           RowOf(a).state \in {"planned", "awaiting_retry"}
    /\ actors[a].pc \in {"children", "erase", "record", "converge"} =>
           \A p \in Part : manifest[OpOf(a)][p] # "none"
    /\ At(a, "record") => actors[a].outcome \in Dealt \cup {"failed"}
    /\ At(a, "purged") \/ (At(a, "finish") /\ RowOf(a).kind = "purge") => Resolved(OpOf(a))
    /\ At(a, "record") /\ actors[a].outcome \in Dealt /\ OfTrash(OpOf(a)) =>
           files[PartPath(OpOf(a), actors[a].part)] = "none"

Erasing ==
    /\ \A a \in Actors : HandsOn(a) /\ EraseFine(a)
    /\ \A o \in Op : EraseRow(o)

EraseInv == Spared("slow") => Erasing

===============================================================================
