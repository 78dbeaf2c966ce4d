----------------------------- MODULE MediaJournal -----------------------------
(***************************************************************************)
(* The media operations journal of one recording: its media_items row, its *)
(* media_operations rows in creation order, the files under media_root,    *)
(* and the concurrency primitives every actor uses (claim lease,           *)
(* compare-and-set on state and claim, row lock).                          *)
(*                                                                         *)
(* An actor is one console request or one reconciler pass; `pc` is its     *)
(* place in the code, and what it does between two database or filesystem  *)
(* effects is one action.  A lease is a flag that LeaseExpires clears.     *)
(* `far` says whether the trash tree is on another device than the         *)
(* recording (os.link raises EXDEV).                                       *)
(***************************************************************************)
EXTENDS Naturals, FiniteSets

CONSTANTS
    Actors,         \* console requests and reconciler passes that overlap
    NoOne,          \* no actor
    Prompt,         \* TRUE: an unlink follows its lease check within the lease
    Troubles,       \* what may go wrong, of TroubleKind
    MaxRequests,    \* bound: console requests, so journal rows
    MaxTrouble      \* bound: how often something goes wrong

TroubleKind ==
    {"crash",       \* an actor dies
     "fault",       \* a filesystem call raises
     "slow",        \* a lease runs out under a living actor
     "requeue",     \* an ended run is queued again
     "outside"}     \* somebody else deletes or adds a file

ASSUME MediaAssumption ==
    /\ NoOne \notin Actors
    /\ Prompt \in BOOLEAN
    /\ Troubles \subseteq TroubleKind
    /\ MaxRequests \in Nat /\ MaxTrouble \in Nat

VARIABLES
    media,          \* [path, trashed, purged] of the media_items row
    ops,            \* ops[o]: the media_operations rows
    files,          \* files[p]: what is at a path
    manifest,       \* manifest[o][part]: media_operation_files of a purge
    stager,         \* stager[o]: who opened the temp file now at Temp(o)
    runs,           \* the active pipeline runs, by how they became active
    actors,         \* the program state of each actor
    far,            \* the trash tree is on another device
    env             \* what is left of the bounds on the environment

vars == <<media, ops, files, manifest, stager, runs, actors, far, env>>

Op == 1..MaxRequests

Home == <<"home", 0>>           \* where the recording was acquired
Derived == <<"derived", 0>>     \* its normalized audio, peaks and chunks
Nowhere == <<"nowhere", 0>>     \* a NULL path
Trash(o) == <<"trash", o>>      \* _trash/{operation}/{filename}
Temp(o) == <<"temp", o>>        \* .voxint-op-{operation}.tmp at the destination

Path == {Home, Derived} \cup {Trash(o) : o \in Op} \cup {Temp(o) : o \in Op}

Content == {"none", "recording", "partial", "foreign"}

Kind == {"none", "trash", "restore", "purge"}
Terminal == {"completed", "failed"}
OperationState == {"planned", "fs_applied", "db_applied", "awaiting_retry"} \cup Terminal

Part == {"source", "derived"}
PartStatus == {"none", "pending", "done", "missing", "failed"}
NoManifest == [p \in Part |-> "none"]

\* An active run was admitted by a submit, or it had ended and is queued again.
Entry == {"admitted", "reopened"}

NoRow == [kind |-> "none", state |-> "planned", origin |-> Nowhere, dest |-> Nowhere,
          owner |-> NoOne, live |-> FALSE, due |-> FALSE, lost |-> FALSE, held |-> NoOne]

NoSeen == [kind |-> "none", path |-> Nowhere, trashed |-> FALSE, purged |-> FALSE,
           dest |-> Nowhere]

NoView == [pointer |-> "origin", origin |-> "none", dest |-> "none", temp |-> "none"]

Idle == [pc |-> "idle", op |-> 0, role |-> "executor", from |-> "planned",
         seen |-> NoSeen, view |-> NoView, todo |-> {}, part |-> "source",
         outcome |-> "none"]

Init ==
    /\ media = [path |-> Home, trashed |-> FALSE, purged |-> FALSE]
    /\ ops = [o \in Op |-> NoRow]
    /\ files = [p \in Path |-> IF p \in {Home, Derived} THEN "recording" ELSE "none"]
    /\ manifest = [o \in Op |-> NoManifest]
    /\ stager = [o \in Op |-> NoOne]
    /\ runs = {}
    /\ actors = [a \in Actors |-> Idle]
    /\ far \in BOOLEAN
    /\ env = [requests |-> MaxRequests, trouble |-> MaxTrouble, met |-> {}]

-----------------------------------------------------------------------------
(* Program points. *)

At(a, pc) == actors[a].pc = pc

Become(a, state) == actors' = [actors EXCEPT ![a] = state]

Goto(a, pc) == Become(a, [actors[a] EXCEPT !.pc = pc])

Leave(a) == Become(a, Idle)

OpOf(a) == actors[a].op
RowOf(a) == ops[OpOf(a)]

-----------------------------------------------------------------------------
(* Rows and their guards. *)

Active(o) == ops[o].kind # "none" /\ ops[o].state \notin Terminal

HasActiveOperation == \E o \in Op : Active(o)

HasActiveRun == runs # {}

\* Faulty variant of Claimable: a lease that has run out is not taken over.
ClaimableFirst(o) == ops[o].owner = NoOne

\* claim_operation: nobody's, or the lease has run out.
Claimable(o) == ops[o].owner = NoOne \/ ~ops[o].live

\* The row is not locked by another transaction.
Open(a, o) == ops[o].held \in {NoOne, a}

\* Faulty variant of Owns: the WHERE clause forgets claimed_by.
OwnsByState(a, o, from) == ops[o].held = a \/ ops[o].state = from

\* cas_transition's WHERE clause.  Under the row lock the state is what this
\* transaction made it (_reenter_retry is not yet committed).
Owns(a, o, from) == ops[o].owner = a /\ (ops[o].held = a \/ ops[o].state = from)

\* Faulty variant of LeaseStillHeld: only the row's state is looked at.
LeaseAssumed(a, o) == ops[o].kind # "none"

\* _lease_still_held.
LeaseStillHeld(a, o) == ops[o].owner = a /\ ops[o].live

\* The row a commit leaves: a new state, the row lock released.
Moved(row, state) == [row EXCEPT !.state = state, !.held = NoOne]

\* _retry and _record_filesystem_error: wait for next_attempt_at.
Parked(row, lost) ==
    [row EXCEPT !.state = "awaiting_retry", !.held = NoOne, !.due = FALSE, !.lost = lost]

SetRow(o, row) == ops' = [ops EXCEPT ![o] = row]

\* A rollback, or the end of a session: nothing written, the lock released.
Rollback(a) == SetRow(OpOf(a), [RowOf(a) EXCEPT !.held = IF @ = a THEN NoOne ELSE @])

\* classify_pointer.
PointerOf(row) ==
    IF media.path = row.origin THEN "origin"
    ELSE IF media.path = row.dest THEN "destination" ELSE "other"

\* The metadata an operation's completion writes (trashed_at).
Metadata(kind, trashed) ==
    IF kind = "trash" THEN TRUE ELSE IF kind = "restore" THEN FALSE ELSE trashed

FilePut(p, content) == [files EXCEPT ![p] = content]

May(kind) == kind \in Troubles /\ env.trouble > 0

\* Something goes wrong once more.
Meets(kind) ==
    /\ May(kind)
    /\ env' = [env EXCEPT !.trouble = @ - 1, !.met = @ \cup {kind}]

Spared(kind) == kind \notin env.met
=============================================================================
