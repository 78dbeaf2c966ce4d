------------------------------- MODULE IntakeRows ------------------------------
(***************************************************************************)
(* The media_items rows new recordings come in through, and the            *)
(* transactions that insert them.  source_path is UNIQUE: an insert waits  *)
(* for another transaction's uncommitted insert of the same path, fails in *)
(* its savepoint when that one commits and goes through when it rolls back.*)
(* A client is one request, command, sweep or stage attempt; `pc` is its   *)
(* place in the code.                                                      *)
(***************************************************************************)
EXTENDS Naturals, FiniteSets

CONSTANTS
    Path,           \* source paths
    Form,           \* the path of one submission_id, incoming/{id}/...
    Client,         \* what works at the same time
    Nobody,         \* no client
    Digest,         \* contents a recording may have (for a URL: addresses)
    BatchLimit,     \* watch_folder_batch_size
    FileCap,        \* setup_scan_max_files
    MaxOps,         \* bound, for each way: what operators ask for
    MaxTrouble      \* bound, for each way: what goes wrong or changes

Way == {"folder", "upload", "url"}

ASSUME IntakeAssumption ==
    /\ Form \in Path
    /\ Nobody \notin Client
    /\ Digest \subseteq Nat \ {0}
    /\ BatchLimit \in Nat \ {0} /\ FileCap \in Nat \ {0}
    /\ MaxOps \in [Way -> Nat] /\ MaxTrouble \in [Way -> Nat]

VARIABLES
    way,            \* how recordings come in here: folder, upload or url
    watching,       \* app_settings.watch_folder_enabled
    files,          \* files[p]: the recording, its YAML sidecar and its folder's pack
    rows,           \* committed media_items rows with their runs
    disk,           \* the bytes at Form's path, 0 when there is no file
    beside,         \* the bytes whose metadata sidecar lies beside it
    fetch,          \* the ACQUIRE claim of the URL's run
    serving,        \* the API process serves
    work,           \* the program state of each client
    env             \* what is left of the bounds

vars == <<way, watching, files, rows, disk, beside, fetch, serving, work, env>>

NoDigest == 0
MaybeDigest == Digest \cup {NoDigest}

\* A run's config is frozen with its row: `runs` counts the runs of the row,
\* `asked` those an operator asked for by path; `what` is the digest an upload
\* records or the address of a URL; sha256 and the metadata row of a URL come
\* from ACQUIRE.
Row(runs, asked, what, sha) ==
    [known |-> TRUE, runs |-> runs, asked |-> asked, what |-> what, sha |-> sha,
     meta |-> NoDigest]

NoRow == [Row(0, 0, NoDigest, NoDigest) EXCEPT !.known = FALSE]

Free == [doing |-> "nothing", pc |-> "idle", todo |-> {}, at |-> Form, mine |-> {},
         minted |-> {}, what |-> NoDigest, info |-> FALSE, swept |-> FALSE,
         sha |-> NoDigest, meta |-> NoDigest]

Doing == {"nothing", "sweep", "confirm", "submit", "upload", "paste", "acquire"}
Console == {"confirm", "upload", "paste"}      \* requests of the API process

At(c, pc) == work[c].pc = pc
Does(c, kinds) == work[c].doing \in kinds

Become(c, state) == work' = [work EXCEPT ![c] = state]
Leave(c) == Become(c, Free)

Known(p) == rows[p].known

\* c's insert of p waits for another transaction's.
Blocks(d, c, p) == d # c /\ p \in work[d].mine
Waits(c, p) == \E d \in Client : Blocks(d, c, p)

Ask == env.ops > 0 /\ env' = [env EXCEPT !.ops = @ - 1]
GoWrong == env.trouble > 0 /\ env' = [env EXCEPT !.trouble = @ - 1]

-----------------------------------------------------------------------------

\* The rows after c's transaction: what it inserted, and the runs it minted.
Committed(c) ==
    [p \in Path |->
        IF p \in work[c].mine
        THEN Row(IF p \in work[c].minted THEN 1 ELSE 0,
                 IF p \in work[c].minted /\ Does(c, {"submit"}) THEN 1 ELSE 0,
                 work[c].what,
                 IF Does(c, {"upload"}) THEN work[c].what ELSE NoDigest)
        ELSE IF p \in work[c].minted
             THEN [rows[p] EXCEPT !.runs = @ + 1, !.asked = @ + 1]
             ELSE rows[p]]

Commit(c) ==
    /\ At(c, "commit")
    /\ Does(c, {"sweep", "confirm", "submit", "upload", "paste"})
    /\ rows' = Committed(c)
    /\ fetch' = IF Does(c, {"paste"}) /\ Form \in work[c].mine
                THEN [fetch EXCEPT !.state = "queued"] ELSE fetch
    /\ Leave(c)
    /\ UNCHANGED <<way, watching, files, disk, beside, serving, env>>
=============================================================================
