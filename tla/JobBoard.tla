------------------------------- MODULE JobBoard -------------------------------
(***************************************************************************)
(* What an enrichment lane promises of one slot (a run and kind, a run and *)
(* language, a speaker, ...): one job open at a time, a job kept or        *)
(* dropped once, each kept job one generation on the shelf, and a newer    *)
(* generation never made from an older source.                             *)
(***************************************************************************)
EXTENDS Naturals, Sequences

CONSTANTS Job, Source       \* Source: natural numbers

VARIABLES board, shelf

bvars == <<board, shelf>>

BoardTypeOK ==
    /\ board \in [Job -> {"unasked", "open", "kept", "dropped"}]
    /\ shelf \in Seq([job : Job, source : Source])

BoardInit == board = [j \in Job |-> "unasked"] /\ shelf = <<>>

OpenJob(j) ==
    /\ board[j] = "unasked"
    /\ \A i \in Job : board[i] # "open"
    /\ board' = [board EXCEPT ![j] = "open"]
    /\ UNCHANGED shelf

Keep(j, s) ==
    /\ board[j] = "open"
    /\ \A n \in DOMAIN shelf : shelf[n].source <= s
    /\ board' = [board EXCEPT ![j] = "kept"]
    /\ shelf' = Append(shelf, [job |-> j, source |-> s])

DropJob(j) ==
    /\ board[j] = "open"
    /\ board' = [board EXCEPT ![j] = "dropped"]
    /\ UNCHANGED shelf

BoardNext ==
    \E j \in Job :
        \/ OpenJob(j)
        \/ DropJob(j)
        \/ \E s \in Source : Keep(j, s)

BoardSpec == BoardInit /\ [][BoardNext]_bvars

(* A job is kept exactly when one generation is its own: no failed or      *)
(* cancelled job left one, and none was written twice.                     *)
OneResultPerKept ==
    /\ \A n \in DOMAIN shelf : board[shelf[n].job] = "kept"
    /\ \A j \in Job : board[j] = "kept" => \E n \in DOMAIN shelf : shelf[n].job = j
    /\ \A m, n \in DOMAIN shelf : shelf[m].job = shelf[n].job => m = n

(* A newer generation is never made from an older source.                  *)
SourcesInOrder ==
    \A m, n \in DOMAIN shelf : m < n => shelf[m].source <= shelf[n].source
=============================================================================
