----------------------------- MODULE MediaCopies ------------------------------
(***************************************************************************)
(* What the media operations journal promises of one recording's bytes     *)
(* (docs/adr/0007, "the load-bearing invariant"): copies are made from     *)
(* copies, the pointer moves only to a copy, and the copy the pointer      *)
(* names is never dropped.  The promise is void once the operator asked    *)
(* for a purge or somebody else wrote to the media tree, and once a        *)
(* restore was planned of a recording that is already at its destination,  *)
(* whose only copy the code can unlink (MediaReconciler's InPlace).        *)
(***************************************************************************)
CONSTANTS Place, Start

VARIABLES where, copies, freed

mvars == <<where, copies, freed>>

CopiesInit == where = Start /\ copies = {Start} /\ freed = FALSE

\* Hard links to one inode become copies together.
Copy(ps) == copies # {} /\ copies' = copies \cup ps /\ UNCHANGED <<where, freed>>

Point(p) == p \in copies /\ where' = p /\ UNCHANGED <<copies, freed>>

Drop(p) == p # where /\ copies' = copies \ {p} /\ UNCHANGED <<where, freed>>

\* One of the three happens.
Free == freed' = TRUE /\ copies' \in SUBSET Place /\ UNCHANGED where

Anything == freed /\ freed' /\ copies' \in SUBSET Place

CopiesNext ==
    \/ \E ps \in SUBSET Place : Copy(ps)
    \/ \E p \in Place : Point(p) \/ Drop(p)
    \/ Free
    \/ Anything

CopiesSpec == CopiesInit /\ [][CopiesNext]_mvars

(* "the system never creates a window where its own operations leave both  *)
(* the origin absent and the destination unverified"                       *)
(* (docs/adr/0007-media-operations-journal.md:46): the pointer always      *)
(* names a copy.                                                           *)
AlwaysReadable == freed \/ where \in copies
=============================================================================
