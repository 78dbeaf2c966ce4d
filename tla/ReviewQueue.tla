------------------------------ MODULE ReviewQueue ------------------------------
(***************************************************************************)
(* Who reads the ledger of Review.  The review queue and the workbench     *)
(* settle a label with the resolver in Python (label_states); the lists of *)
(* runs and recordings and the home page, which must filter and count in   *)
(* the database, with predicates that mirror it.  A run has one voice.     *)
(***************************************************************************)
EXTENDS Review

CONSTANT Proposed   \* the grounded cosine proposal for the run's voice, or None

ASSUME ProposedAssumption == Proposed \in [Run -> Speaker \cup {None}]

-------------------------------------------------------------------------------
\* The resolver: a ruling in force, else a grounded proposal, else nothing.
\* needs_ruling is left without the automatic enrollments, which Review has not.

Ruled(r) == Effective("label", r, ledger) # {}

NeedsRuling(r) == ~Ruled(r) /\ Proposed[r] = None

AttributedTo(r) ==
    IF Ruled(r) THEN {x.speaker : x \in {y \in Effective("label", r, ledger) : y.verdict = "assign"}}
    ELSE {Proposed[r]} \ {None}

\* adjudication_queue
Queue == {r \in Run : Open(r) /\ NeedsRuling(r)}

-------------------------------------------------------------------------------
\* Its mirrors.  Both look for rows without a segment and take a REVOKE for a
\* ruling like any other.

RowsOf(r) == {x \in ledger : x.run = r /\ (x.scope = "label" \/ Detached(x))}

\* _label_unresolved
Unresolved(r) == RowsOf(r) = {} /\ Proposed[r] = None

\* list_runs with review=needed or lifecycle=needs_attention
NeedsAttention == {r \in Run : Open(r) /\ Unresolved(r)}

\* A REVOKE is stamped by the request that undoes; a restart's is newer than
\* what it voids and older than what is ruled afterwards.
StampOf(x) == IF x.verdict # "revoke" THEN x.stamp ELSE IF x.key = 0 THEN x.voids ELSE x.key

Last(r) == {x \in RowsOf(r) : /\ \A y \in RowsOf(r) : StampOf(y) <= StampOf(x)
                             /\ ~Voided(x, ledger)}

\* speaker_attributed_exists
FoundUnder(r) ==
    IF RowsOf(r) = {} THEN {Proposed[r]} \ {None}
    ELSE {x.speaker : x \in {y \in Last(r) : y.verdict = "assign"}}

-------------------------------------------------------------------------------
\* docs/architecture.md:666, "a run needs review while any diarization label
\* has neither an effective human decision nor a grounded cosine proposal", and
\* resolver.py:162, the divergence of the mirror over REVOKE rows "surfaces
\* only when an auto-enroll is explicitly revoked".  So, where nothing was
\* enrolled automatically, the list of runs that need attention holds the runs
\* of the review queue.
ListsAgree == NeedsAttention = Queue

\* tests/integration/test_speaker_attribution_sql.py:1,
\* "speaker_attributed_exists must agree with label_states - always": a run is
\* found under the speaker its voice is attributed to.
SearchAgrees == \A r \in Run : Open(r) => FoundUnder(r) = AttributedTo(r)
================================================================================
