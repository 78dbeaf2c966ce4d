-------------------------------- MODULE Review --------------------------------
(***************************************************************************)
(* The reviewer slot of a run, the append-only ledger of speaker rulings   *)
(* and the part of the speaker roster they name.                           *)
(*                                                                         *)
(* A slot is one request in flight, with its database transaction.  Its    *)
(* rows are stamped with the transaction's start (created_at defaults to   *)
(* now()), so rulings may commit in another order than their stamps say.   *)
(* An Admit action takes the row lock of the run, checks what was posted   *)
(* and decides what to write; Commit writes it and gives the locks back;   *)
(* nobody else sees anything between.  What a request posts is chosen when *)
(* it is looked at, from what its client knew when it was sent.  Abort is  *)
(* a refusal, an expired grace or a lost connection.                       *)
(***************************************************************************)
EXTENDS Naturals, FiniteSets

CONSTANTS
    Run, Speaker, Reviewer,
    Known,          \* speakers on the roster from the start
    Slot,           \* requests in flight at a time
    None,           \* no speaker, no reviewer
    MaxStamp,       \* bound: requests that rule or undo
    MaxTokens,      \* bound: claims asked for
    MaxTrouble      \* bound: expiries, releases, restarts, aborts, roster changes

ASSUME ReviewAssumption ==
    /\ Known \subseteq Speaker /\ None \notin Speaker \cup Reviewer
    /\ MaxStamp \in Nat /\ MaxTokens \in Nat /\ MaxTrouble \in Nat

VARIABLES
    run,            \* run[r]: status, revision, generation of its segments, claim
    speaker,        \* speaker[s]: "unborn", "active" or "archived"
    ledger,         \* the committed rulings
    voices,         \* the enrolled embeddings
    slot,           \* the requests in flight
    clock, minted,  \* stamps and tokens given out
    trouble         \* what is left of MaxTrouble

vars == <<run, speaker, ledger, voices, slot, clock, minted, trouble>>

Stamp == 1 .. MaxStamp
Token == 1 .. MaxTokens

\* `key` is the client's nonce, named after the first request that carried
\* it; the row of a segment's undo is keyed by the ruling it undoes.
Row == [stamp : Stamp \cup {0}, run : Run, scope : {"label", "segment"},
        verdict : {"assign", "exclude", "inherit", "revoke"},
        speaker : Speaker \cup {None}, key : Stamp \cup {0},
        voids : Stamp \cup {0}, undoes : Stamp \cup {0}, generation : 0 .. MaxTrouble]

Voice == [speaker : Speaker, run : Run, ruling : Stamp]

NoClaim == [token |-> 0, by |-> None, live |-> FALSE]

-------------------------------------------------------------------------------
\* Reading the ledger.

Voided(x, L) == \E y \in L : y.verdict = "revoke" /\ y.voids = x.stamp

\* The segment of the ruling was deleted by a restart (ON DELETE SET NULL).
Detached(x) == x.scope = "segment" /\ x.generation < run[x.run].generation

\* The newest by created_at; stamps are distinct within a scope.
Newest(S) == {x \in S : \A y \in S : y.stamp <= x.stamp}

\* effective_decisions: rows without a segment, detached ones among them.
LabelRows(r, L) ==
    {x \in L : /\ x.run = r /\ x.verdict # "revoke"
               /\ x.scope = "label" \/ Detached(x)
               /\ ~Voided(x, L)}

\* segment_states and _scope_history: voids are not consulted.
SegmentRows(r, L) ==
    {x \in L : x.run = r /\ x.scope = "segment" /\ ~Detached(x)}

Effective(scope, r, L) ==
    Newest(IF scope = "label" THEN LabelRows(r, L) ELSE SegmentRows(r, L))

\* What a reader of the scope is shown; inherit is nothing of its own.
Shown(scope, r, L) ==
    {<<x.verdict, x.speaker>> : x \in {y \in Effective(scope, r, L) : y.verdict # "inherit"}}

HasLiveRuling(s, L) ==
    \E x \in L : /\ x.speaker = s /\ ~Detached(x) /\ ~Voided(x, L)
                 /\ x.scope = "label" \/ x \in Effective("segment", x.run, L)

\* _archive_if_orphaned, of the committed rows and the request's own.
Orphan(s, V, L) == ~(\E v \in V : v.speaker = s) /\ ~HasLiveRuling(s, L)

Revoke(x, key) ==
    [stamp |-> 0, run |-> x.run, scope |-> "label", verdict |-> "revoke", speaker |-> None,
     key |-> key, voids |-> x.stamp, undoes |-> 0, generation |-> 0]

NewRow(stamp, r, scope, verdict, s, key) ==
    [stamp |-> stamp, run |-> r, scope |-> scope, verdict |-> verdict, speaker |-> s,
     key |-> key, voids |-> 0, undoes |-> 0, generation |-> run[r].generation]

-------------------------------------------------------------------------------
\* Locks.

Idle == [at |-> "idle"]
Holding(q, r) == slot[q].at = "holding" /\ slot[q].run = r
RunFree(r) == \A q \in Slot : ~Holding(q, r)

\* Faulty variant of Sharing: the speaker is read without FOR SHARE.
SharingNobody(q, s) == slot[q].at = "holding" /\ s = None

\* FOR SHARE on the speaker a ruling names, until the request ends.
Sharing(q, s) == slot[q].at = "holding" /\ s \in slot[q].shared
SpeakerFree(s) == \A q \in Slot : ~Sharing(q, s)

\* The insert of a name another open transaction has inserted waits for it.
NameFree(s) ==
    \A q \in Slot : slot[q].at = "holding" => \A v \in slot[q].born : v.speaker # s

Open(r) == run[r].status = "completed"

\* Faulty variant of Verified: any live claim of the run will do.
VerifiedByAnyone(r, token) == Open(r) /\ token # 0 /\ run[r].claim.live

\* verify_claim with for_update
Verified(r, token) == Open(r) /\ run[r].claim.token = token /\ run[r].claim.live

\* Every request of a tab verifies its token, which it had when it was sent;
\* name_voice has none and wants no live claim.
Entitled(q, op, r, token) ==
    IF op = "name" THEN token = 0 /\ Open(r) /\ ~run[r].claim.live
    ELSE token \in 1 .. slot[q].tokens /\ Verified(r, token)

Nothing == [of |-> 0, token |-> 0, shared |-> {}, write |-> {}, born |-> {}, orphans |-> {}]

\* The bound: these happen a few times only.
Spend(op) ==
    IF op \in {"wipe", "rerun", "release", "expire", "curate", "abort"}
    THEN trouble > 0 /\ trouble' = trouble - 1 ELSE UNCHANGED trouble

Hold(q, op, r, effects) ==
    /\ RunFree(r)
    /\ slot' = [slot EXCEPT ![q] =
           [at |-> "holding", op |-> op, run |-> r, of |-> effects.of,
            token |-> effects.token, shared |-> effects.shared, write |-> effects.write,
            born |-> effects.born, orphans |-> effects.orphans]]
    /\ Spend(op) /\ UNCHANGED <<run, speaker, ledger, voices, clock, minted>>

-------------------------------------------------------------------------------
\* A request that rules or undoes arrives.

Begin(q) ==
    /\ slot[q].at = "idle" /\ clock < MaxStamp
    /\ clock' = clock + 1
    /\ slot' = [slot EXCEPT ![q] = [at |-> "begun", stamp |-> clock + 1, tokens |-> minted,
                                    knew |-> {x.stamp : x \in ledger} \ {0}]]
    /\ UNCHANGED <<run, speaker, ledger, voices, minted, trouble>>

\* A double click, or the retry of a request whose answer was lost, carries
\* the nonce of the row its first attempt left; record_decision adopts a row
\* that says the same.
Nonces(q, r, scope, verdict, s) ==
    {slot[q].stamp} \cup
    {x.key : x \in {y \in ledger : /\ y.run = r /\ y.scope = scope /\ y.verdict = verdict
                                   /\ y.speaker = s /\ y.undoes = 0}}

\* Faulty variant of Recorded: the key is never looked up.
NeverRecorded(key) == key = 0

Recorded(key) == \E x \in ledger : x.verdict # "revoke" /\ x.undoes = 0 /\ x.key = key

\* decide, relabel_segment and, for a name on the roster, name_voice, which
\* makes its own nonce and has nothing to do when the label shows that speaker
Forms(op) == IF op = "relabel" THEN {"assign", "inherit"}
             ELSE IF op = "rule" THEN {"assign", "exclude"} ELSE {"assign"}

Scope(op) == IF op = "relabel" THEN "segment" ELSE "label"

Rule(q, op, r, token, verdict, s, key) ==
    LET done == \/ Recorded(key)
                \/ op = "name" /\ <<verdict, s>> \in Shown(Scope(op), r, ledger)
        row == NewRow(slot[q].stamp, r, Scope(op), verdict, s, key)
    IN /\ Entitled(q, op, r, token)
       /\ verdict = "assign" <=> s # None
       /\ s # None => speaker[s] = "active"
       /\ op = "name" => key = slot[q].stamp
       /\ Hold(q, op, r,
               [Nothing EXCEPT !.token = token, !.shared = {s} \ {None},
                               !.write = IF done THEN {} ELSE {row}])

AdmitRuling(q) ==
    /\ slot[q].at = "begun"
    /\ \E op \in {"rule", "relabel", "name"}, r \in Run, token \in 0 .. MaxTokens :
        \E verdict \in Forms(op), s \in Speaker \cup {None} :
            \E key \in Nonces(q, r, Scope(op), verdict, s) : Rule(q, op, r, token, verdict, s, key)

\* enroll_new_speaker: a speaker, its ruling and its voice, or nothing
Enroll(q, op, r, token, s, key) ==
    LET row == NewRow(slot[q].stamp, r, "label", "assign", s, key)
        voice == [speaker |-> s, run |-> r, ruling |-> slot[q].stamp]
    IN /\ Entitled(q, op, r, token)
       /\ op = "name" => key = slot[q].stamp
       /\ \/ Recorded(key) /\ Hold(q, op, r, [Nothing EXCEPT !.token = token])
          \/ /\ ~Recorded(key) /\ speaker[s] = "unborn" /\ NameFree(s)
             /\ Hold(q, op, r, [Nothing EXCEPT !.token = token, !.write = {row},
                                               !.born = {voice}])

AdmitEnroll(q) ==
    /\ slot[q].at = "begun"
    /\ \E op \in {"enroll", "name"}, r \in Run, token \in 0 .. MaxTokens, s \in Speaker :
        \E key \in Nonces(q, r, "label", "assign", s) : Enroll(q, op, r, token, s, key)

\* undo_decision and undo_enrollment: a REVOKE of the effective ruling
AdmitLabelUndo(q) ==
    /\ slot[q].at = "begun"
    /\ \E op \in {"undo_rule", "undo_enroll"}, x \in ledger, token \in Token :
        LET spoken == {v \in voices : v.ruling = x.stamp}
            revoke == Revoke(x, slot[q].stamp)
            orphans == {s \in {x.speaker} :
                           spoken # {} /\ Orphan(s, voices \ spoken, ledger \cup {revoke})}
        IN /\ Entitled(q, op, x.run, token)
           /\ x.stamp \in slot[q].knew /\ x.scope = "label"
           /\ IF op = "undo_rule" THEN spoken = {} ELSE x.verdict = "assign"
           /\ IF Voided(x, ledger)
              THEN Hold(q, op, x.run, [Nothing EXCEPT !.token = token])
              ELSE /\ x \in Effective("label", x.run, ledger)
                   /\ Hold(q, op, x.run,
                           [Nothing EXCEPT !.of = x.stamp, !.token = token,
                                           !.write = {revoke}, !.orphans = orphans])

\* undo_segment_decision: the ruling before it, again.  Whether its speaker
\* is archived is read without a lock on the speaker.
\* Faulty variant of Before: one row too near in the history.
SameAgain(x) == Newest({y \in SegmentRows(x.run, ledger) : y.stamp <= x.stamp})

Before(x) == Newest({y \in SegmentRows(x.run, ledger) : y.stamp < x.stamp})

AdmitSegmentUndo(q) ==
    /\ slot[q].at = "begun"
    /\ \E x \in ledger, token \in Token :
        LET back == {y.speaker : y \in {z \in Before(x) : z.verdict = "assign"}}
            again(s) == [NewRow(slot[q].stamp, x.run, "segment",
                                IF s = None THEN "inherit" ELSE "assign", s, 0)
                         EXCEPT !.undoes = x.stamp]
        IN /\ Entitled(q, "undo_relabel", x.run, token)
           /\ x.stamp \in slot[q].knew /\ x.scope = "segment" /\ ~Detached(x)
           /\ IF \E y \in ledger : y.undoes = x.stamp
              THEN Hold(q, "undo_relabel", x.run, [Nothing EXCEPT !.token = token])
              ELSE /\ x \in Effective("segment", x.run, ledger)
                   /\ \A s \in back : speaker[s] = "active"
                   /\ Hold(q, "undo_relabel", x.run,
                           [Nothing EXCEPT !.of = x.stamp, !.token = token,
                                !.write = {again(s) : s \in IF back = {} THEN {None} ELSE back}])

\* Faulty variant of ToVoid: the rulings for whole labels only.
ToVoidOfLabels(r) ==
    {x \in ledger : /\ x.run = r /\ x.verdict # "revoke" /\ x.scope = "label"
                    /\ ~Voided(x, ledger)}

ToVoid(r) == {x \in ledger : x.run = r /\ x.verdict # "revoke" /\ ~Voided(x, ledger)}

\* restart_run, the operator having acknowledged what it costs.  From a stage
\* that deletes the segments it voids every ruling of the run first.
AdmitRestart(q) ==
    /\ slot[q].at = "idle"
    /\ \E op \in {"wipe", "rerun"}, r \in Run :
        LET revokes == {Revoke(x, 0) : x \in ToVoid(r)}
            spoken == {v \in voices : v.run = r}
            orphans == {s \in {v.speaker : v \in spoken} :
                           Orphan(s, voices \ spoken, ledger \cup revokes)}
        IN /\ run[r].status \in {"completed", "ended"}
           /\ Hold(q, op, r, IF op = "rerun" THEN Nothing
                             ELSE [Nothing EXCEPT !.write = revokes, !.orphans = orphans])

-------------------------------------------------------------------------------
\* The request's transaction ends.

Leave(q) == slot' = [slot EXCEPT ![q] = Idle]

\* The voices that go with the request: the undone ruling's, or the run's.
Silenced(q) ==
    {v \in voices : \/ slot[q].op = "undo_enroll" /\ v.ruling = slot[q].of
                    \/ slot[q].op = "wipe" /\ v.run = slot[q].run}

Requeued(r, wipe) ==
    [run EXCEPT ![r] = [status |-> "processing", revision |-> @.revision + 1,
                        generation |-> IF wipe THEN @.generation + 1 ELSE @.generation,
                        claim |-> NoClaim]]

\* archive_speaker locks the speaker: it waits for the rulings that share it.
Commit(q) ==
    LET born == {v.speaker : v \in slot[q].born}
    IN /\ slot[q].at = "holding"
       /\ \A s \in slot[q].orphans : SpeakerFree(s)
       /\ ledger' = ledger \cup slot[q].write
       /\ voices' = (voices \ Silenced(q)) \cup slot[q].born
       /\ speaker' = [s \in Speaker |-> IF s \in born THEN "active"
                                        ELSE IF s \in slot[q].orphans THEN "archived"
                                        ELSE speaker[s]]
       /\ run' = IF slot[q].op \in {"wipe", "rerun"}
                 THEN Requeued(slot[q].run, slot[q].op = "wipe") ELSE run
       /\ Leave(q) /\ UNCHANGED <<clock, minted, trouble>>

Abort(q) ==
    /\ slot[q].at # "idle" /\ Leave(q)
    /\ Spend("abort") /\ UNCHANGED <<run, speaker, ledger, voices, clock, minted>>

-------------------------------------------------------------------------------
\* The claim.  claim_run and release_run read without a lock and write where
\* the revision is still the one they read; the UPDATE waits for the run's
\* lock.

Read(q, op, r, token, by) ==
    /\ slot[q].at = "idle"
    /\ slot' = [slot EXCEPT ![q] = [at |-> "read", op |-> op, run |-> r, token |-> token,
                                    by |-> by, seen |-> run[r].revision]]
    /\ Spend(op) /\ UNCHANGED <<run, speaker, ledger, voices, clock>>

ReadClaim(q) ==
    \E r \in Run, by \in Reviewer :
        /\ Open(r) /\ run[r].claim.live => run[r].claim.by = by
        /\ minted < MaxTokens /\ minted' = minted + 1
        /\ Read(q, "claim", r, minted + 1, by)

\* refresh_run_claim takes the time before its UPDATE, which may wait.
ReadRefresh(q) ==
    \E r \in Run :
        /\ run[r].claim.live
        /\ Read(q, "refresh", r, run[r].claim.token, run[r].claim.by) /\ UNCHANGED minted

ReadRelease(q) ==
    \E r \in Run :
        /\ run[r].claim.token # 0
        /\ Read(q, "release", r, run[r].claim.token, run[r].claim.by) /\ UNCHANGED minted

WriteClaim(q) ==
    LET r == slot[q].run
        same == run[r].revision = slot[q].seen
        held == [token |-> slot[q].token, by |-> slot[q].by, live |-> TRUE]
        Set(claim, revision) == [run EXCEPT ![r].claim = claim, ![r].revision = revision]
    IN /\ slot[q].at = "read" /\ RunFree(r)
       /\ \/ slot[q].op = "claim" /\ same /\ run' = Set(held, run[r].revision + 1)
          \/ slot[q].op = "release" /\ same /\ run' = Set(NoClaim, run[r].revision + 1)
          \/ /\ slot[q].op = "refresh" /\ Open(r) /\ run[r].claim.token = slot[q].token
             /\ run' = Set(held, run[r].revision)
       /\ Leave(q) /\ UNCHANGED <<speaker, ledger, voices, clock, minted, trouble>>

\* review_claim_expires_at passes
Expire(r) ==
    /\ run[r].claim.live
    /\ run' = [run EXCEPT ![r].claim.live = FALSE]
    /\ Spend("expire") /\ UNCHANGED <<speaker, ledger, voices, slot, clock, minted>>

-------------------------------------------------------------------------------
\* The roster page and the pipeline.

Curate(s, from, to) ==
    /\ speaker[s] = from /\ SpeakerFree(s)
    /\ speaker' = [speaker EXCEPT ![s] = to]
    /\ Spend("curate") /\ UNCHANGED <<run, ledger, voices, slot, clock, minted>>

ArchiveSpeaker(s) == Curate(s, "active", "archived")
RestoreSpeaker(s) == Curate(s, "archived", "active")

\* The restarted run comes to its end, whatever that is.
Finish(r) ==
    /\ run[r].status = "processing"
    /\ \E status \in {"completed", "ended"} :
          run' = [run EXCEPT ![r].status = status, ![r].revision = @ + 1]
    /\ UNCHANGED <<speaker, ledger, voices, slot, clock, minted, trouble>>

-------------------------------------------------------------------------------
Init ==
    /\ run = [r \in Run |-> [status |-> "completed", revision |-> 0, generation |-> 0,
                             claim |-> NoClaim]]
    /\ speaker = [s \in Speaker |-> IF s \in Known THEN "active" ELSE "unborn"]
    /\ ledger = {} /\ voices = {}
    /\ slot = [q \in Slot |-> Idle]
    /\ clock = 0 /\ minted = 0 /\ trouble = MaxTrouble

Next ==
    \/ \E q \in Slot :
        \/ Begin(q) \/ AdmitRuling(q) \/ AdmitEnroll(q) \/ AdmitLabelUndo(q) \/ AdmitSegmentUndo(q)
        \/ AdmitRestart(q) \/ Commit(q) \/ Abort(q)
        \/ ReadClaim(q) \/ ReadRefresh(q) \/ ReadRelease(q) \/ WriteClaim(q)
    \/ \E r \in Run : Expire(r) \/ Finish(r)
    \/ \E s \in Speaker : ArchiveSpeaker(s) \/ RestoreSpeaker(s)

Spec == Init /\ [][Next]_vars

-------------------------------------------------------------------------------
\* Each variable holds values of its kind, and no two requests hold the lock
\* of one run.
TypeOK ==
    /\ run \in [Run -> [status : {"completed", "processing", "ended"}, revision : Nat,
                        generation : 0 .. MaxTrouble,
                        claim : [token : Token \cup {0}, by : Reviewer \cup {None},
                                 live : BOOLEAN]]]
    /\ speaker \in [Speaker -> {"unborn", "active", "archived"}]
    /\ ledger \subseteq Row /\ voices \subseteq Voice
    /\ clock \in 0 .. MaxStamp /\ minted \in 0 .. MaxTokens /\ trouble \in 0 .. MaxTrouble
    /\ \A q \in Slot : slot[q].at \in {"idle", "begun", "read", "holding"}
    /\ \A p, q \in Slot, r \in Run : Holding(p, r) /\ Holding(q, r) => p = q

\* slots.py:116, verify_claim: "a token that verifies cannot go stale between
\* the check and the commit".  Whatever claims, refreshes, releases, restarts
\* and completions run beside it, a request that holds a run's lock writes
\* under the token that is the run's, and a naming from the command line
\* while no claim is live.
TokenStaysGood ==
    \A q \in Slot : slot[q].at = "holding" /\ slot[q].op \notin {"wipe", "rerun"} =>
        LET r == slot[q].run
        IN /\ Open(r)
           /\ IF slot[q].op = "name" THEN ~run[r].claim.live
              ELSE run[r].claim.token = slot[q].token

\* adjudication_api.py:624, decide: "the active check and the ledger append
\* below serialize with roster curation instead of racing it".  The speaker a
\* ruling is about to name is on the roster until the ruling is committed, or
\* comes to it by the same commit.
NamedSpeakerActive ==
    \A q \in Slot : slot[q].at = "holding" /\ slot[q].op # "undo_relabel" =>
        \A x \in slot[q].write : x.speaker # None =>
            \/ speaker[x.speaker] = "active"
            \/ \E v \in slot[q].born : v.speaker = x.speaker /\ speaker[x.speaker] = "unborn"

\* undo.py:357: "a ruling is undone at most once", and a request sent again,
\* under a new token or beside its first attempt, rules once.
RuledAndUndoneOnce ==
    \A x, y \in ledger :
        /\ x.undoes # 0 /\ x.undoes = y.undoes => x = y
        /\ x.voids # 0 /\ x.voids = y.voids => x = y
        /\ x.voids = 0 /\ y.voids = 0 /\ x.undoes = 0 /\ y.undoes = 0 /\ x.key = y.key
              => x = y

\* Neither a restart nor an undo leaves a remnant.  A restart that deletes the
\* segments voids every ruling first (ingest/service.py:1409), so that no
\* ruling for a segment that is gone, which the read path would take for one
\* of the whole label, is effective; and a voice in the roster goes back to a
\* ruling that stands and names its speaker (undo.py:264 sends the undo of an
\* enrollment to its own endpoint).
NoRemnants ==
    /\ \A x \in ledger : Detached(x) => Voided(x, ledger)
    /\ \A v \in voices : \E x \in ledger :
          /\ x.stamp = v.ruling /\ x.speaker = v.speaker /\ x.run = v.run
          /\ x.verdict = "assign" /\ x.scope = "label" /\ ~Voided(x, ledger)

\* What the undo of a ruling shows is what would be shown had the ruling never
\* been made, for a label (REVOKE) and a segment (a row that says again what
\* came before), whichever order the rulings were committed in.
UndoRestores ==
    [][\A x \in ledger : \A y \in ledger' \ ledger :
          /\ y.undoes = x.stamp \/ y.voids = x.stamp
          /\ x.verdict # "revoke"
          /\ run[x.run].generation = run'[x.run].generation
          => Shown(x.scope, x.run, ledger') = Shown(x.scope, x.run, ledger \ {x})]_vars

===============================================================================
