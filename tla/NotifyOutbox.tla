----------------------------- MODULE NotifyOutbox ------------------------------
(***************************************************************************)
(* The webhook outbox of one run: the rows its transitions leave in        *)
(* notification_deliveries, and the sweeps that deliver them.  Every       *)
(* action is one database transaction or one POST; between two of them a   *)
(* sweep holds only what it copied when it claimed.                        *)
(*                                                                         *)
(* The sweep looks at nothing of the run but its revision, so the run is   *)
(* its revision: any transition may follow any other.  A row is keyed by   *)
(* the revision it arrived at.  A clock column is a flag: `ripe` says that *)
(* next_attempt_at (pending) or the lease (in_flight) has passed; `lease`  *)
(* numbers the values lease_expires_at takes, a reclaim's being later than *)
(* the one it found lapsed.  Status "purged" is a deleted row, "none" one  *)
(* that never was; no code tells them apart.                               *)
(***************************************************************************)
EXTENDS Naturals, FiniteSets

CONSTANTS
    Sweeps,          \* delivery sweeps that may overlap
    MaxAttempts,     \* settings.notify_max_attempts
    BatchLimit,      \* settings.notify_batch_limit
    MaxRev,          \* bound: revisions of the run
    MaxTrouble       \* bound: sweeps that die, rows whose delivery raises,
                     \* leases that lapse under a living sweep

ASSUME OutboxAssumption ==
    /\ MaxAttempts \in Nat \ {0}
    /\ BatchLimit \in Nat \ {0}
    /\ MaxRev \in Nat
    /\ MaxTrouble \in Nat

VARIABLES
    rev,             \* pipeline_runs.revision
    outbox,          \* outbox[r]: the row of the transition that arrived at r
    told,            \* arrivals the receiver has got (its side of the wire)
    refused,         \* history: POSTs of r that did not come back with a 2xx
    sweeps,          \* [pc, batch, cur, verdict] of each sweep
    trouble          \* what is left of MaxTrouble

vars == <<rev, outbox, told, refused, sweeps, trouble>>

Revision == 1..MaxRev
NotifiableEvent == {"awaiting_adjudication", "completed", "failed"}
Settled == {"delivered", "suppressed", "dead"}
RowStatus == {"none", "pending", "in_flight", "purged"} \cup Settled

NoRow == [status |-> "none", event |-> "none", attempts |-> 0, lease |-> 0, ripe |-> FALSE]

\* record_transition's values; a FAILED arrival is held back for a while.
PendingRow(event) ==
    [status |-> "pending", event |-> event, attempts |-> 0, lease |-> 0,
     ripe |-> event # "failed"]

NoClaim == [rev |-> 0, event |-> "none", attempts |-> 0, lease |-> 0]

Idle == [pc |-> "idle", batch |-> {}, cur |-> NoClaim, verdict |-> "none"]

Init ==
    /\ rev = 0
    /\ outbox = [r \in Revision |-> NoRow]
    /\ told = {}
    /\ refused = [r \in Revision |-> 0]
    /\ sweeps = [s \in Sweeps |-> Idle]
    /\ trouble = MaxTrouble

-----------------------------------------------------------------------------
(* The run. *)

\* record_transition: one row per notifiable arrival, none if the key is taken.
Recorded(rows, r, event) ==
    IF event \in NotifiableEvent /\ rows[r].status = "none"
    THEN [rows EXCEPT ![r] = PendingRow(event)] ELSE rows

\* cas_update_run: the status and its row are one transaction.  (No transition
\* of the engine arrives at AWAITING_ADJUDICATION today.)
MoveRun(event) ==
    /\ rev < MaxRev
    /\ rev' = rev + 1
    /\ outbox' = Recorded(outbox, rev + 1, event)
    /\ UNCHANGED <<told, refused, sweeps, trouble>>

\* recover_interrupted_runs goes through FAILED on its way to QUEUED.
RecoverRun ==
    /\ rev + 1 < MaxRev
    /\ rev' = rev + 2
    /\ outbox' = Recorded(outbox, rev + 1, "failed")
    /\ UNCHANGED <<told, refused, sweeps, trouble>>

-----------------------------------------------------------------------------
(* A sweep. *)

At(s, pc) == sweeps[s].pc = pc
Become(s, state) == sweeps' = [sweeps EXCEPT ![s] = state]

\* Faulty variant of Due: a claimed row is its sweep's for good.
DueUnclaimed == {r \in Revision : outbox[r].status = "pending" /\ outbox[r].ripe}

\* _claim_due's WHERE clause.
Due == {r \in Revision : outbox[r].status \in {"pending", "in_flight"} /\ outbox[r].ripe}

\* Faulty variant of Leased: the reclaim leaves the lapsed lease in the row.
LeasedAgain(row) ==
    [status |-> "in_flight", event |-> row.event, attempts |-> row.attempts,
     lease |-> IF row.status = "in_flight" THEN row.lease ELSE row.lease + 1, ripe |-> FALSE]

Leased(row) ==
    [status |-> "in_flight", event |-> row.event, attempts |-> row.attempts,
     lease |-> row.lease + 1, ripe |-> FALSE]

ClaimOf(r) ==
    [rev |-> r, event |-> outbox[r].event, attempts |-> outbox[r].attempts,
     lease |-> Leased(outbox[r]).lease]

\* _claim_due: lease up to BatchLimit due rows, all but those an overlapping
\* sweep has locked.
ClaimDue(s) ==
    /\ At(s, "idle")
    /\ \E rows \in SUBSET Due :
           /\ Cardinality(rows) <= BatchLimit
           /\ Due # {} => rows # {}
           /\ outbox' = [r \in Revision |-> IF r \in rows THEN Leased(outbox[r]) ELSE outbox[r]]
           /\ Become(s, [Idle EXCEPT !.pc = "next", !.batch = {ClaimOf(r) : r \in rows}])
    /\ UNCHANGED <<rev, told, refused, trouble>>

\* _run_advanced_past
AdvancedPast(claim) == rev > claim.rev

\* The next row of the batch: a failure the run moved past is withheld.
TakeRow(s) ==
    /\ At(s, "next")
    /\ \E c \in sweeps[s].batch :
           Become(s, [batch |-> sweeps[s].batch \ {c}, cur |-> c,
                      pc |-> IF c.event = "failed" /\ AdvancedPast(c) THEN "record" ELSE "post",
                      verdict |-> IF c.event = "failed" /\ AdvancedPast(c)
                                  THEN "suppressed" ELSE "none"])
    /\ UNCHANGED <<rev, outbox, told, refused, trouble>>

\* What a POST of the claim is recorded as.
Verdict(claim, answer) ==
    IF answer = "ok" THEN "delivered"
    ELSE IF claim.attempts + 1 >= MaxAttempts THEN "dead" ELSE "pending"

\* The POST: acknowledged, refused, or received with its answer lost.
Post(s) ==
    /\ At(s, "post")
    /\ \E answer \in {"ok", "refused", "lost"} :
           LET c == sweeps[s].cur
           IN /\ told' = IF answer = "refused" THEN told ELSE told \cup {c.rev}
              /\ refused' = IF answer = "ok" THEN refused
                            ELSE [refused EXCEPT ![c.rev] = @ + 1]
              /\ Become(s, [sweeps[s] EXCEPT !.pc = "record", !.verdict = Verdict(c, answer)])
    /\ UNCHANGED <<rev, outbox, trouble>>

\* Faulty variant of Owns: the outcome is written to whoever is in flight.
OwnsAny(claim) == outbox[claim.rev].status = "in_flight"

\* _finish's WHERE clause.
Owns(claim) ==
    outbox[claim.rev].status = "in_flight" /\ outbox[claim.rev].lease = claim.lease

\* The values _deliver_one passes to _finish.
Finished(claim, verdict) ==
    [status |-> verdict, event |-> claim.event, lease |-> claim.lease, ripe |-> FALSE,
     attempts |-> IF verdict = "suppressed" THEN claim.attempts ELSE claim.attempts + 1]

\* _finish: lost ownership writes nothing.
Record(s) ==
    /\ At(s, "record")
    /\ LET c == sweeps[s].cur
       IN outbox' = IF Owns(c) THEN [outbox EXCEPT ![c.rev] = Finished(c, sweeps[s].verdict)]
                    ELSE outbox
    /\ Become(s, [sweeps[s] EXCEPT !.pc = "next", !.cur = NoClaim, !.verdict = "none"])
    /\ UNCHANGED <<rev, told, refused, trouble>>

\* Faulty variant of Expendable: a row given up on is old enough too.
AnySettled == {r \in Revision : outbox[r].status \in Settled}

\* The rows purge_expired_deliveries may delete once they are old enough.
Expendable == {r \in Revision : outbox[r].status \in {"delivered", "suppressed"}}

\* The batch is done: notify_sweep purges, and ends.
EndSweep(s) ==
    /\ At(s, "next") /\ sweeps[s].batch = {}
    /\ \E rows \in SUBSET Expendable :
           /\ Cardinality(rows) <= BatchLimit
           /\ outbox' = [r \in Revision |->
                            IF r \in rows THEN [outbox[r] EXCEPT !.status = "purged"]
                            ELSE outbox[r]]
    /\ Become(s, Idle)
    /\ UNCHANGED <<rev, told, refused, trouble>>

Sweep(s) == ClaimDue(s) \/ TakeRow(s) \/ Post(s) \/ Record(s) \/ EndSweep(s)

-----------------------------------------------------------------------------
(* Time and misfortune. *)

\* The claims a sweep still means to record.
InHand(me) == me.batch \cup (IF me.pc \in {"post", "record"} THEN {me.cur} ELSE {})
Holds(s) == InHand(sweeps[s])

Strike == trouble > 0 /\ trouble' = trouble - 1

Held(r) == \E s \in Sweeps : \E c \in Holds(s) : c.rev = r /\ Owns(c)

\* next_attempt_at passes, or the lease does; a lease that lapses under a
\* living sweep is a batch that took too long.
Ripen(r) ==
    /\ outbox[r].status \in {"pending", "in_flight"} /\ ~outbox[r].ripe
    /\ outbox' = [outbox EXCEPT ![r].ripe = TRUE]
    /\ IF Held(r) THEN Strike ELSE UNCHANGED trouble
    /\ UNCHANGED <<rev, told, refused, sweeps>>

\* The sweep's process dies.
Crash(s) ==
    /\ ~At(s, "idle") /\ Strike
    /\ Become(s, Idle)
    /\ UNCHANGED <<rev, outbox, told, refused>>

\* deliver_due's except: the row stays in flight, the batch goes on.
RowRaises(s) ==
    /\ sweeps[s].pc \in {"post", "record"} /\ Strike
    /\ Become(s, [sweeps[s] EXCEPT !.pc = "next", !.cur = NoClaim, !.verdict = "none"])
    /\ UNCHANGED <<rev, outbox, told, refused>>

Next ==
    \/ \E event \in {"completed", "failed", "none"} : MoveRun(event)
    \/ RecoverRun
    \/ \E s \in Sweeps : Sweep(s) \/ Crash(s) \/ RowRaises(s)
    \/ \E r \in Revision : Ripen(r)

Spec == Init /\ [][Next]_vars

-----------------------------------------------------------------------------
(* Properties. *)

Row == [status : RowStatus, event : NotifiableEvent \cup {"none"}, attempts : Nat,
        lease : Nat, ripe : BOOLEAN]

Claimed == [rev : Revision, event : NotifiableEvent, attempts : Nat, lease : Nat]

Sweeper == [pc : {"idle", "next", "post", "record"}, batch : SUBSET Claimed,
            cur : Claimed \cup {NoClaim}, verdict : {"none", "pending"} \cup Settled]

\* Rows, claims and sweeps have the shape the classes declare.
TypeOK ==
    /\ rev \in 0..MaxRev
    /\ outbox \in [Revision -> Row]
    /\ told \in SUBSET Revision
    /\ refused \in [Revision -> Nat]
    /\ sweeps \in [Sweeps -> Sweeper]
    /\ trouble \in Nat

\* However leases lapse, at most one sweep can still record an arrival's outcome
\* (_finish: the lease is the ownership).
OneOwner ==
    \A s, t \in Sweeps : \A c \in Holds(s), d \in Holds(t) :
        c.rev = d.rev /\ Owns(c) /\ Owns(d) => s = t

\* The POSTs of an arrival that go wrong are bounded by the attempts plus the
\* sweeps that died or were overtaken: a late writer never gives attempts back.
RetriesBounded ==
    \A r \in Revision :
        refused[r] <= MaxAttempts + (MaxTrouble - trouble)

\* The outbox keeps the board's promise: an arrival is closed only because the
\* receiver has it, it is stale, or it was tried often enough, and stays closed.
FateOf(status) ==
    CASE status \in {"pending", "in_flight"} -> "open"
      [] status = "delivered" -> "told"
      [] status = "suppressed" -> "withdrawn"
      [] status = "dead" -> "abandoned"
      [] OTHER -> "gone"

Board == INSTANCE NewsBoard
             WITH news <- [r \in Revision |-> [event |-> outbox[r].event,
                                               fate |-> FateOf(outbox[r].status)]]
ImplementsBoard == Board!BoardSpec

\* Beat keeps firing sweeps, sweeps make progress, clocks advance.
Fairness ==
    /\ \A s \in Sweeps : WF_vars(Sweep(s))
    /\ \A r \in Revision : WF_vars(Ripen(r))

FairSpec == Spec /\ Fairness

\* Every arrival is settled in the end: delivered, suppressed or given up on,
\* whichever sweep died with it in flight.
EveryArrivalSettles ==
    \A r \in Revision :
        outbox[r].status \in {"pending", "in_flight"} ~> outbox[r].status \in Settled
=============================================================================
