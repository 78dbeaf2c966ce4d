--------------------------- MODULE NotifyOutboxInv -----------------------------
(***************************************************************************)
(* The inductive invariant of NotifyOutbox: what a claim still in a        *)
(* sweep's hands says of the row it was copied from.                       *)
(***************************************************************************)
EXTENDS NotifyOutbox

\* Rows exist only for revisions the run has been at.
RowsArrived == \A r \in Revision : outbox[r].status # "none" => r <= rev

\* A row that exists is about a notifiable event.
RowsAreNews == \A r \in Revision : outbox[r].status # "none" => outbox[r].event \in NotifiableEvent

\* A row still open counts no more attempts than POSTs that went wrong.
AttemptsMade ==
    \A r \in Revision :
        outbox[r].status \in {"pending", "in_flight"} => outbox[r].attempts <= refused[r]

\* What a claim says of its row: the event never changes, the lease only grows,
\* and while it is the row's lease so are the attempts the row's.
ClaimFine(c) ==
    /\ c.rev \in Revision
    /\ outbox[c.rev].status # "none"
    /\ outbox[c.rev].event = c.event
    /\ c.lease <= outbox[c.rev].lease
    /\ Owns(c) => outbox[c.rev].attempts = c.attempts

ClaimsFine == \A s \in Sweeps : \A c \in Holds(s) : ClaimFine(c)

\* No two sweeps hold the same lease of a row, and no sweep holds it twice.
LeasesDiffer ==
    \A s, t \in Sweeps : \A c \in Holds(s), d \in Holds(t) :
        c.rev = d.rev /\ c.lease = d.lease => s = t /\ c = d

\* The row in hand is a claim, and not in the batch any more.
TakenFine(me) ==
    me.pc \in {"post", "record"} => me.cur # NoClaim /\ me.cur \notin me.batch

CurTaken == \A s \in Sweeps : TakenFine(sweeps[s])

\* A verdict not yet recorded is justified by what has happened.
VerdictFine(me) ==
    me.pc = "record" =>
        /\ me.verdict \in {"delivered", "suppressed", "dead", "pending"}
        /\ me.verdict = "delivered" => me.cur.rev \in told
        /\ me.verdict = "suppressed" => me.cur.event = "failed" /\ rev > me.cur.rev
        /\ me.verdict = "dead" => me.cur.attempts + 1 >= MaxAttempts
        /\ me.verdict \in {"dead", "pending"} /\ Owns(me.cur)
               => me.cur.attempts + 1 <= refused[me.cur.rev]

VerdictsFine == \A s \in Sweeps : VerdictFine(sweeps[s])

IInv ==
    /\ TypeOK
    /\ RowsArrived
    /\ RowsAreNews
    /\ AttemptsMade
    /\ ClaimsFine
    /\ LeasesDiffer
    /\ CurTaken
    /\ VerdictsFine

-----------------------------------------------------------------------------
(* The account of an arrival's attempts.  Each claim in hand whose POST is  *)
(* still to come may add a failure; the attempts in the row, what has gone  *)
(* wrong so far and the claim that owns the row pay for them.               *)

\* Claims in hand that have not been posted, and those that will not be.
Unposted(me) ==
    me.batch \cup (IF me.pc = "post" \/ (me.pc = "record" /\ me.verdict = "suppressed")
                   THEN {me.cur} ELSE {})

\* Claims of r still to be posted, by their leases: LeasesDiffer tells them apart.
Owed(r) ==
    {n \in 0 .. outbox[r].lease :
        \E s \in Sweeps : \E c \in Unposted(sweeps[s]) : c.rev = r /\ c.lease = n}

One(b) == IF b THEN 1 ELSE 0

\* The owner of the row may not be overtaken yet.
Safe(r) == Held(r) /\ ~outbox[r].ripe

\* An owner pays for the POST it may still make until its lease lapses: from
\* then on the row may be claimed over its head, and the lapse has been paid for.
Accounted(r) ==
    refused[r] + Cardinality(Owed(r)) + trouble
        <= outbox[r].attempts + MaxTrouble + One(Safe(r))

\* A row is open as long as it has an attempt left.
AttemptLeft(r) ==
    /\ outbox[r].attempts <= MaxAttempts
    /\ outbox[r].status \in {"none", "pending", "in_flight"} => outbox[r].attempts < MaxAttempts
    /\ outbox[r].status = "none" => outbox[r].attempts = 0

\* An idle sweep has nothing in hand, and a verdict of another try leaves one.
Thrifty(me) ==
    /\ me.pc = "idle" => me.batch = {}
    /\ me.pc = "record" /\ me.verdict = "pending" => me.cur.attempts + 1 < MaxAttempts

Accounts == \A r \in Revision : Accounted(r)

AttemptsLeft == \A r \in Revision : AttemptLeft(r)

Sparing == \A s \in Sweeps : Thrifty(sweeps[s])

Budget == Accounts /\ AttemptsLeft /\ Sparing
=============================================================================
