------------------------------- MODULE NewsBoard -------------------------------
(***************************************************************************)
(* What the webhook outbox promises, with no sweep, lease or batch in      *)
(* sight: every notifiable arrival of a run is open until the receiver has *)
(* it, until a failure is old news, or until MaxAttempts POSTs went wrong. *)
(* The detailed module NotifyOutbox implements this specification.         *)
(***************************************************************************)
EXTENDS Naturals

CONSTANTS
    MaxRev,          \* bound: revisions of the run
    MaxAttempts      \* settings.notify_max_attempts

Revision == 1..MaxRev
Event == {"awaiting_adjudication", "completed", "failed"}
Fate == {"open", "told", "withdrawn", "abandoned", "gone"}

VARIABLES
    rev,             \* the run's revision
    news,            \* news[r]: [event, fate] of the transition that arrived at r
    told,            \* arrivals the receiver has got
    refused          \* refused[r]: POSTs of r that did not come back with a 2xx

board == <<rev, news, told, refused>>

Quiet == [event |-> "none", fate |-> "gone"]

BoardInit ==
    /\ rev = 0
    /\ news = [r \in Revision |-> Quiet]
    /\ told = {}
    /\ refused = [r \in Revision |-> 0]

\* The run moves; whatever arrives is announced with it.
Announce ==
    /\ rev' \in Nat /\ rev' > rev
    /\ \A r \in Revision :
           news'[r] = news[r] \/ (r > rev /\ r <= rev' /\ news'[r].fate = "open")
    /\ UNCHANGED <<told, refused>>

\* The receiver may get an announced arrival any number of times.
Send(r) ==
    /\ news[r].event \in Event
    /\ told' \in {told, told \cup {r}}
    /\ refused' \in {refused, [refused EXCEPT ![r] = @ + 1]}
    /\ UNCHANGED <<rev, news>>

Closes(r, fate) ==
    /\ news[r].fate = "open"
    /\ news' = [news EXCEPT ![r] = [event |-> @.event, fate |-> fate]]
    /\ UNCHANGED <<rev, told, refused>>

Tell(r) == r \in told /\ Closes(r, "told")
Withdraw(r) == news[r].event = "failed" /\ rev > r /\ Closes(r, "withdrawn")
GiveUp(r) == refused[r] >= MaxAttempts /\ Closes(r, "abandoned")

\* Old rows are deleted, but never one that was given up on.
Forget ==
    /\ \A r \in Revision :
           \/ news'[r] = news[r]
           \/ news[r].fate \in {"told", "withdrawn"} /\ news'[r].fate = "gone"
    /\ UNCHANGED <<rev, told, refused>>

BoardNext ==
    \/ Announce \/ Forget
    \/ \E r \in Revision : Send(r) \/ Tell(r) \/ Withdraw(r) \/ GiveUp(r)

BoardSpec == BoardInit /\ [][BoardNext]_board

-----------------------------------------------------------------------------
(* What a board kept this way can be read for. *)

\* A closed arrival earned its fate: who is recorded as told was told, only a
\* failure the run has moved past is withdrawn, and nothing is given up on before
\* MaxAttempts POSTs of it went wrong (_deliver_one's three ways to settle a row).
FatesEarned ==
    \A r \in Revision :
        /\ news[r].fate = "told" => r \in told
        /\ news[r].fate = "withdrawn" => news[r].event = "failed" /\ rev > r
        /\ news[r].fate = "abandoned" => refused[r] >= MaxAttempts

\* A fate is final: an arrival of the past that is not open, whether it was never
\* announced, is settled or is purged, is never open again, so no sweep, however
\* late, posts it as due; and one given up on stays on the board for the operator
\* (purge_expired_deliveries spares it).
FatesFinal ==
    \A r \in Revision :
        /\ r <= rev /\ news[r].fate # "open" => news'[r].fate # "open"
        /\ news[r].fate = "abandoned" => news'[r] = news[r]

FatesAreFinal == [][FatesFinal]_board
=============================================================================
