-------------------------------- MODULE GpuPhase --------------------------------
(***************************************************************************)
(* Sharing one GPU between Voxint's model services and a language model.   *)
(* The phase task moves the row `row` (gpu_phase) at most one step a tick; *)
(* the workers admit queued work to a lane only while the row opens it;    *)
(* the host's broker stops and restores the language model on request.     *)
(*                                                                         *)
(* A tick is one transaction under an advisory lock.  It reads the row and *)
(* the lane counts, calls Docker and the broker, and writes the row under  *)
(* its lock; admissions and operator requests may commit between the read  *)
(* and the write.  A pass that finds the advisory lock taken does nothing. *)
(*                                                                         *)
(* Clocks are flags.  `age` is how many of the two thresholds of its phase *)
(* phase_since has passed (llm: the dwell; audio: the dwell, the maximum;  *)
(* acquiring, starting_services, releasing: the window), `due` says that   *)
(* retry_after has.  `ready` is a fresh answer of the language model.      *)
(***************************************************************************)
EXTENDS Naturals, FiniteSets

CONSTANTS
    Runs,           \* recordings; language-model jobs count as post-lane runs
    Services,       \* the model services on the GPU
    MaxOps,         \* bound: operator requests
    MaxCrashes,     \* bound: ticks that die before they commit
    MaxFaults,      \* bound: calls that fail, or are refused
    MaxExpiries,    \* bound: leases that expire at the broker
    MaxBoots        \* bound: services that start by themselves

ASSUME BoundsAssumption ==
    /\ MaxOps \in Nat /\ MaxCrashes \in Nat /\ MaxFaults \in Nat
    /\ MaxExpiries \in Nat /\ MaxBoots \in Nat

VARIABLES
    row,            \* [phase, lease, err, due, age, request, ready]
    askedIn,        \* history: the phase the pending request was made in
    tick,           \* the tick between its read and its write
    runs,           \* runs[r]: where the recording is
    running,        \* services that are up
    broker,         \* [state, lease] of the host's broker
    env             \* what is left of the bounds on the environment

vars == <<row, askedIn, tick, runs, running, broker, env>>

Phase == {"llm", "draining_post", "acquiring", "starting_services", "audio",
          "draining", "stopping_services", "releasing", "error"}
Request == {"audio", "release"}
Lease == 1..2           \* a fresh id need only differ from the one Voxint knows
Lane == {"gpu", "post"}

\* stopping: the language model is going down; orphan: the lease expired with the
\* services still loaded, so that the broker left the language model stopped.
BrokerState == {"free", "stopping", "held", "restoring", "orphan"}
Free == [state |-> "free", lease |-> 0]

NoTick == [pc |-> "idle", request |-> "none", demand |-> FALSE, busy |-> {}]

Init ==
    /\ row = [phase |-> "llm", lease |-> 0, err |-> FALSE, due |-> TRUE, age |-> 0,
              request |-> "none", ready |-> FALSE]
    /\ askedIn = "llm"
    /\ tick = NoTick
    /\ runs = [r \in Runs |-> "done"]
    /\ running = {}
    /\ broker = Free
    /\ env = [ops |-> MaxOps, crashes |-> MaxCrashes, faults |-> MaxFaults,
              expiries |-> MaxExpiries, boots |-> MaxBoots]

-----------------------------------------------------------------------------
(* The lanes. *)

At(where) == {r \in Runs : runs[r] = where}

\* Runs RUNNING in a lane: gpu_lane_in_flight, post_lane_in_flight and jobs.
InFlight(lane) == At([gpu |-> "gpuRunning", post |-> "postRunning"][lane])

\* Faulty variant of LaneOpen: a lane stays open while it drains.
LaneOpenDraining(lane) ==
    row.phase \in (IF lane = "gpu" THEN {"audio", "draining"} ELSE {"llm", "draining_post"})

\* _phase_opens
LaneOpen(lane) ==
    IF lane = "gpu" THEN row.phase = "audio" ELSE row.phase = "llm" /\ row.ready

Submit(r) ==
    /\ runs[r] = "done"
    /\ runs' = [runs EXCEPT ![r] = "gpuQueued"]
    /\ UNCHANGED <<row, askedIn, tick, running, broker, env>>

\* admit_lane reads the row FOR SHARE in the transaction that moves the work to
\* RUNNING: set_phase waits for it and it for set_phase.
Admit(r) ==
    /\ \/ runs[r] = "gpuQueued" /\ LaneOpen("gpu")
             /\ runs' = [runs EXCEPT ![r] = "gpuRunning"]
       \/ runs[r] = "postQueued" /\ LaneOpen("post")
             /\ runs' = [runs EXCEPT ![r] = "postRunning"]
    /\ UNCHANGED <<row, askedIn, tick, running, broker, env>>

\* The lane's work ends: on to the next lane, or back to the queue of this one.
Finish(r) ==
    /\ \/ runs[r] = "gpuRunning" /\ runs' \in {[runs EXCEPT ![r] = "postQueued"],
                                                [runs EXCEPT ![r] = "gpuQueued"]}
       \/ runs[r] = "postRunning" /\ runs' \in {[runs EXCEPT ![r] = "done"],
                                                 [runs EXCEPT ![r] = "postQueued"]}
    /\ UNCHANGED <<row, askedIn, tick, running, broker, env>>

\* set_request: an operator's request replaces the one before.
Ask(request) ==
    /\ env.ops > 0
    /\ row' = [row EXCEPT !.request = request]
    /\ askedIn' = row.phase
    /\ env' = [env EXCEPT !.ops = @ - 1]
    /\ UNCHANGED <<tick, runs, running, broker>>

-----------------------------------------------------------------------------
(* The broker and Docker, as the tick meets them.  An answer is a record:  *)
(* what Voxint is told, the broker afterwards, and the faults it costs.    *)

Answer(kind, lease, after, cost) ==
    [kind |-> kind, lease |-> lease, after |-> after, cost |-> cost]

Grants == {[state |-> "held", lease |-> id] : id \in Lease \ {row.lease}}
Stopping == [state |-> "stopping", lease |-> 0]

\* acquire with lease_id null.
NewLease ==
    LET s == broker.state
        granted == IF s = "held" THEN {broker} ELSE Grants
        failed(after) == Answer("failed", 0, after, 1)
    IN {failed(broker)}
       \cup (IF s \in {"free", "held", "orphan"}
             THEN {Answer("held", b.lease, b, 0) : b \in granted} \cup {failed(b) : b \in granted}
             ELSE {})
       \cup (IF s \in {"free", "stopping"}
             THEN {Answer("pending", 0, Stopping, 0), failed(Stopping)} ELSE {})
       \cup {Answer("busy", 0, broker, IF s = "restoring" THEN 0 ELSE 1)}

\* acquire with the current lease_id: 404 once the lease is not the broker's.  An
\* expiry that is behind the broker's own (an answer that got lost) reads as a loss.
Current(id) == broker.state = "held" /\ broker.lease = id

Renewal(id) ==
    {Answer(IF Current(id) THEN "held" ELSE "lost", id, broker, 0),
     Answer("failed", id, broker, 1), Answer("lost", id, broker, 1)}

Release(id) ==
    LET restoring == [state |-> "restoring", lease |-> id]
    IN IF broker.lease = id /\ broker.state \in {"held", "restoring"}
       THEN {Answer("pending", id, restoring, 0), Answer("failed", id, broker, 1),
             Answer("failed", id, restoring, 1), Answer("released", 0, Free, 0)}
       ELSE {Answer("released", 0, broker, 0), Answer("failed", id, broker, 1)}

\* status: a lease that is being given back may show as held or as free.
Status ==
    {Answer("failed", 0, broker, 1)}
    \cup (IF broker.state # "held" THEN {Answer("free", 0, broker, 0)} ELSE {})
    \cup (IF broker.state \in {"held", "restoring"} /\ broker.lease # 0
          THEN {Answer("held", broker.lease, broker, 0)} ELSE {})

-----------------------------------------------------------------------------
(* A tick.  Nothing but a tick writes the phase, the lease or the backoff, *)
(* so only the request and the counts it read can be out of date.          *)

ReadRow ==
    /\ tick.pc = "idle"
    /\ tick' = [pc |-> "read", request |-> row.request, demand |-> At("gpuQueued") # {},
                busy |-> {lane \in Lane : InFlight(lane) # {}}]
    /\ UNCHANGED <<row, askedIn, runs, running, broker, env>>

\* What set_phase leaves of the row in a phase: a new phase starts its own clock,
\* and only a tick that stays in llm opens the post lane.
To(phase) ==
    [row EXCEPT !.phase = phase, !.age = IF phase = row.phase THEN @ ELSE 0, !.ready = FALSE]

Failure(phase) == [To(phase) EXCEPT !.err = TRUE, !.due = FALSE]

Leasing(next, id) == [next EXCEPT !.lease = id]

\* Faulty variant of Consumed: cleared whatever the request is by now.
ConsumedBlindly(next) == [next EXCEPT !.request = "none"]

\* expected_request: a request that changed since the tick read it stays.
Consumed(next) == [next EXCEPT !.request = IF @ = tick.request THEN "none" ELSE @]

\* Where only a release is consumed.
Obeyed(next) == IF tick.request = "release" THEN Consumed(next) ELSE next

\* The transaction commits, or the worker dies after its calls and before that.
Commit(next, cost) ==
    /\ tick' = NoTick
    /\ cost <= env.faults
    /\ \/ row' = next /\ env' = [env EXCEPT !.faults = @ - cost]
       \/ /\ row' = row /\ env.crashes > 0
          /\ env' = [env EXCEPT !.faults = @ - cost, !.crashes = @ - 1]
    /\ askedIn' = IF row'.request = "none" THEN "llm" ELSE askedIn
    /\ UNCHANGED runs

\* The lease is kept current where Voxint has one; a renewal that failed counts
\* as a loss once lease_expires_at has passed.
Renewals == IF row.lease = 0 THEN {Answer("none", 0, broker, 0)} ELSE Renewal(row.lease)
Renewed(a, next) == IF a.kind = "held" THEN Leasing(next, a.lease) ELSE next
LeaseLost(a) ==
    \/ a.kind \in {"none", "lost"}
    \/ a.kind = "failed" /\ ~Current(row.lease)

\* Faulty variant of Wanted: a past failure keeps the GPU from being borrowed.
WantedUnlessFailed ==
    tick.request = "audio" \/ (tick.demand /\ row.age >= 1 /\ row.due /\ ~row.err)

Wanted == tick.request = "audio" \/ (tick.demand /\ row.age >= 1 /\ row.due)

\* Faulty variants of MustHandBack: each looks at one half only.
MustHandBackLease(a, seen) == a.kind = "held"
MustHandBackServices(a, seen) == seen # {}

\* llm finds services up or the GPU still Voxint's: neither alone proves the other.
MustHandBack(a, seen) == a.kind = "held" \/ seen # {}

\* The fault it takes for Docker to name fewer services RUNNING than run.
Unseen(seen) == IF seen = running THEN 0 ELSE 1

InLlm ==
    /\ UNCHANGED <<running, broker>>
    /\ \E answers \in BOOLEAN :        \* TRUE too when no language model is configured
        LET stay == [To("llm") EXCEPT !.ready = answers]
        IN \/ Commit([Failure("llm") EXCEPT !.ready = answers], 1)
           \/ \E a \in Status, seen \in SUBSET running :   \* an error reads as UNKNOWN
                 Commit(IF MustHandBack(a, seen) THEN Renewed(a, To("stopping_services"))
                        ELSE IF tick.request = "release" THEN [Consumed(stay) EXCEPT !.due = FALSE]
                        ELSE IF Wanted
                        THEN [Consumed(To("draining_post")) EXCEPT !.err = FALSE, !.due = TRUE]
                        ELSE stay, a.cost + Unseen(seen))

InDrainingPost ==
    /\ Commit(IF tick.request = "release" THEN Consumed(To("llm"))
              ELSE IF "post" \notin tick.busy THEN To("acquiring") ELSE To("draining_post"), 0)
    /\ UNCHANGED <<running, broker>>

InAcquiring ==
    \E a \in NewLease :
        /\ broker' = a.after
        /\ Commit(CASE a.kind = "held" ->
                          [Leasing(To("starting_services"), a.lease) EXCEPT !.err = FALSE]
                    [] a.kind = "pending" /\ row.age = 0 -> To("acquiring")
                    [] a.kind = "busy" -> Failure("llm")
                    [] OTHER -> Failure("releasing"), a.cost)
        /\ UNCHANGED running

\* Faulty variant of MayStart: only a lease known to be lost keeps services down.
MayStartUnlessLost(a) == a.kind # "lost"

MayStart(a) == a.kind = "held"

\* With the lease renewed, services that are down are started, and once all are
\* up they are probed; Docker may fail half way.
InStarting ==
    \E a \in Renewals, ready \in BOOLEAN, broken \in BOOLEAN, started \in SUBSET Services :
        LET up == running = Services
            stay == IF row.age >= 1 THEN Failure("stopping_services") ELSE To("starting_services")
            next == IF LeaseLost(a) \/ broken THEN Failure("stopping_services")
                    ELSE IF MayStart(a) /\ up /\ ready THEN To("audio") ELSE stay
            slow == MayStart(a) /\ up /\ ~ready
        IN /\ started # {} => MayStart(a) /\ ~up
           /\ MayStart(a) /\ ~up /\ started # Services => broken
           /\ running' = running \cup started
           /\ Commit(Renewed(a, next), a.cost + (IF broken \/ slow THEN 1 ELSE 0))
           /\ UNCHANGED broker

\* audio and draining: the lease and the services must still be there.
Working(a, next) ==
    /\ UNCHANGED <<running, broker>>
    /\ \/ Commit(Renewed(a, Failure("stopping_services")), a.cost + 1)
       \/ Commit(IF LeaseLost(a) THEN Failure("stopping_services")
                 ELSE IF running # Services THEN Renewed(a, Failure("stopping_services"))
                 ELSE Renewed(a, next), a.cost)

InAudio ==
    \E a \in Renewals :
        Working(a, IF \/ tick.request = "release" \/ row.age = 2
                      \/ ~tick.demand /\ "gpu" \notin tick.busy /\ row.age >= 1
                   THEN Consumed(To("draining")) ELSE To("audio"))

InDraining ==
    \E a \in Renewals :
        Working(a, IF tick.request = "release" \/ "gpu" \notin tick.busy
                   THEN Obeyed(To("stopping_services")) ELSE To("draining"))

InStopping ==
    \E a \in Renewals, left \in SUBSET running, confirmed \in BOOLEAN :
        /\ confirmed => left = {}
        /\ running' = left
        /\ Commit(Renewed(a, IF confirmed THEN To("releasing") ELSE Failure("error")),
                  a.cost + (IF confirmed THEN 0 ELSE 1))
        /\ UNCHANGED broker

\* The lease to give back: the row's, or else whatever the broker says Voxint has.
ToRelease ==
    IF row.lease # 0 THEN {[kind |-> "held", lease |-> row.lease, cost |-> 0]}
    ELSE {[kind |-> a.kind, lease |-> a.lease, cost |-> a.cost] : a \in Status}

\* What the broker's answer to a release makes of the row.
AfterRelease(a) ==
    CASE a.kind = "released" ->
             [Obeyed(To("llm")) EXCEPT !.lease = 0, !.due = @ \/ ~row.err]
      [] a.kind = "pending" /\ row.age = 0 -> Leasing(To("releasing"), a.lease)
      [] a.kind = "pending" -> Obeyed(Leasing(Failure("error"), a.lease))
      [] OTHER -> Failure("error")

InReleasing ==
    /\ UNCHANGED running
    /\ \/ UNCHANGED broker /\ Commit(Failure("error"), 1)
       \/ running # {} /\ UNCHANGED broker /\ Commit(Failure("stopping_services"), 0)
       \/ /\ running = {}
          /\ \E h \in ToRelease :
                \E a \in IF h.kind = "held" THEN Release(h.lease)
                         ELSE {Answer(IF h.kind = "free" THEN "released" ELSE "failed",
                                      0, broker, 0)} :
                    broker' = a.after /\ Commit(AfterRelease(a), h.cost + a.cost)

Retried == row.due \/ tick.request = "release"

InError ==
    \E a \in Renewals :
        /\ Commit(Renewed(a, IF Retried THEN Obeyed(To("stopping_services")) ELSE To("error")),
                  a.cost)
        /\ UNCHANGED <<running, broker>>

TakeStep ==
    /\ tick.pc = "read"
    /\ \/ row.phase = "llm" /\ InLlm
       \/ row.phase = "draining_post" /\ InDrainingPost
       \/ row.phase = "acquiring" /\ InAcquiring
       \/ row.phase = "starting_services" /\ InStarting
       \/ row.phase = "audio" /\ InAudio
       \/ row.phase = "draining" /\ InDraining
       \/ row.phase = "stopping_services" /\ InStopping
       \/ row.phase = "releasing" /\ InReleasing
       \/ row.phase = "error" /\ InError

-----------------------------------------------------------------------------
(* Time and the host. *)

\* A threshold passes.  A host that is slower than the window of its phase counts
\* as a fault.
Windowed == row.phase \in {"acquiring", "starting_services", "releasing"}

Thresholds == IF row.phase = "audio" THEN 2 ELSE IF row.phase = "llm" \/ Windowed THEN 1 ELSE 0

PhaseAges ==
    /\ row.age < Thresholds
    /\ row' = [row EXCEPT !.age = @ + 1]
    /\ IF Windowed THEN env.faults > 0 /\ env' = [env EXCEPT !.faults = @ - 1] ELSE UNCHANGED env
    /\ UNCHANGED <<askedIn, tick, runs, running, broker>>

BackoffPasses ==
    /\ ~row.due /\ row' = [row EXCEPT !.due = TRUE]
    /\ UNCHANGED <<askedIn, tick, runs, running, broker, env>>

\* No tick has probed the language model for too long.
AnswerGoesStale ==
    /\ row.ready /\ row' = [row EXCEPT !.ready = FALSE]
    /\ UNCHANGED <<askedIn, tick, runs, running, broker, env>>

\* What the broker began it finishes, asked again or not; an orphaned GPU is
\* given back to the language model by hand.
BrokerProceeds ==
    /\ \/ broker.state = "stopping" /\ broker' \in Grants
       \/ broker.state = "restoring" /\ broker' = Free
       \/ broker.state = "orphan" /\ running = {} /\ broker' = [Free EXCEPT !.state = "restoring"]
    /\ UNCHANGED <<row, askedIn, tick, runs, running, env>>

\* docs/gpu-sharing.md: an expired lease goes back only if the services are gone.
LeaseExpires ==
    /\ broker.state = "held" /\ env.expiries > 0
    /\ broker' = [Free EXCEPT !.state = IF running = {} THEN "restoring" ELSE "orphan"]
    /\ env' = [env EXCEPT !.expiries = @ - 1]
    /\ UNCHANGED <<row, askedIn, tick, runs, running>>

ServiceDies ==
    /\ env.faults > 0
    /\ \E s \in running : running' = running \ {s}
    /\ env' = [env EXCEPT !.faults = @ - 1]
    /\ UNCHANGED <<row, askedIn, tick, runs, broker>>

\* A container started behind the phase task's back (a reboot of the host).
ServiceBoots ==
    /\ env.boots > 0
    /\ \E s \in Services \ running : running' = running \cup {s}
    /\ env' = [env EXCEPT !.boots = @ - 1]
    /\ UNCHANGED <<row, askedIn, tick, runs, broker>>

Next ==
    \/ \E r \in Runs : Submit(r) \/ Admit(r) \/ Finish(r)
    \/ \E request \in Request : Ask(request)
    \/ ReadRow \/ TakeStep
    \/ PhaseAges \/ BackoffPasses \/ AnswerGoesStale
    \/ BrokerProceeds \/ LeaseExpires \/ ServiceDies \/ ServiceBoots

Spec == Init /\ [][Next]_vars

-----------------------------------------------------------------------------
(* Properties. *)

\* The row, the tick and the host have the shape their classes declare, and the
\* clock of a phase has passed no threshold the phase does not have.
TypeOK ==
    /\ row \in [phase : Phase, lease : Lease \cup {0}, err : BOOLEAN, due : BOOLEAN,
                age : 0..2, request : Request \cup {"none"}, ready : BOOLEAN]
    /\ row.age <= Thresholds
    /\ askedIn \in Phase
    /\ tick \in [pc : {"idle", "read"}, request : Request \cup {"none"},
                 demand : BOOLEAN, busy : SUBSET Lane]
    /\ runs \in [Runs -> {"done", "gpuQueued", "gpuRunning", "postQueued", "postRunning"}]
    /\ running \in SUBSET Services
    /\ broker \in [state : BrokerState, lease : Lease \cup {0}]
    /\ env \in [ops : Nat, crashes : Nat, faults : Nat, expiries : Nat, boots : Nat]

\* A model service that is up has the GPU.
Exclusive == running # {} => broker.state \in {"held", "orphan"}

\* The GPU has one tenant: while a model service is up the language model is not,
\* whatever calls fail, ticks die or leases expire (orchestrator.py, the order
\* acquire, start, stop, release), as long as no service came up by itself; what
\* happens then is TenantsSeparate.
OneTenant == env.boots = MaxBoots => Exclusive

\* The language model is taken away only once its work is done: nothing admitted
\* to the post lane is still running when the GPU is borrowed.
BorrowedWhenIdle ==
    row.phase \in {"acquiring", "starting_services", "audio", "draining"}
        => InFlight("post") = {}

\* Audio work in progress loses the services only after a failure or on the
\* operator's word, although the count of it was read before the calls.
EndsAudio ==
    /\ row.phase \in {"audio", "draining"}
    /\ row'.phase \notin {"audio", "draining"}
    /\ InFlight("gpu") # {}

CutOnlyForCause == [][EndsAudio => ~row'.due \/ tick.request = "release"]_vars

\* A request for audio made while the GPU is handed back is still there in llm.
AudioRequestKept ==
    [][row.request = "audio" /\ row'.request = "none" => row.phase \in {"llm", "audio"}]_vars

\* docs/gpu-sharing.md: "`release` during `audio` starts the normal hand-back: no
\* new GPU work starts, and runs in progress finish first."  It does not hold (README,
\* section 6) and no run lists it.
ReleaseWaitsForRuns == [][EndsAudio => ~row'.due \/ askedIn # "audio"]_vars

\* Beat keeps ticking, work ends, clocks run, the broker finishes what it began.
Fairness ==
    /\ WF_vars(ReadRow) /\ WF_vars(TakeStep)
    /\ \A r \in Runs : WF_vars(Finish(r))
    /\ WF_vars(PhaseAges /\ ~Windowed) /\ WF_vars(BackoffPasses)
    /\ WF_vars(BrokerProceeds)

FairSpec == Spec /\ Fairness

\* The GPU never stays borrowed: a hold, also one granted after Voxint had given
\* up asking for it, is returned and the language model restored.
HoldReturned == broker.state \in {"held", "orphan"} ~> broker.state = "free"

\* Two tenants, after a service came up by itself, do not stay two.
TenantsSeparate ==
    running # {} /\ broker.state = "free" ~> running = {} \/ broker.state # "free"

\* Waiting recordings get their audio phase, whatever went wrong before.
RecordingsServed == At("gpuQueued") # {} ~> row.phase = "audio"
=============================================================================
