----------------------------- MODULE GpuPhaseProofs -----------------------------
(***************************************************************************)
(* The phase task keeps the GPU's two tenants apart, for any number of     *)
(* recordings and services and any number of failures.                     *)
(***************************************************************************)
EXTENDS GpuPhase, TLAPS

RowType == [phase : Phase, lease : Lease \cup {0}, err : BOOLEAN, due : BOOLEAN,
            age : 0..2, request : Request \cup {"none"}, ready : BOOLEAN]

\* A row a tick may write.
Fine(next) ==
    /\ next \in RowType
    /\ next.age <= IF next.phase = "audio" THEN 2
                   ELSE IF next.phase \in {"llm", "acquiring", "starting_services", "releasing"}
                   THEN 1 ELSE 0

\* The count a drain waits for is not too low: nothing was admitted since.
CountsFresh ==
    tick.pc = "read" =>
        /\ row.phase = "draining_post" /\ "post" \notin tick.busy => InFlight("post") = {}
        /\ row.phase = "draining" /\ "gpu" \notin tick.busy => InFlight("gpu") = {}

\* The inductive invariant: the language model is borrowed only when idle, and the
\* count that says so is still good.
GInv == TypeOK /\ BorrowedWhenIdle /\ CountsFresh

\* With it, until a service starts by itself, the GPU has one tenant.
Apart == OneTenant /\ env.boots <= MaxBoots

-----------------------------------------------------------------------------
(* The rows a tick writes. *)

LEMMA ToFine ==
    ASSUME TypeOK, NEW phase \in Phase
    PROVE  Fine(To(phase)) /\ To(phase).phase = phase
<1> DEFINE age == IF phase = row.phase THEN row.age ELSE 0
<1>1. row \in RowType /\ row.age <= Thresholds
    BY DEF TypeOK, RowType
<1>2. age \in 0..2 /\ (phase = row.phase \/ age = 0)
    BY <1>1 DEF RowType
<1>3. To(phase) = [row EXCEPT !.phase = phase, !.age = age, !.ready = FALSE]
    BY DEF To
<1>4. To(phase) \in RowType /\ To(phase).phase = phase /\ To(phase).age = age
    <2> HIDE DEF age
    <2> QED
        BY <1>1, <1>2, <1>3 DEF RowType
<1>5. phase # row.phase => age = 0
    OBVIOUS
<1>6. phase = row.phase => age = row.age
    OBVIOUS
<1> HIDE DEF age
<1> QED
    BY <1>1, <1>2, <1>4, <1>5, <1>6 DEF Fine, Thresholds, Windowed

LEMMA FailureFine ==
    ASSUME TypeOK, NEW phase \in Phase
    PROVE  Fine(Failure(phase)) /\ Failure(phase).phase = phase /\ ~Failure(phase).due
<1> DEFINE base == To(phase)
<1>1. Fine(base) /\ base.phase = phase
    BY ToFine
<1>2. Failure(phase) = [base EXCEPT !.err = TRUE, !.due = FALSE]
    BY DEF Failure
<1> HIDE DEF base
<1> QED
    BY <1>1, <1>2 DEF Fine, RowType

LEMMA LeasingFine ==
    ASSUME NEW next, Fine(next), NEW id \in Lease \cup {0}
    PROVE  /\ Fine(Leasing(next, id)) /\ Leasing(next, id).phase = next.phase
           /\ Leasing(next, id).due = next.due /\ Leasing(next, id).request = next.request
BY DEF Fine, RowType, Leasing

LEMMA ConsumedFine ==
    ASSUME NEW next, Fine(next)
    PROVE  /\ Fine(Consumed(next)) /\ Consumed(next).phase = next.phase
           /\ Consumed(next).due = next.due
           /\ Consumed(next).request \in {"none", next.request}
BY DEF Fine, RowType, Consumed

LEMMA ObeyedFine ==
    ASSUME NEW next, Fine(next)
    PROVE  Fine(Obeyed(next)) /\ Obeyed(next).phase = next.phase /\ Obeyed(next).due = next.due
BY ConsumedFine DEF Obeyed

LEMMA RenewalFine ==
    ASSUME TypeOK, NEW a \in Renewals
    PROVE  /\ a.lease \in Lease \cup {0} /\ a.cost \in {0, 1}
           /\ a.kind = "held" => broker.state = "held"
BY DEF TypeOK, Renewals, Renewal, Answer, Current, Lease

LEMMA RenewedFine ==
    ASSUME TypeOK, NEW a \in Renewals, NEW next, Fine(next)
    PROVE  /\ Fine(Renewed(a, next)) /\ Renewed(a, next).phase = next.phase
           /\ Renewed(a, next).due = next.due
BY LeasingFine, RenewalFine DEF Renewed

LEMMA StatusFine ==
    ASSUME TypeOK, NEW a \in Status
    PROVE  a.lease \in Lease \cup {0} /\ a.cost \in {0, 1}
BY DEF TypeOK, Status, Answer, Lease

\* What every commit does, whether it is carried out or lost with its worker.
LEMMA CommitFine ==
    ASSUME TypeOK, NEW next, Fine(next), NEW cost \in Nat, Commit(next, cost),
           running' \in SUBSET Services,
           broker' \in [state : BrokerState, lease : Lease \cup {0}]
    PROVE  /\ TypeOK' /\ tick' = NoTick /\ runs' = runs /\ env'.boots = env.boots
           /\ row' \in {row, next}
<1>1. row' \in {row, next}
    BY DEF Commit
<1>2. Fine(row)
    BY DEF TypeOK, Fine, RowType, Thresholds, Windowed
<1>3. Fine(row')
    BY <1>1, <1>2
<1>4. row' \in RowType /\ row'.age <= Thresholds'
    BY <1>3 DEF Fine, Thresholds, Windowed
<1>5. /\ env' \in [ops : Nat, crashes : Nat, faults : Nat, expiries : Nat, boots : Nat]
      /\ env'.boots = env.boots
    <2>1. env \in [ops : Nat, crashes : Nat, faults : Nat, expiries : Nat, boots : Nat]
        BY DEF TypeOK
    <2>2. env.faults - cost \in Nat
        BY <2>1 DEF Commit
    <2>3. CASE env' = [env EXCEPT !.faults = @ - cost]
        BY <2>1, <2>2, <2>3
    <2>4. CASE env' = [env EXCEPT !.faults = @ - cost, !.crashes = @ - 1] /\ env.crashes > 0
        <3>1. env.crashes - 1 \in Nat
            BY <2>1, <2>4
        <3>2. env' = [ops |-> env.ops, crashes |-> env.crashes - 1, faults |-> env.faults - cost,
                      expiries |-> env.expiries, boots |-> env.boots]
            BY <2>1, <2>4
        <3> QED
            BY <2>1, <2>2, <3>1, <3>2
    <2> QED
        BY <2>3, <2>4 DEF Commit
<1>6. askedIn' \in Phase /\ tick' = NoTick /\ runs' = runs
    BY DEF Commit, TypeOK, Phase
<1>7. NoTick \in [pc : {"idle", "read"}, request : Request \cup {"none"},
                  demand : BOOLEAN, busy : SUBSET Lane]
    BY DEF NoTick
<1> QED
    BY <1>1, <1>4, <1>5, <1>6, <1>7 DEF TypeOK, RowType

-----------------------------------------------------------------------------
(* One lemma per phase: what its tick does to the row and to the host.     *)

\* A step of the tick that keeps the GPU's tenants apart and ends in one of phases.
Stepped(phases) ==
    /\ TypeOK' /\ (Exclusive => Exclusive') /\ tick' = NoTick /\ runs' = runs
    /\ env'.boots = env.boots /\ row'.phase \in phases

\* A commit after calls that changed the host without giving it two tenants.
LEMMA CommitSteps ==
    ASSUME TypeOK, NEW next, Fine(next), NEW cost \in Nat, Commit(next, cost),
           running' \in SUBSET Services,
           broker' \in [state : BrokerState, lease : Lease \cup {0}], Exclusive => Exclusive'
    PROVE  Stepped({row.phase, next.phase})
BY CommitFine DEF Stepped

\* A commit after calls that changed nothing on the host.
LEMMA QuietCommit ==
    ASSUME TypeOK, NEW next, Fine(next), NEW cost \in Nat, Commit(next, cost),
           UNCHANGED <<running, broker>>
    PROVE  Stepped({row.phase, next.phase})
<1>1. /\ running' \in SUBSET Services
      /\ broker' \in [state : BrokerState, lease : Lease \cup {0}]
    BY DEF TypeOK
<1>2. Exclusive => Exclusive'
    BY DEF Exclusive
<1> QED
    BY <1>1, <1>2, CommitSteps

LEMMA LlmStep ==
    ASSUME TypeOK, row.phase = "llm", InLlm
    PROVE  Stepped({"llm", "draining_post", "stopping_services"})
<1>1. PICK answers \in BOOLEAN :
          LET stay == [To("llm") EXCEPT !.ready = answers]
          IN \/ Commit([Failure("llm") EXCEPT !.ready = answers], 1)
             \/ \E a \in Status, seen \in SUBSET running :
                   Commit(IF MustHandBack(a, seen) THEN Renewed(a, To("stopping_services"))
                          ELSE IF tick.request = "release"
                          THEN [Consumed(stay) EXCEPT !.due = FALSE]
                          ELSE IF Wanted
                          THEN [Consumed(To("draining_post")) EXCEPT !.err = FALSE, !.due = TRUE]
                          ELSE stay, a.cost + Unseen(seen))
    BY DEF InLlm
<1>2. UNCHANGED <<running, broker>>
    BY DEF InLlm
<1> DEFINE stay == [To("llm") EXCEPT !.ready = answers]
           post == Consumed(To("draining_post"))
           drain == [post EXCEPT !.err = FALSE, !.due = TRUE]
           held == Consumed(stay)
           wait == [held EXCEPT !.due = FALSE]
           back(a) == Renewed(a, To("stopping_services"))
<1>3. {"llm", "draining_post", "stopping_services"} \subseteq Phase
    BY DEF Phase
<1>4. Fine(stay) /\ stay.phase = "llm"
    <2> DEFINE base == To("llm")
    <2>1. Fine(base) /\ base.phase = "llm"
        BY <1>3, ToFine
    <2> HIDE DEF base
    <2>2. [base EXCEPT !.ready = answers] \in RowType
        BY <2>1 DEF Fine, RowType
    <2>3. Fine([base EXCEPT !.ready = answers]) /\ [base EXCEPT !.ready = answers].phase = "llm"
        BY <2>1, <2>2 DEF Fine, RowType
    <2> QED
        BY <2>3 DEF base
<1>5. Fine(post) /\ post.phase = "draining_post"
    BY <1>3, ToFine, ConsumedFine
<1>6. Fine(drain) /\ drain.phase = "draining_post"
    <2> HIDE DEF post
    <2> QED
        BY <1>5 DEF Fine, RowType
<1>7. Fine(held) /\ held.phase = "llm"
    <2> HIDE DEF stay
    <2> QED
        BY <1>4, ConsumedFine
<1>8. Fine(wait) /\ wait.phase = "llm"
    <2> HIDE DEF held
    <2> QED
        BY <1>7 DEF Fine, RowType
<1>9. CASE Commit([Failure("llm") EXCEPT !.ready = answers], 1)
    <2> DEFINE base == Failure("llm")
               next == [base EXCEPT !.ready = answers]
    <2>1. Fine(base) /\ base.phase = "llm"
        BY <1>3, FailureFine
    <2>2. Commit(next, 1)
        BY <1>9
    <2> HIDE DEF base
    <2>3. Fine(next) /\ next.phase = "llm"
        BY <2>1 DEF Fine, RowType
    <2> HIDE DEF next
    <2>4. Stepped({row.phase, next.phase})
        BY <1>2, <2>2, <2>3, QuietCommit
    <2> QED
        BY <2>3, <2>4 DEF Stepped
<1>10. ASSUME NEW a \in Status, NEW seen \in SUBSET running,
              Commit(IF MustHandBack(a, seen) THEN back(a)
                     ELSE IF tick.request = "release" THEN wait
                     ELSE IF Wanted THEN drain ELSE stay, a.cost + Unseen(seen))
       PROVE  Stepped({"llm", "draining_post", "stopping_services"})
    <2> DEFINE next == IF MustHandBack(a, seen) THEN back(a)
                       ELSE IF tick.request = "release" THEN wait
                       ELSE IF Wanted THEN drain ELSE stay
    <2>1. Fine(back(a)) /\ back(a).phase = "stopping_services"
        <3>1. Fine(To("stopping_services")) /\ To("stopping_services").phase = "stopping_services"
            BY <1>3, ToFine
        <3> QED
            BY <3>1, StatusFine, LeasingFine DEF Renewed
    <2>2. a.cost + Unseen(seen) \in Nat
        BY StatusFine DEF Unseen
    <2>3. Commit(next, a.cost + Unseen(seen))
        BY <1>10
    <2> HIDE DEF stay, drain, wait, back
    <2>4. Fine(next) /\ next.phase \in {"llm", "draining_post", "stopping_services"}
        BY <1>4, <1>6, <1>8, <2>1
    <2> HIDE DEF next
    <2>5. Stepped({row.phase, next.phase})
        BY <1>2, <2>2, <2>3, <2>4, QuietCommit
    <2> QED
        BY <2>4, <2>5 DEF Stepped
<1> QED
    BY <1>1, <1>9, <1>10

LEMMA DrainingPostStep ==
    ASSUME TypeOK, row.phase = "draining_post", InDrainingPost
    PROVE  /\ Stepped({"llm", "draining_post", "acquiring"})
           /\ row'.phase = "acquiring" => "post" \notin tick.busy
<1> DEFINE next == IF tick.request = "release" THEN Consumed(To("llm"))
                   ELSE IF "post" \notin tick.busy THEN To("acquiring") ELSE To("draining_post")
<1>1. Commit(next, 0) /\ UNCHANGED <<running, broker>>
    BY DEF InDrainingPost
<1>2. /\ Fine(To("llm")) /\ To("llm").phase = "llm"
      /\ Fine(To("acquiring")) /\ To("acquiring").phase = "acquiring"
      /\ Fine(To("draining_post")) /\ To("draining_post").phase = "draining_post"
    BY ToFine DEF Phase
<1>3. /\ Fine(next) /\ next.phase \in {"llm", "draining_post", "acquiring"}
      /\ next.phase = "acquiring" => "post" \notin tick.busy
    BY <1>2, ConsumedFine
<1> HIDE DEF next
<1>4. Stepped({row.phase, next.phase})
    BY <1>1, <1>3, QuietCommit
<1> QED
    BY <1>3, <1>4 DEF Stepped

LEMMA NewLeaseFine ==
    ASSUME TypeOK, NEW a \in NewLease
    PROVE  /\ a.lease \in Lease \cup {0} /\ a.cost \in {0, 1}
           /\ a.after \in [state : BrokerState, lease : Lease \cup {0}]
           /\ broker.state \in {"held", "orphan"} => a.after.state \in {"held", "orphan"}
<1> DEFINE granted == IF broker.state = "held" THEN {broker} ELSE Grants
<1>1. broker \in [state : BrokerState, lease : Lease \cup {0}]
    BY DEF TypeOK
<1>2. \A b \in granted : /\ b \in [state : BrokerState, lease : Lease \cup {0}]
                         /\ b.state = "held"
    BY <1>1 DEF Grants, BrokerState
<1>3. Stopping \in [state : BrokerState, lease : Lease \cup {0}]
    BY DEF Stopping, BrokerState
<1>4. \/ \E k \in {"failed", "busy"}, c \in {0, 1} : a = Answer(k, 0, broker, c)
      \/ \E b \in granted : a = Answer("held", b.lease, b, 0) \/ a = Answer("failed", 0, b, 1)
      \/ /\ broker.state \in {"free", "stopping"}
         /\ a = Answer("pending", 0, Stopping, 0) \/ a = Answer("failed", 0, Stopping, 1)
    BY DEF NewLease
<1> HIDE DEF granted
<1>5. CASE \E k \in {"failed", "busy"}, c \in {0, 1} : a = Answer(k, 0, broker, c)
    BY <1>1, <1>5 DEF Answer
<1>6. CASE \E b \in granted : a = Answer("held", b.lease, b, 0) \/ a = Answer("failed", 0, b, 1)
    BY <1>2, <1>6 DEF Answer
<1>7. CASE /\ broker.state \in {"free", "stopping"}
           /\ a = Answer("pending", 0, Stopping, 0) \/ a = Answer("failed", 0, Stopping, 1)
    BY <1>3, <1>7 DEF Answer
<1> QED
    BY <1>4, <1>5, <1>6, <1>7

LEMMA AcquiringStep ==
    ASSUME TypeOK, row.phase = "acquiring", InAcquiring
    PROVE  Stepped({"acquiring", "starting_services", "llm", "releasing"})
<1> DEFINE start(a) == Leasing(To("starting_services"), a.lease)
           begin(a) == [start(a) EXCEPT !.err = FALSE]
           next(a) == CASE a.kind = "held" -> begin(a)
                        [] a.kind = "pending" /\ row.age = 0 -> To("acquiring")
                        [] a.kind = "busy" -> Failure("llm")
                        [] OTHER -> Failure("releasing")
<1>1. PICK a \in NewLease : broker' = a.after /\ Commit(next(a), a.cost) /\ UNCHANGED running
    BY DEF InAcquiring
<1>2. {"acquiring", "starting_services", "llm", "releasing"} \subseteq Phase
    BY DEF Phase
<1>3. /\ Fine(To("acquiring")) /\ To("acquiring").phase = "acquiring"
      /\ Fine(To("starting_services")) /\ To("starting_services").phase = "starting_services"
      /\ Fine(Failure("llm")) /\ Failure("llm").phase = "llm"
      /\ Fine(Failure("releasing")) /\ Failure("releasing").phase = "releasing"
    BY <1>2, ToFine, FailureFine
<1>4. Fine(begin(a)) /\ begin(a).phase = "starting_services"
    <2>1. Fine(start(a)) /\ start(a).phase = "starting_services"
        BY <1>3, NewLeaseFine, LeasingFine
    <2> HIDE DEF start
    <2> QED
        BY <2>1 DEF Fine, RowType
<1>5. /\ Fine(next(a))
      /\ next(a).phase \in {"acquiring", "starting_services", "llm", "releasing"}
    <2> HIDE DEF begin
    <2> QED
        BY <1>3, <1>4
<1>6. /\ a.cost \in Nat
      /\ broker' \in [state : BrokerState, lease : Lease \cup {0}]
      /\ broker.state \in {"held", "orphan"} => broker'.state \in {"held", "orphan"}
    BY <1>1, NewLeaseFine
<1>7. running' \in SUBSET Services /\ (Exclusive => Exclusive')
    BY <1>1, <1>6 DEF TypeOK, Exclusive
<1>8. Commit(next(a), a.cost)
    BY <1>1
<1> HIDE DEF next
<1>9. Stepped({row.phase, next(a).phase})
    BY <1>5, <1>6, <1>7, <1>8, CommitSteps
<1> QED
    BY <1>5, <1>9 DEF Stepped

\* Services are started only with the lease just renewed.
LEMMA StartingStep ==
    ASSUME TypeOK, row.phase = "starting_services", InStarting
    PROVE  Stepped({"starting_services", "audio", "stopping_services"})
<1> DEFINE up == running = Services
           stay == IF row.age >= 1 THEN Failure("stopping_services") ELSE To("starting_services")
           next(a, ready, broken) ==
               IF LeaseLost(a) \/ broken THEN Failure("stopping_services")
               ELSE IF MayStart(a) /\ up /\ ready THEN To("audio") ELSE stay
           slow(a, ready) == MayStart(a) /\ up /\ ~ready
           cost(a, ready, broken) == a.cost + (IF broken \/ slow(a, ready) THEN 1 ELSE 0)
<1>1. PICK a \in Renewals, ready \in BOOLEAN, broken \in BOOLEAN, started \in SUBSET Services :
          /\ started # {} => MayStart(a) /\ ~up
          /\ running' = running \cup started
          /\ Commit(Renewed(a, next(a, ready, broken)), cost(a, ready, broken))
          /\ UNCHANGED broker
    BY DEF InStarting
<1>2. /\ Fine(To("starting_services")) /\ To("starting_services").phase = "starting_services"
      /\ Fine(To("audio")) /\ To("audio").phase = "audio"
      /\ Fine(Failure("stopping_services"))
      /\ Failure("stopping_services").phase = "stopping_services"
    BY ToFine, FailureFine DEF Phase
<1> DEFINE it == next(a, ready, broken)
           written == Renewed(a, it)
           price == cost(a, ready, broken)
<1>3. Fine(it) /\ it.phase \in {"starting_services", "audio", "stopping_services"}
    BY <1>2
<1>4. price \in Nat
    BY RenewalFine
<1>5. broker' \in [state : BrokerState, lease : Lease \cup {0}] /\ running' \in SUBSET Services
    BY <1>1 DEF TypeOK
<1>6. Exclusive => Exclusive'
    <2>1. CASE started = {}
        BY <1>1, <2>1 DEF Exclusive
    <2>2. CASE started # {}
        BY <1>1, <2>2, RenewalFine DEF Exclusive, MayStart
    <2> QED
        BY <2>1, <2>2
<1>7. Commit(written, price)
    BY <1>1
<1> HIDE DEF it, price
<1>8. Fine(written) /\ written.phase = it.phase
    BY <1>3, RenewedFine
<1> HIDE DEF written
<1>9. Stepped({row.phase, written.phase})
    BY <1>4, <1>5, <1>6, <1>7, <1>8, CommitSteps
<1> QED
    BY <1>3, <1>8, <1>9 DEF Stepped

\* audio and draining: whatever else happens is a failure.
LEMMA WorkingStep ==
    ASSUME TypeOK, NEW a \in Renewals, NEW next, Fine(next), Working(a, next)
    PROVE  /\ Stepped({row.phase, next.phase, "stopping_services"})
           /\ row'.phase \in {row.phase, next.phase} \/ ~row'.due
<1> DEFINE fail == Failure("stopping_services")
           cut == Renewed(a, fail)
           go == Renewed(a, next)
           it == IF LeaseLost(a) THEN fail ELSE IF running # Services THEN cut ELSE go
<1>1. UNCHANGED <<running, broker>> /\ (Commit(cut, a.cost + 1) \/ Commit(it, a.cost))
    BY DEF Working
<1>2. Fine(fail) /\ fail.phase = "stopping_services" /\ ~fail.due
    BY FailureFine DEF Phase
<1>3. Fine(cut) /\ cut.phase = "stopping_services" /\ ~cut.due
    <2> HIDE DEF fail
    <2> QED
        BY <1>2, RenewedFine
<1>4. Fine(go) /\ go.phase = next.phase
    BY RenewedFine
<1>5. a.cost \in Nat /\ a.cost + 1 \in Nat
    BY RenewalFine
<1> HIDE DEF fail, cut, go
<1>6. /\ Fine(it) /\ it.phase \in {next.phase, "stopping_services"}
      /\ it.phase = next.phase \/ ~it.due
    BY <1>2, <1>3, <1>4
<1> HIDE DEF it
<1>7. /\ running' \in SUBSET Services
      /\ broker' \in [state : BrokerState, lease : Lease \cup {0}]
    BY <1>1 DEF TypeOK
<1>8. CASE Commit(cut, a.cost + 1)
    <2>1. Stepped({row.phase, cut.phase})
        BY <1>1, <1>3, <1>5, <1>8, QuietCommit
    <2>2. row' \in {row, cut}
        BY <1>3, <1>5, <1>7, <1>8, CommitFine
    <2> QED
        BY <1>3, <2>1, <2>2 DEF Stepped
<1>9. CASE Commit(it, a.cost)
    <2>1. Stepped({row.phase, it.phase})
        BY <1>1, <1>5, <1>6, <1>9, QuietCommit
    <2>2. row' \in {row, it}
        BY <1>5, <1>6, <1>7, <1>9, CommitFine
    <2> QED
        BY <1>6, <2>1, <2>2 DEF Stepped
<1> QED
    BY <1>1, <1>8, <1>9

LEMMA AudioStep ==
    ASSUME TypeOK, row.phase = "audio", InAudio
    PROVE  /\ Stepped({"audio", "draining", "stopping_services"})
           /\ row'.phase \in {"audio", "draining"} \/ ~row'.due
<1> DEFINE next == IF \/ tick.request = "release" \/ row.age = 2
                      \/ ~tick.demand /\ "gpu" \notin tick.busy /\ row.age >= 1
                   THEN Consumed(To("draining")) ELSE To("audio")
<1>1. PICK a \in Renewals : Working(a, next)
    BY DEF InAudio
<1>2. /\ Fine(To("draining")) /\ To("draining").phase = "draining"
      /\ Fine(To("audio")) /\ To("audio").phase = "audio"
    BY ToFine DEF Phase
<1>3. Fine(next) /\ next.phase \in {"audio", "draining"}
    BY <1>2, ConsumedFine
<1> HIDE DEF next
<1>4. /\ Stepped({row.phase, next.phase, "stopping_services"})
      /\ row'.phase \in {row.phase, next.phase} \/ ~row'.due
    BY <1>1, <1>3, WorkingStep
<1> QED
    BY <1>3, <1>4 DEF Stepped

LEMMA DrainingStep ==
    ASSUME TypeOK, row.phase = "draining", InDraining
    PROVE  /\ Stepped({"draining", "stopping_services"})
           /\ \/ row'.phase = "draining" \/ ~row'.due
              \/ tick.request = "release" \/ "gpu" \notin tick.busy
<1> DEFINE next == IF tick.request = "release" \/ "gpu" \notin tick.busy
                   THEN Obeyed(To("stopping_services")) ELSE To("draining")
<1>1. PICK a \in Renewals : Working(a, next)
    BY DEF InDraining
<1>2. /\ Fine(To("draining")) /\ To("draining").phase = "draining"
      /\ Fine(To("stopping_services")) /\ To("stopping_services").phase = "stopping_services"
    BY ToFine DEF Phase
<1>3. /\ Fine(next) /\ next.phase \in {"draining", "stopping_services"}
      /\ next.phase = "draining" \/ tick.request = "release" \/ "gpu" \notin tick.busy
    BY <1>2, ObeyedFine
<1> HIDE DEF next
<1>4. /\ Stepped({row.phase, next.phase, "stopping_services"})
      /\ row'.phase \in {row.phase, next.phase} \/ ~row'.due
    BY <1>1, <1>3, WorkingStep
<1> QED
    BY <1>3, <1>4 DEF Stepped

LEMMA StoppingStep ==
    ASSUME TypeOK, row.phase = "stopping_services", InStopping
    PROVE  Stepped({"stopping_services", "releasing", "error"})
<1> DEFINE next(ok) == IF ok THEN To("releasing") ELSE Failure("error")
<1>1. PICK a \in Renewals, left \in SUBSET running, confirmed \in BOOLEAN :
          /\ running' = left /\ UNCHANGED broker
          /\ Commit(Renewed(a, next(confirmed)), a.cost + (IF confirmed THEN 0 ELSE 1))
    BY DEF InStopping
<1> DEFINE it == next(confirmed)
           written == Renewed(a, it)
           price == a.cost + (IF confirmed THEN 0 ELSE 1)
<1>2. Fine(it) /\ it.phase \in {"releasing", "error"}
    BY ToFine, FailureFine DEF Phase
<1>3. price \in Nat
    BY RenewalFine
<1>4. Commit(written, price)
    BY <1>1
<1>5. /\ running' \in SUBSET Services /\ (Exclusive => Exclusive')
      /\ broker' \in [state : BrokerState, lease : Lease \cup {0}]
    BY <1>1 DEF TypeOK, Exclusive
<1> HIDE DEF it, price
<1>6. Fine(written) /\ written.phase = it.phase
    BY <1>2, RenewedFine
<1> HIDE DEF written
<1>7. Stepped({row.phase, written.phase})
    BY <1>3, <1>4, <1>5, <1>6, CommitSteps
<1> QED
    BY <1>2, <1>6, <1>7 DEF Stepped

LEMMA ErrorStep ==
    ASSUME TypeOK, row.phase = "error", InError
    PROVE  Stepped({"error", "stopping_services"})
<1> DEFINE it == IF Retried THEN Obeyed(To("stopping_services")) ELSE To("error")
<1>1. PICK a \in Renewals : Commit(Renewed(a, it), a.cost) /\ UNCHANGED <<running, broker>>
    BY DEF InError
<1>2. /\ Fine(To("error")) /\ To("error").phase = "error"
      /\ Fine(To("stopping_services")) /\ To("stopping_services").phase = "stopping_services"
    BY ToFine DEF Phase
<1>3. Fine(it) /\ it.phase \in {"error", "stopping_services"}
    BY <1>2, ObeyedFine
<1> DEFINE written == Renewed(a, it)
<1>4. Commit(written, a.cost) /\ a.cost \in Nat
    BY <1>1, RenewalFine
<1> HIDE DEF it
<1>5. Fine(written) /\ written.phase = it.phase
    BY <1>3, RenewedFine
<1> HIDE DEF written
<1>6. Stepped({row.phase, written.phase})
    BY <1>1, <1>4, <1>5, QuietCommit
<1> QED
    BY <1>3, <1>5, <1>6 DEF Stepped

LEMMA ReleaseFine ==
    ASSUME TypeOK, NEW id \in Lease \cup {0}, NEW a \in Release(id)
    PROVE  /\ a.lease \in Lease \cup {0} /\ a.cost \in {0, 1}
           /\ a.after \in [state : BrokerState, lease : Lease \cup {0}]
<1>1. /\ broker \in [state : BrokerState, lease : Lease \cup {0}]
      /\ Free \in [state : BrokerState, lease : Lease \cup {0}]
      /\ [state |-> "restoring", lease |-> id] \in [state : BrokerState, lease : Lease \cup {0}]
    BY DEF TypeOK, Free, BrokerState
<1>2. \E k \in {"pending", "failed", "released"}, l \in {0, id}, c \in {0, 1},
         after \in {broker, Free, [state |-> "restoring", lease |-> id]} : a = Answer(k, l, after, c)
    BY DEF Release
<1> QED
    BY <1>1, <1>2 DEF Answer

LEMMA AfterReleaseFine ==
    ASSUME TypeOK, NEW a, a.lease \in Lease \cup {0}
    PROVE  Fine(AfterRelease(a)) /\ AfterRelease(a).phase \in {"llm", "releasing", "error"}
<1> DEFINE back == Obeyed(To("llm"))
           home == [back EXCEPT !.lease = 0, !.due = @ \/ ~row.err]
           again == Leasing(To("releasing"), a.lease)
           stuck == Leasing(Failure("error"), a.lease)
           late == Obeyed(stuck)
           bad == Failure("error")
<1>1. /\ Fine(To("llm")) /\ To("llm").phase = "llm"
      /\ Fine(To("releasing")) /\ To("releasing").phase = "releasing"
      /\ Fine(bad) /\ bad.phase = "error"
    BY ToFine, FailureFine DEF Phase
<1>2. Fine(home) /\ home.phase = "llm"
    <2>1. Fine(back) /\ back.phase = "llm"
        BY <1>1, ObeyedFine
    <2>2. row.err \in BOOLEAN
        BY DEF TypeOK
    <2> HIDE DEF back
    <2>3. (back.due \/ ~row.err) \in BOOLEAN
        BY <2>2
    <2> DEFINE due == back.due \/ ~row.err
    <2>4. home = [back EXCEPT !.lease = 0, !.due = due]
        OBVIOUS
    <2>5. due \in BOOLEAN
        BY <2>3
    <2> HIDE DEF due, home
    <2>6. home = [phase |-> back.phase, lease |-> 0, err |-> back.err, due |-> due,
                  age |-> back.age, request |-> back.request, ready |-> back.ready]
        BY <2>1, <2>4 DEF Fine, RowType
    <2>7. home \in RowType /\ home.age = back.age /\ home.phase = back.phase
        BY <2>1, <2>5, <2>6 DEF Fine, RowType
    <2> QED
        BY <2>1, <2>7 DEF Fine
<1>3. Fine(again) /\ again.phase = "releasing"
    BY <1>1, LeasingFine
<1>4. Fine(stuck) /\ stuck.phase = "error"
    <2> HIDE DEF bad
    <2> QED
        BY <1>1, LeasingFine DEF bad
<1>5. Fine(late) /\ late.phase = "error"
    <2> HIDE DEF stuck
    <2> QED
        BY <1>4, ObeyedFine
<1>6. AfterRelease(a) \in {home, again, late, bad}
    BY DEF AfterRelease
<1> HIDE DEF home, again, late, bad
<1> QED
    BY <1>1, <1>2, <1>3, <1>5, <1>6

\* The lease is given back only when no service is left.
LEMMA ReleasingStep ==
    ASSUME TypeOK, row.phase = "releasing", InReleasing
    PROVE  Stepped({"releasing", "llm", "stopping_services", "error"})
<1>1. /\ Fine(Failure("error")) /\ Failure("error").phase = "error"
      /\ Fine(Failure("stopping_services"))
      /\ Failure("stopping_services").phase = "stopping_services"
    BY FailureFine DEF Phase
<1>2. CASE UNCHANGED <<running, broker>> /\ Commit(Failure("error"), 1)
    <2>1. Stepped({row.phase, Failure("error").phase})
        BY <1>1, <1>2, QuietCommit
    <2> QED
        BY <1>1, <2>1 DEF Stepped
<1>3. CASE UNCHANGED <<running, broker>> /\ Commit(Failure("stopping_services"), 0)
    <2>1. Stepped({row.phase, Failure("stopping_services").phase})
        BY <1>1, <1>3, QuietCommit
    <2> QED
        BY <1>1, <2>1 DEF Stepped
<1>4. ASSUME running = {}, UNCHANGED running,
             NEW h \in ToRelease,
             NEW a \in IF h.kind = "held" THEN Release(h.lease)
                       ELSE {Answer(IF h.kind = "free" THEN "released" ELSE "failed",
                                    0, broker, 0)},
             broker' = a.after, Commit(AfterRelease(a), h.cost + a.cost)
      PROVE  Stepped({"releasing", "llm", "stopping_services", "error"})
    <2>1. h.lease \in Lease \cup {0} /\ h.cost \in {0, 1}
        <3>1. row.lease \in Lease \cup {0}
            BY DEF TypeOK
        <3>2. CASE h = [kind |-> "held", lease |-> row.lease, cost |-> 0]
            BY <3>1, <3>2
        <3>3. CASE \E b \in Status : h = [kind |-> b.kind, lease |-> b.lease, cost |-> b.cost]
            BY <3>3, StatusFine
        <3> QED
            BY <3>2, <3>3 DEF ToRelease
    <2>2. /\ a.lease \in Lease \cup {0} /\ a.cost \in {0, 1}
          /\ a.after \in [state : BrokerState, lease : Lease \cup {0}]
        <3>1. CASE h.kind = "held"
            BY <2>1, <3>1, ReleaseFine
        <3>2. CASE h.kind # "held"
            BY <3>2 DEF TypeOK, Answer
        <3> QED
            BY <3>1, <3>2
    <2> DEFINE next == AfterRelease(a)
               price == h.cost + a.cost
    <2>3. Fine(next) /\ next.phase \in {"llm", "releasing", "error"}
        BY <2>2, AfterReleaseFine
    <2>4. price \in Nat
        BY <2>1, <2>2
    <2>5. Commit(next, price)
        BY <1>4
    <2>6. /\ running' \in SUBSET Services /\ (Exclusive => Exclusive')
          /\ broker' \in [state : BrokerState, lease : Lease \cup {0}]
        BY <1>4, <2>2 DEF Exclusive, TypeOK
    <2> HIDE DEF next, price
    <2>7. Stepped({row.phase, next.phase})
        BY <2>3, <2>4, <2>5, <2>6, CommitSteps
    <2> QED
        BY <2>3, <2>7 DEF Stepped
<1> QED
    BY <1>2, <1>3, <1>4 DEF InReleasing

-----------------------------------------------------------------------------
(* The invariants. *)

LEMMA TickStep ==
    ASSUME TypeOK, tick.pc = "read", TakeStep
    PROVE  /\ Stepped(Phase)
           /\ row.phase # "draining_post" /\ row'.phase = "acquiring" => row.phase = "acquiring"
           /\ row.phase = "draining_post" /\ row'.phase = "acquiring" => "post" \notin tick.busy
           /\ row'.phase \in {"starting_services", "audio", "draining"}
                  => row.phase \in {"acquiring", "starting_services", "audio", "draining"}
           /\ row.phase = "audio" => row'.phase \in {"audio", "draining"} \/ ~row'.due
           /\ row.phase = "draining" =>
                  \/ row'.phase = "draining" \/ ~row'.due
                  \/ tick.request = "release" \/ "gpu" \notin tick.busy
<1>1. CASE row.phase = "llm" /\ InLlm
    BY <1>1, LlmStep DEF Stepped, Phase
<1>2. CASE row.phase = "draining_post" /\ InDrainingPost
    BY <1>2, DrainingPostStep DEF Stepped, Phase
<1>3. CASE row.phase = "acquiring" /\ InAcquiring
    BY <1>3, AcquiringStep DEF Stepped, Phase
<1>4. CASE row.phase = "starting_services" /\ InStarting
    BY <1>4, StartingStep DEF Stepped, Phase
<1>5. CASE row.phase = "audio" /\ InAudio
    BY <1>5, AudioStep DEF Stepped, Phase
<1>6. CASE row.phase = "draining" /\ InDraining
    BY <1>6, DrainingStep DEF Stepped, Phase
<1>7. CASE row.phase = "stopping_services" /\ InStopping
    BY <1>7, StoppingStep DEF Stepped, Phase
<1>8. CASE row.phase = "releasing" /\ InReleasing
    BY <1>8, ReleasingStep DEF Stepped, Phase
<1>9. CASE row.phase = "error" /\ InError
    BY <1>9, ErrorStep DEF Stepped, Phase
<1> QED
    BY <1>1, <1>2, <1>3, <1>4, <1>5, <1>6, <1>7, <1>8, <1>9 DEF TakeStep

\* Work appears in a lane only by admission, and admission needs the lane's phase.
LEMMA LaneStep ==
    ASSUME TypeOK, NEW r \in Runs, Submit(r) \/ Admit(r) \/ Finish(r)
    PROVE  /\ TypeOK' /\ UNCHANGED <<row, askedIn, tick, running, broker, env>>
           /\ row.phase # "llm" => InFlight("post")' \subseteq InFlight("post")
           /\ row.phase # "audio" => InFlight("gpu")' \subseteq InFlight("gpu")
<1> DEFINE Where == {"done", "gpuQueued", "gpuRunning", "postQueued", "postRunning"}
<1>1. UNCHANGED <<row, askedIn, tick, running, broker, env>>
    BY DEF Submit, Admit, Finish
<1>2. PICK w \in Where :
          /\ runs' = [runs EXCEPT ![r] = w]
          /\ w = "postRunning" => row.phase = "llm"
          /\ w = "gpuRunning" => row.phase = "audio"
    BY DEF Submit, Admit, Finish, LaneOpen
<1>3. runs \in [Runs -> Where]
    BY DEF TypeOK
<1>4. TypeOK'
    BY <1>1, <1>2, <1>3 DEF TypeOK, Thresholds, Windowed
<1>5. /\ InFlight("post") = {q \in Runs : runs[q] = "postRunning"}
      /\ InFlight("gpu") = {q \in Runs : runs[q] = "gpuRunning"}
      /\ InFlight("post")' = {q \in Runs : runs'[q] = "postRunning"}
      /\ InFlight("gpu")' = {q \in Runs : runs'[q] = "gpuRunning"}
    BY DEF InFlight, At
<1>6. \A q \in Runs : runs'[q] = IF q = r THEN w ELSE runs[q]
    BY <1>2, <1>3
<1>7. row.phase # "llm" => InFlight("post")' \subseteq InFlight("post")
    BY <1>2, <1>5, <1>6
<1>8. row.phase # "audio" => InFlight("gpu")' \subseteq InFlight("gpu")
    BY <1>2, <1>5, <1>6
<1> QED
    BY <1>1, <1>4, <1>7, <1>8

\* The steps that are neither the lanes' nor the tick's keep the phase and the tick.
HostStep ==
    \/ \E request \in Request : Ask(request)
    \/ PhaseAges \/ BackoffPasses \/ AnswerGoesStale
    \/ BrokerProceeds \/ LeaseExpires \/ ServiceDies \/ ServiceBoots

LEMMA HostKeeps ==
    ASSUME TypeOK, HostStep
    PROVE  /\ TypeOK' /\ row'.phase = row.phase /\ UNCHANGED <<tick, runs>>
           /\ Apart => Apart'
<1> DEFINE Env == [ops : Nat, crashes : Nat, faults : Nat, expiries : Nat, boots : Nat]
<1>1. /\ row \in RowType /\ row.age <= Thresholds /\ askedIn \in Phase
      /\ broker \in [state : BrokerState, lease : Lease \cup {0}] /\ env \in Env
      /\ running \in SUBSET Services
    BY DEF TypeOK, RowType
<1>2. ASSUME NEW request \in Request, Ask(request)
      PROVE  /\ TypeOK' /\ row'.phase = row.phase /\ UNCHANGED <<tick, runs>>
             /\ Apart => Apart'
    <2>1. /\ row' \in RowType /\ row'.phase = row.phase /\ row'.age = row.age
          /\ askedIn' \in Phase /\ env' \in Env /\ env'.boots = env.boots
          /\ UNCHANGED <<tick, runs, running, broker>>
        BY <1>1, <1>2 DEF Ask, RowType
    <2>2. row'.age <= Thresholds'
        BY <1>1, <2>1 DEF Thresholds, Windowed
    <2> QED
        BY <2>1, <2>2 DEF TypeOK, RowType, Apart, OneTenant, Exclusive
<1>3. ASSUME PhaseAges \/ BackoffPasses \/ AnswerGoesStale
      PROVE  /\ TypeOK' /\ row'.phase = row.phase /\ UNCHANGED <<tick, runs>>
             /\ Apart => Apart'
    <2>1. CASE PhaseAges
        <3>1. row.age + 1 \in 0..2 /\ row.age + 1 <= Thresholds
            BY <1>1, <2>1 DEF PhaseAges, RowType, Thresholds, Windowed
        <3>2. row' = [row EXCEPT !.age = @ + 1] /\ UNCHANGED <<askedIn, tick, runs, running, broker>>
            BY <2>1 DEF PhaseAges
        <3>3. row' \in RowType /\ row'.phase = row.phase /\ row'.age = row.age + 1
            BY <1>1, <3>1, <3>2 DEF RowType
        <3>4. row'.age <= Thresholds'
            BY <3>1, <3>3 DEF Thresholds, Windowed
        <3>5. env' \in Env /\ env'.boots = env.boots
            BY <1>1, <2>1 DEF PhaseAges
        <3> QED
            BY <1>1, <3>2, <3>3, <3>4, <3>5 DEF TypeOK, RowType, Apart, OneTenant, Exclusive
    <2>2. CASE BackoffPasses \/ AnswerGoesStale
        <3>1. /\ row' \in RowType /\ row'.phase = row.phase /\ row'.age = row.age
              /\ UNCHANGED <<askedIn, tick, runs, running, broker, env>>
            <4>1. CASE BackoffPasses
                BY <1>1, <4>1 DEF BackoffPasses, RowType
            <4>2. CASE AnswerGoesStale
                BY <1>1, <4>2 DEF AnswerGoesStale, RowType
            <4> QED
                BY <2>2, <4>1, <4>2
        <3>2. row'.age <= Thresholds'
            BY <1>1, <3>1 DEF Thresholds, Windowed
        <3> QED
            BY <1>1, <3>1, <3>2 DEF TypeOK, RowType, Apart, OneTenant, Exclusive
    <2> QED
        BY <1>3, <2>1, <2>2
<1>4. ASSUME BrokerProceeds \/ LeaseExpires \/ ServiceDies \/ ServiceBoots
      PROVE  /\ TypeOK' /\ row'.phase = row.phase /\ UNCHANGED <<tick, runs>>
             /\ Apart => Apart'
    <2>1. UNCHANGED <<row, askedIn, tick, runs>>
        BY <1>4 DEF BrokerProceeds, LeaseExpires, ServiceDies, ServiceBoots
    <2>2. broker' \in [state : BrokerState, lease : Lease \cup {0}]
        BY <1>1, <1>4 DEF BrokerProceeds, LeaseExpires, ServiceDies, ServiceBoots,
                          Grants, Free, BrokerState
    <2>3. running' \in SUBSET Services
        BY <1>1, <1>4 DEF BrokerProceeds, LeaseExpires, ServiceDies, ServiceBoots
    <2>4. env' \in Env /\ env'.boots \in {env.boots, env.boots - 1}
        BY <1>1, <1>4 DEF BrokerProceeds, LeaseExpires, ServiceDies, ServiceBoots
    <2>5. Apart => Apart'
        <3>1. CASE BrokerProceeds
            BY <3>1 DEF BrokerProceeds, Apart, OneTenant, Exclusive, Grants, Free
        <3>2. CASE LeaseExpires
            BY <1>1, <3>2 DEF LeaseExpires, Apart, OneTenant, Exclusive, Free
        <3>3. CASE ServiceDies
            BY <1>1, <3>3 DEF ServiceDies, Apart, OneTenant, Exclusive
        <3>4. CASE ServiceBoots
            <4>1. env.boots \in Nat /\ env'.boots = env.boots - 1
                BY <1>1, <3>4 DEF ServiceBoots
            <4> QED
                BY <4>1, BoundsAssumption DEF Apart, OneTenant
        <3> QED
            BY <1>4, <3>1, <3>2, <3>3, <3>4
    <2> QED
        BY <2>1, <2>2, <2>3, <2>4, <2>5 DEF TypeOK, Thresholds, Windowed
<1> QED
    BY <1>2, <1>3, <1>4 DEF HostStep

\* Every step is one of four kinds.
LEMMA NextSplit ==
    ASSUME Next
    PROVE  \/ \E r \in Runs : Submit(r) \/ Admit(r) \/ Finish(r)
           \/ ReadRow
           \/ TakeStep
           \/ HostStep
BY DEF Next, HostStep

LEMMA InitGInv == Init => GInv
<1> SUFFICES ASSUME Init PROVE GInv
    OBVIOUS
<1>1. TypeOK
    BY BoundsAssumption DEF Init, TypeOK, NoTick, Free, BrokerState, Phase, Thresholds, Windowed
<1> QED
    BY <1>1 DEF Init, GInv, BorrowedWhenIdle, CountsFresh, NoTick

LEMMA NextGInv == GInv /\ [Next]_vars => GInv'
<1> SUFFICES ASSUME GInv, [Next]_vars PROVE GInv'
    OBVIOUS
<1>1. ASSUME NEW r \in Runs, Submit(r) \/ Admit(r) \/ Finish(r) PROVE GInv'
    <2>1. /\ TypeOK' /\ UNCHANGED <<row, tick>>
          /\ row.phase # "llm" => InFlight("post")' \subseteq InFlight("post")
          /\ row.phase # "audio" => InFlight("gpu")' \subseteq InFlight("gpu")
        BY <1>1, LaneStep DEF GInv
    <2> QED
        BY <2>1 DEF GInv, BorrowedWhenIdle, CountsFresh
<1>2. CASE ReadRow
    <2>1. UNCHANGED <<row, askedIn, runs, running, broker, env>>
        BY <1>2 DEF ReadRow
    <2>2. /\ tick' = [pc |-> "read", request |-> row.request, demand |-> At("gpuQueued") # {},
                      busy |-> {lane \in Lane : InFlight(lane) # {}}]
        BY <1>2 DEF ReadRow
    <2>3. InFlight("post")' = InFlight("post") /\ InFlight("gpu")' = InFlight("gpu")
        BY <2>1 DEF InFlight, At
    <2>4. /\ tick'.busy \in SUBSET Lane /\ tick'.pc = "read" /\ tick'.demand \in BOOLEAN
          /\ tick'.request = row.request
          /\ "post" \notin tick'.busy => InFlight("post") = {}
          /\ "gpu" \notin tick'.busy => InFlight("gpu") = {}
        BY <2>2 DEF Lane
    <2>5. tick' \in [pc : {"idle", "read"}, request : Request \cup {"none"},
                     demand : BOOLEAN, busy : SUBSET Lane]
        BY <2>2, <2>4 DEF GInv, TypeOK
    <2>6. TypeOK'
        BY <2>1, <2>5 DEF GInv, TypeOK, Thresholds, Windowed
    <2> QED
        BY <2>1, <2>3, <2>4, <2>6 DEF GInv, BorrowedWhenIdle, CountsFresh
<1>3. CASE TakeStep
    <2>1. tick.pc = "read" /\ TypeOK
        BY <1>3 DEF TakeStep, GInv
    <2>2. TypeOK' /\ tick' = NoTick /\ runs' = runs
        BY <1>3, <2>1, TickStep DEF Stepped
    <2>3. InFlight("post")' = InFlight("post")
        BY <2>2 DEF InFlight, At
    <2>4. /\ row.phase # "draining_post" /\ row'.phase = "acquiring" => row.phase = "acquiring"
          /\ row.phase = "draining_post" /\ row'.phase = "acquiring" => "post" \notin tick.busy
          /\ row'.phase \in {"starting_services", "audio", "draining"}
                 => row.phase \in {"acquiring", "starting_services", "audio", "draining"}
        BY <1>3, <2>1, TickStep
    <2>5. BorrowedWhenIdle'
        BY <2>1, <2>3, <2>4 DEF GInv, BorrowedWhenIdle, CountsFresh
    <2> QED
        BY <2>2, <2>5 DEF GInv, CountsFresh, NoTick
<1>4. CASE HostStep
    <2>1. TypeOK' /\ row'.phase = row.phase /\ UNCHANGED <<tick, runs>>
        BY <1>4, HostKeeps DEF GInv
    <2> QED
        BY <2>1 DEF GInv, BorrowedWhenIdle, CountsFresh, InFlight, At
<1>5. CASE UNCHANGED vars
    BY <1>5 DEF GInv, TypeOK, BorrowedWhenIdle, CountsFresh, InFlight, At, vars,
                Thresholds, Windowed
<1> QED
    BY <1>1, <1>2, <1>3, <1>4, <1>5, NextSplit

\* The phase row's inductive invariant holds whatever the bounds on failures.
THEOREM PhaseInvariant == Spec => []GInv
<1>1. Init => GInv
    BY InitGInv
<1>2. GInv /\ [Next]_vars => GInv'
    BY NextGInv
<1> QED
    BY <1>1, <1>2, PTL DEF Spec

\* Type correctness of the phase row, the tick and the host.
THEOREM PhaseTypeCorrect == Spec => []TypeOK
<1>1. GInv => TypeOK
    BY DEF GInv
<1> QED
    BY <1>1, PhaseInvariant, PTL

\* The language model is taken away only when no work admitted to it is left, for
\* any number of runs and whatever fails (decide, admit_lane).
THEOREM LlmBorrowedWhenIdle == Spec => []BorrowedWhenIdle
<1>1. GInv => BorrowedWhenIdle
    BY DEF GInv
<1> QED
    BY <1>1, PhaseInvariant, PTL

\* No tick takes the services from audio work in progress but after a failure or
\* on the operator's word, although its counts are older than its calls (tick).
THEOREM AudioCutOnlyForCause == Spec => CutOnlyForCause
<1>1. GInv /\ [Next]_vars => [EndsAudio => ~row'.due \/ tick.request = "release"]_vars
    <2> SUFFICES ASSUME GInv, Next, EndsAudio
                 PROVE  ~row'.due \/ tick.request = "release"
        OBVIOUS
    <2>1. /\ row.phase \in {"audio", "draining"} /\ row'.phase \notin {"audio", "draining"}
          /\ InFlight("gpu") # {}
        BY DEF EndsAudio
    <2>2. ASSUME NEW r \in Runs, Submit(r) \/ Admit(r) \/ Finish(r) PROVE FALSE
        BY <2>1, <2>2, LaneStep DEF GInv
    <2>3. ~ReadRow
        BY <2>1 DEF ReadRow
    <2>4. ~HostStep
        BY <2>1, HostKeeps DEF GInv
    <2>5. TakeStep
        BY <2>2, <2>3, <2>4, NextSplit
    <2>6. tick.pc = "read"
        BY <2>5 DEF TakeStep
    <2>7. /\ row.phase = "audio" => row'.phase \in {"audio", "draining"} \/ ~row'.due
          /\ row.phase = "draining" =>
                 \/ row'.phase = "draining" \/ ~row'.due
                 \/ tick.request = "release" \/ "gpu" \notin tick.busy
        BY <2>5, <2>6, TickStep DEF GInv
    <2> QED
        BY <2>1, <2>6, <2>7 DEF GInv, CountsFresh
<1> QED
    BY <1>1, PhaseInvariant, PTL DEF Spec, CutOnlyForCause

\* Until a service starts by itself, a model service and the language model never
\* have the GPU at once, whatever calls fail, ticks die and leases expire.
THEOREM TenantsApart == Spec => []OneTenant
<1>1. Init => Apart
    BY BoundsAssumption DEF Init, Apart, OneTenant, Exclusive
<1>2. GInv /\ Apart /\ [Next]_vars => Apart'
    <2> SUFFICES ASSUME GInv, Apart, [Next]_vars PROVE Apart'
        OBVIOUS
    <2>1. ASSUME NEW r \in Runs, Submit(r) \/ Admit(r) \/ Finish(r) PROVE Apart'
        <3>1. UNCHANGED <<running, broker, env>>
            BY <2>1, LaneStep DEF GInv
        <3> QED
            BY <3>1 DEF Apart, OneTenant, Exclusive
    <2>2. CASE ReadRow
        BY <2>2 DEF ReadRow, Apart, OneTenant, Exclusive
    <2>3. CASE TakeStep
        <3>1. tick.pc = "read" /\ TypeOK
            BY <2>3 DEF TakeStep, GInv
        <3>2. (Exclusive => Exclusive') /\ env'.boots = env.boots
            BY <2>3, <3>1, TickStep DEF Stepped
        <3> QED
            BY <3>2 DEF Apart, OneTenant
    <2>4. CASE HostStep
        BY <2>4, HostKeeps DEF GInv
    <2>5. CASE UNCHANGED vars
        BY <2>5 DEF Apart, OneTenant, Exclusive, vars
    <2> QED
        BY <2>1, <2>2, <2>3, <2>4, <2>5, NextSplit
<1>3. Apart => OneTenant
    BY DEF Apart
<1> QED
    BY <1>1, <1>2, <1>3, PhaseInvariant, PTL DEF Spec

-----------------------------------------------------------------------------
(* A request for audio.  Outside llm and audio a tick consumes a release.  *)

Keeps(next) == Fine(next) /\ next.request = "audio"

\* No row a tick may write but llm's and audio's forgets a request for audio.
LEMMA ToKeeps ==
    ASSUME TypeOK, row.request = "audio", NEW phase \in Phase
    PROVE  Keeps(To(phase)) /\ Keeps(Failure(phase))
<1>1. Fine(To(phase)) /\ Fine(Failure(phase))
    BY ToFine, FailureFine
<1>2. To(phase).request = row.request
    BY DEF To, TypeOK
<1>3. Failure(phase).request = To(phase).request
    BY <1>1 DEF Failure, Fine, RowType
<1> QED
    BY <1>1, <1>2, <1>3 DEF Keeps

\* Consuming a release leaves a request for audio.
LEMMA ObeyedKeeps ==
    ASSUME NEW next, Keeps(next) PROVE Keeps(Obeyed(next))
BY ObeyedFine DEF Keeps, Obeyed, Consumed

\* So does taking note of a lease.
LEMMA LeasingKeeps ==
    ASSUME NEW next, Keeps(next), NEW id \in Lease \cup {0} PROVE Keeps(Leasing(next, id))
BY LeasingFine DEF Keeps

\* And of the answer to a renewal.
LEMMA RenewedKeeps ==
    ASSUME TypeOK, NEW a \in Renewals, NEW next, Keeps(next) PROVE Keeps(Renewed(a, next))
BY LeasingKeeps, RenewalFine DEF Renewed

\* A tick outside llm and audio writes what keeps a request for audio, or nothing.
LEMMA TickKeeps ==
    ASSUME TypeOK, row.request = "audio", row.phase \notin {"llm", "audio"}, TakeStep
    PROVE  row'.request = "audio"
<1>1. ASSUME NEW next, Keeps(next), NEW cost, Commit(next, cost) PROVE row'.request = "audio"
    BY <1>1 DEF Commit, Keeps
<1>2. \A phase \in Phase : Keeps(To(phase)) /\ Keeps(Failure(phase)) /\ Keeps(Obeyed(To(phase)))
    BY ToKeeps, ObeyedKeeps
<1>3. CASE row.phase = "draining_post" /\ InDrainingPost
    <2>1. tick.request = "release" => Consumed(To("llm")) = Obeyed(To("llm"))
        BY DEF Obeyed
    <2> QED
        BY <1>1, <1>2, <1>3, <2>1 DEF InDrainingPost, Phase
<1>4. CASE row.phase = "acquiring" /\ InAcquiring
    <2>1. PICK a \in NewLease :
              Commit(CASE a.kind = "held" ->
                          [Leasing(To("starting_services"), a.lease) EXCEPT !.err = FALSE]
                    [] a.kind = "pending" /\ row.age = 0 -> To("acquiring")
                    [] a.kind = "busy" -> Failure("llm")
                    [] OTHER -> Failure("releasing"), a.cost)
        BY <1>4 DEF InAcquiring
    <2>2. Keeps(Leasing(To("starting_services"), a.lease))
        BY <1>2, LeasingKeeps, NewLeaseFine DEF Phase
    <2>3. Keeps([Leasing(To("starting_services"), a.lease) EXCEPT !.err = FALSE])
        BY <2>2 DEF Keeps, Fine, RowType
    <2> QED
        BY <1>1, <1>2, <2>1, <2>3 DEF Phase
<1>5. CASE row.phase = "starting_services" /\ InStarting
    <2>1. PICK a \in Renewals :
              \E next \in {Failure("stopping_services"), To("starting_services"), To("audio")} :
                  \E cost : Commit(Renewed(a, next), cost)
        BY <1>5, RenewalFine DEF InStarting
    <2> QED
        BY <1>1, <1>2, <2>1, RenewedKeeps DEF Phase
<1>6. CASE row.phase = "draining" /\ InDraining
    <2>1. PICK a \in Renewals :
              \E next \in {Failure("stopping_services"), Obeyed(To("stopping_services")),
                           To("draining")} :
                  \E cost : \/ Commit(Renewed(a, next), cost)
                            \/ Commit(Failure("stopping_services"), cost)
        BY <1>6 DEF InDraining, Working
    <2> QED
        BY <1>1, <1>2, <2>1, RenewedKeeps DEF Phase
<1>7. CASE row.phase = "stopping_services" /\ InStopping
    <2>1. PICK a \in Renewals :
              \E next \in {To("releasing"), Failure("error")} :
                  \E cost : Commit(Renewed(a, next), cost)
        BY <1>7 DEF InStopping
    <2> QED
        BY <1>1, <1>2, <2>1, RenewedKeeps DEF Phase
<1>8. CASE row.phase = "releasing" /\ InReleasing
    <2>1. ASSUME NEW a, a.lease \in Lease \cup {0} PROVE Keeps(AfterRelease(a))
        <3>1. Keeps([Obeyed(To("llm")) EXCEPT !.lease = 0, !.due = @ \/ ~row.err])
            <4>1. Keeps(Obeyed(To("llm"))) /\ row.err \in BOOLEAN
                BY <1>2 DEF Phase, TypeOK
            <4>2. PICK due \in BOOLEAN :
                      [Obeyed(To("llm")) EXCEPT !.lease = 0, !.due = @ \/ ~row.err]
                          = [Obeyed(To("llm")) EXCEPT !.lease = 0, !.due = due]
                BY <4>1 DEF Keeps, Fine, RowType
            <4> QED
                BY <4>1, <4>2 DEF Keeps, Fine, RowType
        <3>2. Keeps(Leasing(To("releasing"), a.lease))
            BY <1>2, <2>1, LeasingKeeps DEF Phase
        <3>3. Keeps(Obeyed(Leasing(Failure("error"), a.lease)))
            BY <1>2, <2>1, LeasingKeeps, ObeyedKeeps DEF Phase
        <3> QED
            BY <1>2, <3>1, <3>2, <3>3 DEF AfterRelease, Phase
    <2>2. CASE \E next \in {Failure("error"), Failure("stopping_services")} :
                  \E cost : Commit(next, cost)
        BY <1>1, <1>2, <2>2 DEF Phase
    <2>3. CASE \E h \in ToRelease :
                  \E a \in IF h.kind = "held" THEN Release(h.lease)
                           ELSE {Answer(IF h.kind = "free" THEN "released" ELSE "failed",
                                        0, broker, 0)} :
                      Commit(AfterRelease(a), h.cost + a.cost)
        <3>1. PICK h \in ToRelease :
                  \E a \in IF h.kind = "held" THEN Release(h.lease)
                           ELSE {Answer(IF h.kind = "free" THEN "released" ELSE "failed",
                                        0, broker, 0)} :
                      Commit(AfterRelease(a), h.cost + a.cost)
            BY <2>3
        <3>2. h.lease \in Lease \cup {0}
            BY StatusFine DEF ToRelease, TypeOK
        <3>3. PICK a : a.lease \in Lease \cup {0} /\ Commit(AfterRelease(a), h.cost + a.cost)
            BY <3>1, <3>2, ReleaseFine DEF Answer
        <3> QED
            BY <1>1, <2>1, <3>3
    <2> QED
        BY <1>8, <2>2, <2>3 DEF InReleasing
<1>9. CASE row.phase = "error" /\ InError
    <2>1. PICK a \in Renewals :
              \E next \in {Obeyed(To("stopping_services")), To("error")} :
                  Commit(Renewed(a, next), a.cost)
        BY <1>9 DEF InError
    <2> QED
        BY <1>1, <1>2, <2>1, RenewedKeeps DEF Phase
<1> QED
    BY <1>3, <1>4, <1>5, <1>6, <1>7, <1>8, <1>9 DEF TakeStep

\* A request for audio that an operator makes while the GPU is handed back is
\* still there in llm, whatever ticks read before it came (expected_request).
THEOREM AudioRequestsStay == Spec => AudioRequestKept
<1>1. GInv /\ [Next]_vars
          => [row.request = "audio" /\ row'.request = "none" => row.phase \in {"llm", "audio"}]_vars
    <2> SUFFICES ASSUME GInv, Next, row.request = "audio", row'.request = "none",
                        row.phase \notin {"llm", "audio"}
                 PROVE  FALSE
        OBVIOUS
    <2>1. TypeOK
        BY DEF GInv
    <2>2. ASSUME NEW r \in Runs, Submit(r) \/ Admit(r) \/ Finish(r) PROVE FALSE
        BY <2>1, <2>2, LaneStep
    <2>3. ~ReadRow
        BY DEF ReadRow
    <2>4. ~TakeStep
        BY <2>1, TickKeeps
    <2>5. ~HostStep
        BY <2>1 DEF HostStep, Ask, PhaseAges, BackoffPasses, AnswerGoesStale, BrokerProceeds,
                    LeaseExpires, ServiceDies, ServiceBoots, TypeOK, Request
    <2> QED
        BY <2>2, <2>3, <2>4, <2>5, NextSplit
<1> QED
    BY <1>1, PhaseInvariant, PTL DEF Spec, AudioRequestKept

=============================================================================
