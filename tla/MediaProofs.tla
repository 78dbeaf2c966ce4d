------------------------------ MODULE MediaProofs ------------------------------
(***************************************************************************)
(* Proofs about MediaReconciler: the invariants of MediaInv, who may write *)
(* what, and that the journal implements MediaCopies.                      *)
(***************************************************************************)
EXTENDS MediaInv, TLAPS

-----------------------------------------------------------------------------
(* The operators the actions are made of.                                  *)

(* The paths an operation names are different from one another's.          *)
LEMMA PathsDiffer ==
    /\ \A o \in Op : Home # Trash(o) /\ Home # Temp(o) /\ Derived # Trash(o) /\ Derived # Temp(o)
    /\ \A o, k \in Op : Trash(o) # Temp(k)
    /\ \A o, k \in Op : Trash(o) = Trash(k) => o = k
    /\ \A o, k \in Op : Temp(o) = Temp(k) => o = k
    /\ Home # Derived /\ Home # Nowhere /\ Derived # Nowhere
    /\ \A o \in Op : Trash(o) # Nowhere /\ Temp(o) # Nowhere
    /\ Home \in Path /\ Derived \in Path
    /\ \A o \in Op : Trash(o) \in Path /\ Temp(o) \in Path
BY DEF Home, Derived, Trash, Temp, Nowhere, Path

(* The number 0 stands for no operation.                                   *)
LEMMA OpsAreNumbers == 0 \notin Op
BY DEF Op

(* A recording is never where the derived files or a temporary file are.   *)
LEMMA PlacedIsPath ==
    ASSUME NEW p, Placed(p)
    PROVE  p \in Path /\ p # Derived /\ p # Nowhere /\ \A o \in Op : p # Temp(o)
BY PathsDiffer DEF Placed

(* A step of one actor to a typed state keeps the table typed.             *)
LEMMA BecomeFacts ==
    ASSUME TypeOK, NEW a \in Actors, NEW me \in ActorType, Become(a, me)
    PROVE  /\ actors' \in [Actors -> ActorType] /\ actors'[a] = me
           /\ \A b \in Actors : b # a => actors'[b] = actors[b]
BY DEF Become, TypeOK

(* What a pass has read before it reads anything.                          *)
LEMMA NoViewTyped == NoView \in ViewType
BY DEF NoView, ViewType, Content

(* The state of an actor that does nothing is typed.                       *)
LEMMA IdleFacts ==
    /\ Idle \in ActorType
    /\ Idle.pc = "idle" /\ Idle.op = 0 /\ Idle.from = "planned"
<1>1. NoSeen \in SeenType
  BY DEF NoSeen, SeenType, Kind
<1>2. NoView \in ViewType
  BY DEF NoView, ViewType, Content
<1>3. NoSeen \in SeenType /\ NoView \in ViewType
  BY <1>1, <1>2
<1> QED
  BY <1>3 DEF Idle, ActorType, ProgramPoint, OperationState, Terminal, Part, PartStatus

(* Leaving is becoming idle.                                               *)
LEMMA LeaveFacts ==
    ASSUME TypeOK, NEW a \in Actors, Leave(a)
    PROVE  /\ actors' \in [Actors -> ActorType] /\ actors'[a] = Idle
           /\ \A b \in Actors : b # a => actors'[b] = actors[b]
BY IdleFacts, BecomeFacts DEF Leave

(* Going to another place changes nothing else.                            *)
LEMMA GotoFacts ==
    ASSUME TypeOK, NEW a \in Actors, NEW pc \in ProgramPoint, Goto(a, pc)
    PROVE  /\ actors' \in [Actors -> ActorType]
           /\ actors'[a] = [actors[a] EXCEPT !.pc = pc]
           /\ actors'[a].pc = pc /\ actors'[a].op = actors[a].op
           /\ actors'[a].from = actors[a].from /\ actors'[a].role = actors[a].role
           /\ actors'[a].view = actors[a].view /\ actors'[a].todo = actors[a].todo
           /\ actors'[a].part = actors[a].part /\ actors'[a].outcome = actors[a].outcome
           /\ \A b \in Actors : b # a => actors'[b] = actors[b]
<1>1. actors[a] \in ActorType
  BY DEF TypeOK
<1>2. [actors[a] EXCEPT !.pc = pc] \in ActorType
  BY <1>1 DEF ActorType
<1>3. Become(a, [actors[a] EXCEPT !.pc = pc])
  BY DEF Goto
<1>4. /\ actors' \in [Actors -> ActorType] /\ actors'[a] = [actors[a] EXCEPT !.pc = pc]
      /\ \A b \in Actors : b # a => actors'[b] = actors[b]
  BY <1>2, <1>3, BecomeFacts
<1> QED
  BY <1>1, <1>4 DEF ActorType

(* Writing a row writes one row.                                           *)
LEMMA SetRowFacts ==
    ASSUME TypeOK, NEW o \in Op, NEW row \in RowType, SetRow(o, row)
    PROVE  /\ ops' \in [Op -> RowType] /\ ops'[o] = row
           /\ \A p \in Op : p # o => ops'[p] = ops[p]
BY DEF SetRow, TypeOK

(* What a commit that moves an operation leaves of its row.                *)
LEMMA MovedFacts ==
    ASSUME NEW row \in RowType, NEW state \in OperationState
    PROVE  /\ Moved(row, state) \in RowType
           /\ Moved(row, state).kind = row.kind /\ Moved(row, state).origin = row.origin
           /\ Moved(row, state).dest = row.dest /\ Moved(row, state).owner = row.owner
           /\ Moved(row, state).live = row.live /\ Moved(row, state).lost = row.lost
           /\ Moved(row, state).state = state /\ Moved(row, state).held = NoOne
BY DEF Moved, RowType

(* What a commit that parks an operation leaves of its row.                *)
LEMMA ParkedFacts ==
    ASSUME NEW row \in RowType, NEW lost \in BOOLEAN
    PROVE  /\ Parked(row, lost) \in RowType
           /\ Parked(row, lost).kind = row.kind /\ Parked(row, lost).origin = row.origin
           /\ Parked(row, lost).dest = row.dest /\ Parked(row, lost).owner = row.owner
           /\ Parked(row, lost).live = row.live /\ Parked(row, lost).lost = lost
           /\ Parked(row, lost).state = "awaiting_retry" /\ Parked(row, lost).held = NoOne
BY DEF Parked, RowType, OperationState

(* A rollback gives up the row lock and changes nothing else.              *)
LEMMA RollbackFacts ==
    ASSUME TypeOK, NEW a \in Actors, NEW o \in Op, OpOf(a) = o, Rollback(a)
    PROVE  \E row \in RowType :
               /\ SetRow(o, row)
               /\ row = [ops[o] EXCEPT !.held = IF @ = a THEN NoOne ELSE @]
               /\ row.kind = ops[o].kind /\ row.origin = ops[o].origin
               /\ row.dest = ops[o].dest /\ row.owner = ops[o].owner
               /\ row.state = ops[o].state /\ row.live = ops[o].live
               /\ row.lost = ops[o].lost
               /\ row.held = IF ops[o].held = a THEN NoOne ELSE ops[o].held
               /\ ops[o].held # a => row = ops[o]
<1> DEFINE row == [ops[o] EXCEPT !.held = IF @ = a THEN NoOne ELSE @]
<1>1. ops[o] \in RowType
  BY DEF TypeOK
<1>2. row \in RowType
  BY <1>1 DEF RowType
<1>3. SetRow(o, row)
  BY DEF Rollback, RowOf
<1>4. /\ row.kind = ops[o].kind /\ row.origin = ops[o].origin
      /\ row.dest = ops[o].dest /\ row.owner = ops[o].owner
      /\ row.state = ops[o].state /\ row.live = ops[o].live
      /\ row.lost = ops[o].lost
      /\ row.held = IF ops[o].held = a THEN NoOne ELSE ops[o].held
  BY <1>1 DEF RowType
<1>5. ops[o].held # a => row = ops[o]
  BY <1>1 DEF RowType
<1> QED
  BY <1>2, <1>3, <1>4, <1>5

(* Leaving a row as it is writes it as it is.                              *)
LEMMA SameRow ==
    ASSUME TypeOK, NEW o \in Op, UNCHANGED ops
    PROVE  SetRow(o, ops[o]) /\ ops[o] \in RowType
BY DEF TypeOK, SetRow

-----------------------------------------------------------------------------
(* What every step of an actor has in common.                              *)

OthersStay(a) == \A b \in Actors : b # a => actors'[b] = actors[b]

\* Rows end and change hands only through their owners or to the actor.
RowsStep(a) ==
    \A p \in Op :
        /\ ops[p].kind # "none" =>
               /\ ops'[p].kind = ops[p].kind
               /\ ops'[p].origin = ops[p].origin
               /\ ops'[p].dest = ops[p].dest
        /\ ops'[p] = ops[p] \/ (Open(a, p) /\ ops'[p].held \in {NoOne, a})
        /\ ops'[p].owner \in {ops[p].owner, a}
        /\ ops'[p].held = a =>
               /\ Active(p)' /\ ops'[p].owner = a
               /\ actors'[a].op = p /\ actors'[a].pc \notin OpenPoint
        /\ Active(p) /\ ~Active(p)' => ops[p].owner = a
        /\ p = OpOf(a) /\ ops'[p].state # ops[p].state => ops[p].owner = a \/ At(a, "rescue")

\* No operation begins.
OldRows ==
    \A p \in Op :
        /\ ops'[p].kind = ops[p].kind
        /\ ops'[p].origin = ops[p].origin
        /\ ops'[p].dest = ops[p].dest
        /\ Active(p)' => Active(p)

\* What the actor knows where it has got to.
OwnFine(a) ==
    /\ ActorFine(actors[a])'
    /\ At(a, "decide")' => RowOf(a)'.held = a
    /\ OpOf(a)' # 0 /\ Mine(a)' => Active(OpOf(a))'

Frame(a) ==
    /\ actors' \in [Actors -> ActorType]
    /\ ops' \in [Op -> RowType]
    /\ OthersStay(a)
    /\ RowsStep(a)
    /\ OldRows
    /\ OwnFine(a)

(* The number of an operation in hand.                                     *)
LEMMA InHand ==
    ASSUME Base, NEW a \in Actors, ~(actors[a].pc \in {"idle", "choose", "plan", "admit"})
    PROVE  /\ OpOf(a) \in Op /\ ops[OpOf(a)].kind # "none" /\ ops[OpOf(a)] \in RowType
           /\ actors[a] \in ActorType /\ actors[a].from \notin Terminal
<1>1. actors[a] \in ActorType /\ ActorFine(actors[a])
  BY DEF Base, TypeOK, ActorsFine
<1>2. OpOf(a) \in Op /\ ops[OpOf(a)].kind # "none" /\ actors[a].from \notin Terminal
  BY <1>1 DEF ActorFine, ActorType, OpOf
<1>3. ops[OpOf(a)] \in RowType
  BY <1>2 DEF Base, TypeOK
<1> QED
  BY <1>1, <1>2, <1>3

(* An actor that stays with its operation: it writes its row under the     *)
(* row lock or not at all.                                                 *)
LEMMA Stays ==
    ASSUME Base, NEW a \in Actors, NEW o \in Op, OpOf(a) = o, ops[o].kind # "none",
           NEW me \in ActorType, Become(a, me), me.op = o,
           me.pc \notin {"idle", "choose", "plan", "admit"}, me.from \notin Terminal,
           me.pc \in MovePoint => Move(o),
           me.pc \in PurgePoint => ops[o].kind = "purge",
           NEW row \in RowType, SetRow(o, row),
           row.kind = ops[o].kind, row.origin = ops[o].origin, row.dest = ops[o].dest,
           row.owner = ops[o].owner,
           row = ops[o] \/ (Open(a, o) /\ row.held \in {NoOne, a}),
           row.held = a => row.owner = a /\ row.state \notin Terminal /\ me.pc \notin OpenPoint,
           me.pc = "decide" => row.held = a,
           row.state \in Terminal <=> ops[o].state \in Terminal,
           row.state # ops[o].state => ops[o].owner = a
    PROVE  Frame(a)
<1>1. TypeOK
  BY DEF Base
<1>2. /\ actors' \in [Actors -> ActorType] /\ actors'[a] = me
      /\ \A b \in Actors : b # a => actors'[b] = actors[b]
  BY <1>1, BecomeFacts
<1>3. /\ ops' \in [Op -> RowType] /\ ops'[o] = row
      /\ \A p \in Op : p # o => ops'[p] = ops[p]
  BY <1>1, SetRowFacts
<1>4. OthersStay(a)
  BY <1>2 DEF OthersStay
<1>5. \A p \in Op : Active(p)' <=> Active(p)
  BY <1>3 DEF Active
<1>6. \A p \in Op : p # o => ops[p].held # a
  BY MediaAssumption DEF Base, LocksFine, LockFine
<1>7. RowsStep(a)
  <2> USE DEF RowsStep
  <2> TAKE p \in Op
  <2>1. CASE p = o
    BY <1>2, <1>3, <1>5, <2>1 DEF Active
  <2>2. CASE p # o
    BY <1>3, <1>5, <1>6, <2>2
  <2> QED
    BY <2>1, <2>2
<1>8. OldRows
  BY <1>3, <1>5 DEF OldRows
<1>9. OwnFine(a)
  <2>1. ActorFine(actors[a])'
    BY <1>2, <1>3, OpsAreNumbers DEF ActorFine, Move, MovePoint, PurgePoint
  <2>2. At(a, "decide")' => RowOf(a)'.held = a
    BY <1>2, <1>3 DEF At, RowOf, OpOf
  <2>3. OpOf(a)' # 0 /\ Mine(a)' => Active(OpOf(a))'
    BY <1>2, <1>3, <1>5, OpsAreNumbers DEF OpOf, RowOf, Mine, Base, OwnersBusy
  <2> QED
    BY <2>1, <2>2, <2>3 DEF OwnFine
<1> QED
  BY <1>2, <1>3, <1>4, <1>7, <1>8, <1>9 DEF Frame

(* An actor that is through with its operation, whatever came of it.       *)
LEMMA Leaves ==
    ASSUME Base, NEW a \in Actors, NEW o \in Op, OpOf(a) = o, ops[o].kind # "none", Leave(a),
           NEW row \in RowType, SetRow(o, row),
           row.kind = ops[o].kind, row.origin = ops[o].origin, row.dest = ops[o].dest,
           row.owner \in {ops[o].owner, a},
           row = ops[o] \/ (Open(a, o) /\ row.held = NoOne),
           row.held # a,
           row.state \notin Terminal => ops[o].state \notin Terminal,
           row.state \in Terminal /\ ops[o].state \notin Terminal => ops[o].owner = a,
           row.state # ops[o].state => ops[o].owner = a \/ At(a, "rescue")
    PROVE  Frame(a)
<1>1. TypeOK
  BY DEF Base
<1>2. /\ actors' \in [Actors -> ActorType] /\ actors'[a] = Idle
      /\ \A b \in Actors : b # a => actors'[b] = actors[b]
  BY <1>1, LeaveFacts
<1>3. /\ ops' \in [Op -> RowType] /\ ops'[o] = row
      /\ \A p \in Op : p # o => ops'[p] = ops[p]
  BY <1>1, SetRowFacts
<1>4. OthersStay(a)
  BY <1>2 DEF OthersStay
<1>5. \A p \in Op : Active(p)' => Active(p)
  BY <1>3 DEF Active
<1>6. \A p \in Op : ops'[p].held # a
  BY <1>3, MediaAssumption DEF Base, LocksFine, LockFine
<1>7. RowsStep(a)
  <2> USE DEF RowsStep
  <2> TAKE p \in Op
  <2>1. CASE p = o
    BY <1>3, <1>5, <1>6, <2>1 DEF Active
  <2>2. CASE p # o
    BY <1>3, <1>5, <1>6, <2>2 DEF Active
  <2> QED
    BY <2>1, <2>2
<1>8. OldRows
  BY <1>3, <1>5 DEF OldRows
<1>9. OwnFine(a)
  BY <1>2, IdleFacts DEF OwnFine, ActorFine, MovePoint, PurgePoint, Terminal, At, OpOf
<1> QED
  BY <1>2, <1>3, <1>4, <1>7, <1>8, <1>9 DEF Frame

(* An actor that has no operation yet, or none any more.                   *)
LEMMA StaysAway ==
    ASSUME Base, NEW a \in Actors, OpOf(a) = 0, NEW me \in ActorType, Become(a, me), me.op = 0,
           me.pc \in {"idle", "choose", "plan", "admit"}, me.from \notin Terminal,
           me.pc = "choose" => me.seen.kind = "restore" /\ Placed(me.seen.path),
           me.pc = "plan" => /\ me.seen.kind \in {"trash", "restore"} /\ Placed(me.seen.path)
                             /\ me.seen.kind = "restore" => Placed(me.seen.dest),
           UNCHANGED ops
    PROVE  Frame(a)
<1>1. TypeOK
  BY DEF Base
<1>2. /\ actors' \in [Actors -> ActorType] /\ actors'[a] = me
      /\ \A b \in Actors : b # a => actors'[b] = actors[b]
  BY <1>1, BecomeFacts
<1>3. ops' \in [Op -> RowType] /\ \A p \in Op : ops[p].held # a
  BY <1>1, OpsAreNumbers, MediaAssumption DEF TypeOK, Base, LocksFine, LockFine
<1>4. OthersStay(a) /\ OldRows
  BY <1>2 DEF OthersStay, OldRows, Active
<1>5. RowsStep(a)
  BY <1>3 DEF RowsStep, Active
<1>6. OwnFine(a)
  <2>1. ActorFine(actors[a])'
    BY <1>2 DEF ActorFine, MovePoint, PurgePoint, Placed
  <2> QED
    BY <1>2, <2>1 DEF OwnFine, At, OpOf
<1> QED
  BY <1>2, <1>3, <1>4, <1>5, <1>6 DEF Frame

(* Who wins a compare-and-set owns an operation in flight.                 *)
LEMMA OwnsActive ==
    ASSUME Base, NEW a \in Actors, NEW o \in Op, NEW from, from \notin Terminal,
           ops[o].kind # "none", Owns(a, o, from)
    PROVE  Active(o) /\ ops[o].owner = a /\ ops[o].state \notin Terminal
BY MediaAssumption DEF Owns, Active, Base, LocksFine, LockFine

(* A rollback that ends the actor's work.                                  *)
LEMMA GivesUp ==
    ASSUME Base, NEW a \in Actors, NEW o \in Op, OpOf(a) = o, ops[o].kind # "none",
           Leave(a), Rollback(a)
    PROVE  Frame(a) /\ \A p \in Op : ops'[p].state = ops[p].state
<1>1. TypeOK
  BY DEF Base
<1>2. PICK row \in RowType :
          /\ SetRow(o, row)
          /\ row = [ops[o] EXCEPT !.held = IF @ = a THEN NoOne ELSE @]
          /\ row.kind = ops[o].kind /\ row.origin = ops[o].origin
          /\ row.dest = ops[o].dest /\ row.owner = ops[o].owner
          /\ row.state = ops[o].state /\ row.live = ops[o].live
          /\ row.lost = ops[o].lost
          /\ row.held = IF ops[o].held = a THEN NoOne ELSE ops[o].held
          /\ ops[o].held # a => row = ops[o]
  BY <1>1, RollbackFacts
<1>3. row = ops[o] \/ (Open(a, o) /\ row.held = NoOne)
  BY <1>2 DEF Open
<1>4. row.held # a
  BY <1>2, MediaAssumption
<1>5. Frame(a)
  BY <1>2, <1>3, <1>4, Leaves
<1>6. ops'[o] = row /\ \A p \in Op : p # o => ops'[p] = ops[p]
  BY <1>1, <1>2, SetRowFacts
<1>7. \A p \in Op : ops'[p].state = ops[p].state
  BY <1>2, <1>6
<1> QED
  BY <1>5, <1>7

\* A state the actor can go on in after a commit.
GoesOn(o, then) ==
    /\ then.op = o /\ then.from \notin Terminal
    /\ then.pc \notin {"idle", "choose", "plan", "admit", "decide"}
    /\ then.pc \in MovePoint => Move(o)
    /\ then.pc \in PurgePoint => ops[o].kind = "purge"

(* A compare-and-set, won or lost.                                         *)
LEMMA TransitionFrame ==
    ASSUME Base, NEW a \in Actors, NEW o \in Op, OpOf(a) = o, ops[o].kind # "none",
           NEW from, from \notin Terminal, NEW row \in RowType, NEW then \in ActorType,
           row.kind = ops[o].kind, row.origin = ops[o].origin, row.dest = ops[o].dest,
           row.owner = ops[o].owner, row.held = NoOne,
           then = Idle \/ (GoesOn(o, then) /\ row.state \notin Terminal),
           Transition(a, from, row, then)
    PROVE  Frame(a)
<1>1. Open(a, o)
  BY DEF Transition
<1>2. CASE Owns(a, o, from)
  <2>1. SetRow(o, row) /\ Become(a, then)
    BY <1>2 DEF Transition
  <2>2. Active(o) /\ ops[o].owner = a /\ ops[o].state \notin Terminal
    BY <1>2, OwnsActive
  <2>3. NoOne # a
    BY MediaAssumption
  <2>4. CASE then = Idle
    <3>1. Leave(a)
      BY <2>1, <2>4 DEF Leave
    <3> QED
      BY <1>1, <2>1, <2>2, <2>3, <3>1, Leaves
  <2>5. CASE GoesOn(o, then) /\ row.state \notin Terminal
    BY <1>1, <2>1, <2>2, <2>3, <2>5, Stays DEF GoesOn
  <2> QED
    BY <2>4, <2>5
<1>3. CASE ~Owns(a, o, from)
  <2>1. Rollback(a) /\ Leave(a)
    BY <1>3 DEF Transition
  <2> QED
    BY <2>1, GivesUp
<1> QED
  BY <1>2, <1>3

(* A program point without a row written.                                  *)
LEMMA GoesFrame ==
    ASSUME Base, NEW a \in Actors, NEW o \in Op, OpOf(a) = o, ops[o].kind # "none",
           NEW me \in ActorType, Become(a, me), GoesOn(o, me), UNCHANGED ops,
           ops[o].held = a => me.pc \notin OpenPoint
    PROVE  Frame(a)
<1>1. SetRow(o, ops[o]) /\ ops[o] \in RowType
  BY SameRow DEF Base
<1>2. ops[o].held = a => ops[o].owner = a /\ ops[o].state \notin Terminal
  BY MediaAssumption DEF Base, LocksFine, LockFine, Active
<1> QED
  BY <1>1, <1>2, Stays DEF GoesOn

(* What the steps have in common keeps the common invariant.               *)
LEMMA FrameKeepsBase ==
    ASSUME Base, NEW a \in Actors, Frame(a), TypeOK', PointerFine',
           "admitted" \in runs' => "admitted" \in runs
    PROVE  Base'
<1>1. OthersStay(a) /\ RowsStep(a) /\ OldRows /\ OwnFine(a)
  BY DEF Frame
<1>2. \A p : Placed(p)' <=> Placed(p)
  BY <1>1 DEF Placed, OldRows
<1>3. ActorsFine'
  <2> SUFFICES ASSUME NEW b \in Actors PROVE ActorFine(actors[b])'
    BY DEF ActorsFine
  <2>1. CASE b = a
    BY <1>1, <2>1 DEF OwnFine
  <2>2. CASE b # a
    <3>1. actors'[b] = actors[b] /\ ActorFine(actors[b]) /\ actors[b] \in ActorType
      BY <1>1, <2>2 DEF OthersStay, Base, ActorsFine, TypeOK
    <3>2. actors[b].op \in Op \cup {0}
      BY <3>1 DEF ActorType
    <3>3. actors[b].op # 0 => ops'[actors[b].op].kind = ops[actors[b].op].kind
      BY <1>1, <3>2 DEF OldRows
    <3>4. actors[b].pc \in MovePoint \cup PurgePoint => actors[b].op # 0
      BY <3>1 DEF ActorFine, MovePoint, PurgePoint
    <3> QED
      BY <1>2, <3>1, <3>3, <3>4 DEF ActorFine, Move
  <2> QED
    BY <2>1, <2>2
<1>4. RowsFine'
  BY <1>1, <1>2 DEF Base, RowsFine, RowFine, OldRows
<1>5. LocksFine'
  <2>1. ASSUME NEW p \in Op PROVE LockFine(p)'
    <3>1. CASE ops'[p].held = a
      BY <1>1, <3>1 DEF RowsStep, LockFine, OpOf
    <3>2. CASE ops'[p].held # a /\ ops'[p].held # NoOne
      <4>1. ops'[p] = ops[p]
        BY <1>1, <3>2 DEF RowsStep
      <4>2. LockFine(p) /\ ops[p].held \in Actors
        BY <3>2, <4>1 DEF Base, LocksFine, TypeOK, RowType
      <4>3. actors'[ops[p].held] = actors[ops[p].held]
        BY <1>1, <3>2, <4>1, <4>2 DEF OthersStay
      <4> QED
        BY <4>1, <4>2, <4>3 DEF LockFine, Active, OpOf
    <3>3. CASE ops'[p].held = NoOne
      BY <3>3 DEF LockFine
    <3> QED
      BY <3>1, <3>2, <3>3
  <2>2. ASSUME NEW b \in Actors, At(b, "decide")' PROVE RowOf(b)'.held = b
    <3>1. CASE b = a
      BY <1>1, <2>2, <3>1 DEF OwnFine
    <3>2. CASE b # a
      <4>1. actors'[b] = actors[b] /\ At(b, "decide")
        BY <1>1, <2>2, <3>2 DEF OthersStay, At
      <4>2. RowOf(b).held = b /\ OpOf(b) \in Op
        BY <4>1, InHand DEF Base, LocksFine, At
      <4>3. ops'[OpOf(b)] = ops[OpOf(b)]
        BY <1>1, <3>2, <4>2, MediaAssumption DEF RowsStep, Open, RowOf
      <4> QED
        BY <4>1, <4>2, <4>3 DEF RowOf, OpOf
    <3> QED
      BY <3>1, <3>2
  <2> QED
    BY <2>1, <2>2 DEF LocksFine
<1>6. OwnersBusy'
  <2> SUFFICES ASSUME NEW b \in Actors, OpOf(b)' # 0, Mine(b)' PROVE Active(OpOf(b))'
    BY DEF OwnersBusy
  <2>1. CASE b = a
    BY <1>1, <2>1 DEF OwnFine
  <2>2. CASE b # a
    <3>1. actors'[b] = actors[b] /\ OpOf(b) \in Op
      BY <1>1, <2>2 DEF OthersStay, OpOf, Base, TypeOK, ActorType
    <3>2. ops'[OpOf(b)].owner = b
      BY <3>1 DEF Mine, RowOf, OpOf
    <3>3. ops[OpOf(b)].owner = b
      BY <1>1, <2>2, <3>1, <3>2 DEF RowsStep
    <3>4. Active(OpOf(b))
      BY <3>1, <3>3, OpsAreNumbers DEF Base, OwnersBusy, Mine, RowOf
    <3>5. ops'[OpOf(b)].kind # "none" /\ ops'[OpOf(b)].state \notin Terminal
      BY <1>1, <2>2, <3>1, <3>3, <3>4 DEF RowsStep, Active
    <3> QED
      BY <3>1, <3>5 DEF Active, OpOf
  <2> QED
    BY <2>1, <2>2
<1>7. ItemTakenOnce'
  BY <1>1 DEF OldRows, Base, ItemTakenOnce, HasActiveOperation
<1> QED
  BY <1>3, <1>4, <1>5, <1>6, <1>7 DEF Base

-----------------------------------------------------------------------------
(* The steps of an actor, each with what it does to the rows.              *)

\* What a step of an actor preserves of the invariant.
Step(a) ==
    /\ Frame(a)
    /\ TypeOK'
    /\ PointerFine'
    /\ "admitted" \in runs' => "admitted" \in runs
    /\ OpOf(a) # 0 /\ RowOf(a).owner # a => media' = media

(* A step that leaves the pointer where it is.                             *)
LEMMA SamePointer ==
    ASSUME Base, NEW a \in Actors, Frame(a), UNCHANGED media
    PROVE  PointerFine'
BY DEF Frame, OldRows, Base, PointerFine, Placed

(* A pointer that moves to the destination of a move.                      *)
LEMMA NewPointer ==
    ASSUME Base, NEW a \in Actors, Frame(a), NEW o \in Op, Move(o), media'.path = ops[o].dest
    PROVE  PointerFine'
<1>1. ops[o].dest = Trash(o) \/ Placed(ops[o].dest)
  BY DEF Base, RowsFine, RowFine, Move
<1>2. Placed(ops[o].dest)
  BY <1>1 DEF Placed, Move
<1>3. \A p : Placed(p) => Placed(p)'
  BY DEF Frame, OldRows, Placed
<1>4. media'.path # Nowhere /\ Placed(media.path)'
  BY <1>2, <1>3, PlacedIsPath DEF Placed
<1> QED
  BY <1>4 DEF PointerFine

(* What is left of the requests stays typed.                               *)
LEMMA RequestSpent ==
    ASSUME TypeOK, env.requests > 0, env' = [env EXCEPT !.requests = @ - 1]
    PROVE  env' \in EnvType
<1>1. env.requests \in 0..MaxRequests /\ MaxRequests \in Nat
  BY MediaAssumption DEF TypeOK, EnvType
<1>2. env.requests - 1 \in 0..MaxRequests
  BY <1>1
<1> QED
  BY <1>2 DEF TypeOK, EnvType

(* What is left of the troubles stays typed.                                *)
LEMMA TroubleSpent ==
    ASSUME TypeOK, NEW kind, Meets(kind)
    PROVE  env' \in EnvType /\ env'.met = env.met \cup {kind}
<1>1. env.trouble \in 0..MaxTrouble /\ MaxTrouble \in Nat /\ env.trouble > 0
  BY MediaAssumption DEF TypeOK, EnvType, Meets, May
<1>2. env.trouble - 1 \in 0..MaxTrouble
  BY <1>1
<1>3. env.met \cup {kind} \in SUBSET Troubles
  BY DEF TypeOK, EnvType, Meets, May
<1> QED
  BY <1>2, <1>3 DEF TypeOK, EnvType, Meets

(* AskTrash, AskRestore and AskRun take note of what they see.             *)
LEMMA AskStep ==
    ASSUME Base, NEW a \in Actors, AskTrash(a) \/ AskRestore(a) \/ AskRun(a)
    PROVE  Step(a)
<1>1. TypeOK
  BY DEF Base
<1>2. PICK pc \in {"choose", "plan", "admit"}, kind \in {"trash", "restore", "none"} :
          /\ Ask(a, pc, SeenAs(kind, Nowhere))
          /\ pc = "choose" => kind = "restore" /\ Placed(media.path)
          /\ pc = "plan" => kind = "trash" /\ Placed(media.path)
  BY DEF AskTrash, AskRestore, AskRun, Base, PointerFine
<1> DEFINE seen == SeenAs(kind, Nowhere)
           me == [Idle EXCEPT !.pc = pc, !.seen = seen]
<1>3. seen \in SeenType /\ seen.kind = kind /\ seen.path = media.path
  BY <1>1 DEF SeenAs, SeenType, TypeOK, Kind
<1>4. Ask(a, pc, seen)
  BY <1>2
<1> HIDE DEF seen
<1>5. /\ me \in ActorType /\ me.pc = pc /\ me.op = 0 /\ me.from = "planned"
      /\ me.seen = seen
  BY <1>3, IdleFacts DEF ActorType, ProgramPoint
<1>6. OpOf(a) = 0
  BY <1>4 DEF Ask, At, OpOf, Base, ActorsFine, ActorFine
<1>7. Become(a, me) /\ UNCHANGED <<media, ops, files, manifest, stager, runs, far>>
  BY <1>4 DEF Ask
<1> HIDE DEF me
<1>8. Frame(a)
  BY <1>2, <1>3, <1>5, <1>6, <1>7, StaysAway DEF Terminal
<1>9. env' \in EnvType
  BY <1>1, <1>4, RequestSpent DEF Ask
<1>10. TypeOK'
  BY <1>1, <1>7, <1>8, <1>9 DEF TypeOK, Frame
<1> QED
  BY <1>6, <1>7, <1>8, <1>10, SamePointer DEF Step

(* restore_media finds the trash to undo, or leaves.                       *)
LEMMA ChooseFacts ==
    ASSUME Base, NEW a \in Actors, ChooseTrash(a)
    PROVE  /\ OpOf(a) = 0 /\ UNCHANGED <<media, ops, files, manifest, stager, runs, far, env>>
           /\ \/ Leave(a)
              \/ \E o \in Op : \E me \in ActorType :
                     /\ ops[o].kind = "trash" /\ Become(a, me)
                     /\ me.pc = "plan" /\ me.op = 0 /\ me.from \notin Terminal
                     /\ me.seen.kind = "restore" /\ Placed(me.seen.path)
                     /\ me.seen.dest = ops[o].origin /\ Placed(me.seen.dest)
<1>1. TypeOK /\ At(a, "choose") /\ UNCHANGED <<media, ops, files, manifest, stager, runs, far, env>>
  BY DEF Base, ChooseTrash
<1>2. /\ actors[a] \in ActorType /\ actors[a].op = 0 /\ actors[a].from \notin Terminal
      /\ actors[a].seen.kind = "restore" /\ Placed(actors[a].seen.path)
  BY <1>1 DEF TypeOK, At, Base, ActorsFine, ActorFine
<1>3. ASSUME ~Leave(a)
      PROVE  \E o \in Op : \E me \in ActorType :
                 /\ ops[o].kind = "trash" /\ Become(a, me)
                 /\ me.pc = "plan" /\ me.op = 0 /\ me.from \notin Terminal
                 /\ me.seen.kind = "restore" /\ Placed(me.seen.path)
                 /\ me.seen.dest = ops[o].origin /\ Placed(me.seen.dest)
  <2>1. PICK o \in Op :
            /\ ops[o].kind = "trash"
            /\ Become(a, [actors[a] EXCEPT !.pc = "plan", !.seen.dest = ops[o].origin])
    BY <1>3 DEF ChooseTrash, LatestTrash, Trashed
  <2>2. Placed(ops[o].origin) /\ ops[o].origin \in Path
    BY <2>1, PlacedIsPath DEF Base, RowsFine, RowFine
  <2> DEFINE me == [actors[a] EXCEPT !.pc = "plan", !.seen.dest = ops[o].origin]
             seen == [actors[a].seen EXCEPT !.dest = ops[o].origin]
  <2>3. /\ seen \in SeenType /\ seen.kind = actors[a].seen.kind
        /\ seen.path = actors[a].seen.path /\ seen.dest = ops[o].origin
    BY <1>2, <2>2 DEF ActorType, SeenType
  <2>4. me = [actors[a] EXCEPT !.pc = "plan", !.seen = seen]
    BY <1>2 DEF ActorType
  <2> HIDE DEF seen
  <2>5. /\ me \in ActorType /\ me.pc = "plan" /\ me.op = actors[a].op
        /\ me.from = actors[a].from /\ me.seen = seen
    BY <1>2, <2>3, <2>4, Zenon DEF ActorType, ProgramPoint
  <2>6. Become(a, me)
    BY <2>1
  <2> HIDE DEF me
  <2> QED
    BY <1>2, <2>1, <2>2, <2>3, <2>5, <2>6
<1> QED
  BY <1>1, <1>2, <1>3 DEF OpOf

(* Putting something at a path keeps the files typed.                      *)
LEMMA FilesTyped ==
    ASSUME TypeOK, NEW p, NEW content \in Content
    PROVE  FilePut(p, content) \in [Path -> Content]
BY DEF FilePut, TypeOK

(* A step that moves neither the pointer nor a run.                        *)
LEMMA FrameStep ==
    ASSUME Base, NEW a \in Actors, Frame(a), UNCHANGED <<media, runs, far>>,
           files' \in [Path -> Content], manifest' \in [Op -> [Part -> PartStatus]],
           stager' \in [Op -> Actors \cup {NoOne}], env' \in EnvType
    PROVE  Step(a)
<1>1. PointerFine'
  BY SamePointer
<1>2. TypeOK'
  BY DEF Frame, TypeOK, Base
<1> QED
  BY <1>1, <1>2 DEF Step

(* So it is a step of an actor that has no operation yet.                  *)
LEMMA ChooseStep == ASSUME Base, NEW a \in Actors, ChooseTrash(a) PROVE Step(a)
<1>1. OpOf(a) = 0 /\ UNCHANGED <<media, ops, files, manifest, stager, runs, far, env>>
  BY ChooseFacts
<1>2. CASE Leave(a)
  <2>1. Frame(a)
    BY <1>1, <1>2, IdleFacts, StaysAway DEF Leave, Terminal
  <2> QED
    BY <1>1, <2>1, FrameStep DEF Base, TypeOK
<1>3. CASE ~Leave(a)
  <2>1. PICK o \in Op : \E me \in ActorType :
            /\ ops[o].kind = "trash" /\ Become(a, me)
            /\ me.pc = "plan" /\ me.op = 0 /\ me.from \notin Terminal
            /\ me.seen.kind = "restore" /\ Placed(me.seen.path)
            /\ me.seen.dest = ops[o].origin /\ Placed(me.seen.dest)
    BY <1>3, ChooseFacts
  <2>2. Frame(a)
    BY <1>1, <2>1, StaysAway
  <2> QED
    BY <1>1, <2>2, FrameStep DEF Base, TypeOK
<1> QED
  BY <1>2, <1>3

(* An actor at a program point of a move has a move in hand.               *)
LEMMA MoveInHand ==
    ASSUME Base, NEW a \in Actors, actors[a].pc \in MovePoint
    PROVE  /\ OpOf(a) \in Op /\ Move(OpOf(a)) /\ ops[OpOf(a)].kind # "none"
           /\ ops[OpOf(a)] \in RowType /\ actors[a] \in ActorType
           /\ actors[a].from \notin Terminal
<1>1. ~(actors[a].pc \in {"idle", "choose", "plan", "admit"})
  BY DEF MovePoint
<1>2. ActorFine(actors[a])
  BY DEF Base, ActorsFine
<1> QED
  BY <1>1, <1>2, InHand DEF ActorFine, OpOf

(* From one program point of a move to another.                            *)
LEMMA MoveGoes ==
    ASSUME Base, NEW a \in Actors, actors[a].pc \in MovePoint,
           NEW pc \in (MovePoint \ {"decide"}) \cup {"finish"}, Goto(a, pc), UNCHANGED ops
    PROVE  Frame(a)
<1> DEFINE me == [actors[a] EXCEPT !.pc = pc]
<1>1. /\ OpOf(a) \in Op /\ Move(OpOf(a)) /\ ops[OpOf(a)].kind # "none"
      /\ actors[a] \in ActorType /\ actors[a].from \notin Terminal
  BY MoveInHand
<1>2. pc \in ProgramPoint
  BY DEF MovePoint, ProgramPoint
<1>3. /\ me \in ActorType /\ me.pc = pc /\ me.op = OpOf(a) /\ me.from = actors[a].from
  BY <1>1, <1>2 DEF ActorType, OpOf
<1>4. Become(a, me)
  BY DEF Goto
<1> HIDE DEF me
<1>5. GoesOn(OpOf(a), me) /\ me.pc \notin OpenPoint
  BY <1>1, <1>3 DEF GoesOn, MovePoint, PurgePoint, OpenPoint
<1> QED
  BY <1>1, <1>3, <1>4, <1>5, GoesFrame

(* _publish_same_device.                                                   *)
LEMMA PublishStep == ASSUME Base, NEW a \in Actors, Publish(a) PROVE Step(a)
<1>1. TypeOK /\ At(a, "publish") /\ Here
  BY DEF Base, Publish
<1>2. actors[a].pc \in MovePoint
  BY <1>1 DEF At, MovePoint
<1>3. /\ \E pc \in {"collide", "give_up", "copy", "point"} : Goto(a, pc)
      /\ files' = files \/ files' = FilePut(RowOf(a).dest, files[RowOf(a).origin])
  BY DEF Publish
<1>4. Frame(a)
  BY <1>1, <1>2, <1>3, MoveGoes DEF MovePoint, Here
<1>5. files' \in [Path -> Content]
  <2>1. RowOf(a).origin \in Path
    BY <1>2, MoveInHand, PlacedIsPath DEF Base, RowsFine, RowFine, RowOf
  <2> QED
    BY <1>1, <1>3, <2>1, FilesTyped DEF TypeOK
<1> QED
  BY <1>1, <1>4, <1>5, FrameStep DEF Here, TypeOK

(* What a cross-device copy reads.                                         *)
LEMMA MovePaths ==
    ASSUME Base, NEW a \in Actors, actors[a].pc \in MovePoint
    PROVE  /\ Placed(RowOf(a).origin) /\ RowOf(a).origin \in Path
           /\ Placed(RowOf(a).dest) /\ RowOf(a).dest \in Path
           /\ Temp(OpOf(a)) \in Path
           /\ Temp(OpOf(a)) # RowOf(a).dest /\ Temp(OpOf(a)) # RowOf(a).origin
<1>1. OpOf(a) \in Op /\ Move(OpOf(a)) /\ RowFine(OpOf(a)) /\ ops[OpOf(a)].kind # "none"
  BY MoveInHand DEF Base, RowsFine
<1>2. Placed(RowOf(a).origin) /\ Placed(RowOf(a).dest)
  BY <1>1 DEF RowFine, Placed, Move, RowOf
<1> QED
  BY <1>1, <1>2, PlacedIsPath, PathsDiffer

(* _publish_cross_device: the temporary file.                              *)
LEMMA CopyBeginsStep == ASSUME Base, NEW a \in Actors, CopyBegins(a) PROVE Step(a)
<1> DEFINE me == [actors[a] EXCEPT !.pc = "stage", !.view.origin = files[RowOf(a).origin]]
<1>1. TypeOK /\ At(a, "copy") /\ UNCHANGED <<media, ops, manifest, runs, far, env>>
  BY DEF Base, CopyBegins
<1>2. actors[a].pc \in MovePoint
  BY <1>1 DEF At, MovePoint
<1>3. \/ Goto(a, "give_up") /\ UNCHANGED <<files, stager>>
      \/ Goto(a, "collide") /\ files' = FilePut(Temp(OpOf(a)), "none") /\ UNCHANGED stager
      \/ /\ Become(a, me) /\ files' = FilePut(Temp(OpOf(a)), "partial")
         /\ stager' = [stager EXCEPT ![OpOf(a)] = a]
  BY DEF CopyBegins
<1>4. /\ OpOf(a) \in Op /\ Move(OpOf(a)) /\ ops[OpOf(a)].kind # "none"
      /\ actors[a] \in ActorType /\ actors[a].from \notin Terminal
  BY <1>2, MoveInHand
<1>5. me \in ActorType /\ me.pc = "stage" /\ me.op = OpOf(a) /\ me.from = actors[a].from
  <2>1. files[RowOf(a).origin] \in Content
    BY <1>1, <1>2, MovePaths DEF TypeOK
  <2> QED
    BY <1>4, <2>1 DEF ActorType, ViewType, ProgramPoint, OpOf
<1>6. GoesOn(OpOf(a), me) /\ me.pc \notin OpenPoint
  BY <1>4, <1>5 DEF GoesOn, MovePoint, PurgePoint, OpenPoint
<1> HIDE DEF me
<1>7. Frame(a)
  <2>1. ASSUME NEW pc \in {"give_up", "collide"}, Goto(a, pc) PROVE Frame(a)
    BY <1>1, <1>2, <2>1, MoveGoes DEF MovePoint
  <2>2. CASE Become(a, me)
    BY <1>1, <1>4, <1>5, <1>6, <2>2, GoesFrame
  <2> QED
    BY <1>3, <2>1, <2>2
<1>8. files' \in [Path -> Content] /\ stager' \in [Op -> Actors \cup {NoOne}]
  <2>1. "none" \in Content /\ "partial" \in Content
    BY DEF Content
  <2>2. files' \in [Path -> Content]
    BY <1>1, <1>3, <2>1, FilesTyped DEF TypeOK
  <2>3. stager' \in [Op -> Actors \cup {NoOne}]
    BY <1>1, <1>3 DEF TypeOK
  <2> QED
    BY <2>2, <2>3
<1> QED
  BY <1>1, <1>7, <1>8, FrameStep DEF TypeOK

(* _publish_cross_device: the end of the copy.                             *)
LEMMA CopyEndsStep == ASSUME Base, NEW a \in Actors, CopyEnds(a) PROVE Step(a)
<1>1. TypeOK /\ At(a, "stage") /\ Here
  BY DEF Base, CopyEnds
<1>2. actors[a].pc \in MovePoint
  BY <1>1 DEF At, MovePoint
<1>3. /\ \E pc \in {"give_up", "try_later", "link"} : Goto(a, pc)
      /\ \E names \in SUBSET Path :
             files' = [p \in Path |-> IF p \in names THEN actors[a].view.origin ELSE files[p]]
  BY <1>2, MovePaths DEF CopyEnds
<1>4. Frame(a)
  BY <1>1, <1>2, <1>3, MoveGoes DEF MovePoint, Here
<1>5. actors[a].view.origin \in Content
  BY <1>1 DEF TypeOK, ActorType, ViewType
<1>6. files' \in [Path -> Content]
  BY <1>1, <1>3, <1>5 DEF TypeOK
<1> QED
  BY <1>1, <1>4, <1>6, FrameStep DEF Here, TypeOK

(* _publish_cross_device: the link, and the removal of the temp's name.    *)
LEMMA LinkTempStep == ASSUME Base, NEW a \in Actors, LinkTemp(a) \/ UnlinkTemp(a) PROVE Step(a)
<1>1. TypeOK /\ actors[a].pc \in {"link", "unstage"} /\ Here
  BY DEF Base, LinkTemp, UnlinkTemp, At
<1>2. actors[a].pc \in MovePoint
  BY <1>1 DEF MovePoint
<1>3. /\ \E pc \in {"give_up", "collide", "unstage", "apply"} : Goto(a, pc)
      /\ \E p, content : /\ content \in {"none", files[Temp(OpOf(a))]}
                         /\ files' = files \/ files' = FilePut(p, content)
  BY DEF LinkTemp, UnlinkTemp
<1>4. Frame(a)
  BY <1>1, <1>2, <1>3, MoveGoes DEF MovePoint, Here
<1>5. "none" \in Content /\ files[Temp(OpOf(a))] \in Content
  BY <1>1, <1>2, MovePaths DEF TypeOK, Content
<1>6. files' \in [Path -> Content]
  BY <1>1, <1>3, <1>5, FilesTyped DEF TypeOK
<1> QED
  BY <1>1, <1>4, <1>6, FrameStep DEF Here, TypeOK

(* The unlinks of the origin and of a leftover temporary file.             *)
LEMMA UnlinkStep == ASSUME Base, NEW a \in Actors, UnlinkOrigin(a) \/ SweepTemp(a) PROVE Step(a)
<1>1. TypeOK /\ actors[a].pc \in {"clean", "sweep"} /\ Here
  BY DEF Base, UnlinkOrigin, SweepTemp, At
<1>2. actors[a].pc \in MovePoint
  BY <1>1 DEF MovePoint
<1>3. /\ \E pc \in {"sweep", "finish"} : Goto(a, pc)
      /\ \E p : files' = FilePut(p, "none")
  BY DEF UnlinkOrigin, SweepTemp
<1>4. Frame(a)
  BY <1>1, <1>2, <1>3, MoveGoes DEF MovePoint, Here
<1>5. "none" \in Content
  BY DEF Content
<1>6. files' \in [Path -> Content]
  BY <1>1, <1>3, <1>5, FilesTyped
<1> QED
  BY <1>1, <1>4, <1>6, FrameStep DEF Here, TypeOK

(* A commit of a move: the row it writes, and where the actor goes on.     *)
LEMMA MoveCommit ==
    ASSUME Base, NEW a \in Actors, actors[a].pc \in MovePoint \cup {"finish"},
           NEW from, from \notin Terminal, NEW state \in OperationState, NEW then \in ActorType,
           \/ then = Idle
           \/ /\ state \notin Terminal /\ then.op = OpOf(a) /\ then.from \notin Terminal
              /\ then.pc \in {"point", "check"} /\ actors[a].pc \in MovePoint,
           \/ Transition(a, from, Moved(RowOf(a), state), then)
           \/ state = "awaiting_retry" /\ Transition(a, from, Parked(RowOf(a), FALSE), then)
    PROVE  Frame(a)
<1>1. ~(actors[a].pc \in {"idle", "choose", "plan", "admit"})
  BY DEF MovePoint
<1>2. /\ OpOf(a) \in Op /\ ops[OpOf(a)].kind # "none" /\ ops[OpOf(a)] \in RowType
      /\ RowOf(a) = ops[OpOf(a)]
  BY <1>1, InHand DEF RowOf
<1>3. actors[a].pc \in MovePoint => Move(OpOf(a))
  BY MoveInHand
<1>4. then = Idle \/ (GoesOn(OpOf(a), then) /\ state \notin Terminal)
  BY <1>3 DEF GoesOn, MovePoint, PurgePoint
<1>5. CASE Transition(a, from, Moved(RowOf(a), state), then)
  <2> DEFINE row == Moved(RowOf(a), state)
  <2>1. /\ row \in RowType /\ row.kind = ops[OpOf(a)].kind
        /\ row.origin = ops[OpOf(a)].origin /\ row.dest = ops[OpOf(a)].dest
        /\ row.owner = ops[OpOf(a)].owner /\ row.held = NoOne /\ row.state = state
    BY <1>2, MovedFacts
  <2>2. Transition(a, from, row, then)
    BY <1>5
  <2> HIDE DEF row
  <2> QED
    BY <1>2, <1>4, <2>1, <2>2, TransitionFrame
<1>6. CASE state = "awaiting_retry" /\ Transition(a, from, Parked(RowOf(a), FALSE), then)
  <2> DEFINE row == Parked(RowOf(a), FALSE)
  <2>1. /\ row \in RowType /\ row.kind = ops[OpOf(a)].kind
        /\ row.origin = ops[OpOf(a)].origin /\ row.dest = ops[OpOf(a)].dest
        /\ row.owner = ops[OpOf(a)].owner /\ row.held = NoOne /\ row.state = state
    <3>1. RowOf(a) \in RowType /\ FALSE \in BOOLEAN
      BY <1>2
    <3>2. /\ row \in RowType /\ row.kind = RowOf(a).kind
          /\ row.origin = RowOf(a).origin /\ row.dest = RowOf(a).dest
          /\ row.owner = RowOf(a).owner /\ row.held = NoOne
          /\ row.state = "awaiting_retry"
      BY <3>1, ParkedFacts, Zenon
    <3> HIDE DEF row
    <3> QED
      BY <1>2, <1>6, <3>2
  <2>2. Transition(a, from, row, then)
    BY <1>6
  <2> HIDE DEF row
  <2> QED
    BY <1>2, <1>4, <2>1, <2>2, TransitionFrame
<1> QED
  BY <1>5, <1>6

(* fs_applied, on another device.                                          *)
LEMMA ApplyStep == ASSUME Base, NEW a \in Actors, Apply(a) PROVE Step(a)
<1> DEFINE me == [actors[a] EXCEPT !.pc = "point", !.from = "fs_applied"]
<1>1. TypeOK /\ At(a, "apply") /\ UNCHANGED media /\ Quietly
  BY DEF Base, Apply
<1>2. actors[a].pc \in MovePoint
  BY <1>1 DEF At, MovePoint
<1>3. "planned" \notin Terminal /\ "fs_applied" \in OperationState /\ "fs_applied" \notin Terminal
  BY DEF OperationState, Terminal
<1>4. me \in ActorType /\ me.op = OpOf(a) /\ me.pc = "point" /\ me.from = "fs_applied"
  <2>1. "point" \in ProgramPoint /\ actors[a] \in ActorType
    BY <1>2, MoveInHand DEF ProgramPoint
  <2> QED
    BY <1>3, <2>1 DEF ActorType, OpOf
<1>5. Transition(a, "planned", Moved(RowOf(a), "fs_applied"), me)
  BY DEF Apply
<1> HIDE DEF me
<1>6. Frame(a)
  BY <1>2, <1>3, <1>4, <1>5, MoveCommit
<1> QED
  BY <1>1, <1>6, FrameStep DEF Quietly, TypeOK

(* The compare-and-set of the last two steps of a move changes the         *)
(* One transaction for the pointer, the flag and db_applied.               *)
LEMMA PointStep == ASSUME Base, NEW a \in Actors, PointAndApply(a) PROVE Step(a)
<1> DEFINE me == [actors[a] EXCEPT !.pc = "check", !.from = "db_applied"]
<1>1. TypeOK /\ At(a, "point") /\ Quietly
  BY DEF Base, PointAndApply
<1>2. actors[a].pc \in MovePoint
  BY <1>1 DEF At, MovePoint
<1>3. /\ OpOf(a) \in Op /\ Move(OpOf(a)) /\ ops[OpOf(a)] \in RowType
      /\ actors[a].from \notin Terminal /\ RowOf(a) = ops[OpOf(a)]
  BY <1>2, MoveInHand DEF RowOf
<1>4. "db_applied" \in OperationState \ Terminal /\ "failed" \in OperationState
  BY DEF OperationState, Terminal
<1>5. me \in ActorType /\ me.op = OpOf(a) /\ me.pc = "check" /\ me.from = "db_applied"
  <2>1. "check" \in ProgramPoint /\ actors[a] \in ActorType
    BY <1>2, MoveInHand DEF ProgramPoint
  <2> QED
    BY <1>4, <2>1 DEF ActorType, OpOf
<1>6. /\ \/ Transition(a, actors[a].from, Moved(RowOf(a), "db_applied"), me)
         \/ Transition(a, actors[a].from, Moved(RowOf(a), "failed"), Idle)
      /\ \/ UNCHANGED media
         \/ media' = MoveTo(RowOf(a)) /\ Owns(a, OpOf(a), actors[a].from)
  BY DEF PointAndApply
<1> HIDE DEF me
<1>7. Frame(a)
  BY <1>2, <1>3, <1>4, <1>5, <1>6, IdleFacts, MoveCommit
<1>8. PointerFine' /\ media' \in [path : Path \cup {Nowhere}, trashed : BOOLEAN, purged : BOOLEAN]
  <2>1. CASE UNCHANGED media
    BY <1>1, <1>7, <2>1, SamePointer DEF TypeOK
  <2>2. CASE media' = MoveTo(RowOf(a))
    <3>1. RowOf(a).dest \in Path
      BY <1>2, MovePaths
    <3>2. Metadata(RowOf(a).kind, media.trashed) \in BOOLEAN
      BY <1>1 DEF Metadata, TypeOK
    <3>3. media'.path = ops[OpOf(a)].dest
      BY <1>1, <1>3, <2>2 DEF MoveTo, TypeOK
    <3>4. media' \in [path : Path \cup {Nowhere}, trashed : BOOLEAN, purged : BOOLEAN]
      BY <1>1, <2>2, <3>1, <3>2 DEF MoveTo, TypeOK
    <3> QED
      BY <1>3, <1>7, <3>3, <3>4, NewPointer
  <2> QED
    BY <1>6, <2>1, <2>2
<1>9. RowOf(a).owner # a => UNCHANGED media
  BY <1>6 DEF Owns, RowOf
<1>10. TypeOK'
  BY <1>1, <1>7, <1>8 DEF TypeOK, Frame, Quietly
<1> QED
  BY <1>1, <1>7, <1>8, <1>9, <1>10 DEF Step, Quietly

(* The look at the lease.                                                  *)
LEMMA CheckLeaseStep == ASSUME Base, NEW a \in Actors, CheckLease(a) PROVE Step(a)
<1>1. TypeOK /\ At(a, "check") /\ UNCHANGED media /\ Quietly
  BY DEF Base, CheckLease
<1>2. actors[a].pc \in MovePoint
  BY <1>1 DEF At, MovePoint
<1>3. OpOf(a) \in Op /\ ops[OpOf(a)].kind # "none"
  BY <1>2, MoveInHand
<1>4. Frame(a)
  <2>1. CASE Goto(a, "clean") /\ UNCHANGED ops
    BY <1>2, <2>1, MoveGoes DEF MovePoint
  <2>2. CASE Leave(a) /\ Rollback(a)
    BY <1>3, <2>2, GivesUp
  <2> QED
    BY <2>1, <2>2 DEF CheckLease
<1> QED
  BY <1>1, <1>4, FrameStep DEF Quietly, TypeOK

(* _complete.                                                              *)
LEMMA FinishStep == ASSUME Base, NEW a \in Actors, Finish(a) PROVE Step(a)
<1>1. TypeOK /\ At(a, "finish") /\ Quietly
  BY DEF Base, Finish
<1>2. ~(actors[a].pc \in {"idle", "choose", "plan", "admit"}) /\ actors[a].pc \in MovePoint \cup {"finish"}
  BY <1>1 DEF At
<1>3. actors[a].from \notin Terminal
  BY <1>2, InHand
<1>4. "completed" \in OperationState
  BY DEF OperationState, Terminal
<1>5. Transition(a, actors[a].from, Moved(RowOf(a), "completed"), Idle)
  BY DEF Finish
<1>6. Frame(a)
  BY <1>2, <1>3, <1>4, <1>5, IdleFacts, MoveCommit
<1>7. /\ media'.path = media.path /\ media'.purged = media.purged
      /\ media' \in [path : Path \cup {Nowhere}, trashed : BOOLEAN, purged : BOOLEAN]
  <2>1. Metadata(RowOf(a).kind, media.trashed) \in BOOLEAN
    BY <1>1 DEF Metadata, TypeOK
  <2> QED
    BY <1>1, <2>1 DEF Finish, FinalMetadata, TypeOK
<1>8. PointerFine'
  BY <1>6, <1>7 DEF Frame, OldRows, Base, PointerFine, Placed
<1>9. RowOf(a).owner # a => UNCHANGED media
  BY DEF Finish, Owns, RowOf
<1>10. TypeOK'
  BY <1>1, <1>6, <1>7 DEF TypeOK, Frame, Quietly
<1> QED
  BY <1>1, <1>6, <1>8, <1>9, <1>10 DEF Step, Quietly

(* A collision, an error worth a retry or not.                             *)
LEMMA ErrorStep == ASSUME Base, NEW a \in Actors, Collide(a) \/ RecordError(a) PROVE Step(a)
<1>1. TypeOK /\ UNCHANGED media /\ Quietly
  BY DEF Base, Collide, RecordError
<1>2. actors[a].pc \in MovePoint
  BY DEF Collide, RecordError, At, MovePoint
<1>3. actors[a].from \notin Terminal
  BY <1>2, MoveInHand
<1>4. "planned" \notin Terminal /\ "failed" \in OperationState /\ "awaiting_retry" \in OperationState
  BY DEF OperationState, Terminal
<1>5. \E from \in {"planned", actors[a].from} :
          \/ Transition(a, from, Moved(RowOf(a), "failed"), Idle)
          \/ Transition(a, from, Parked(RowOf(a), FALSE), Idle)
  BY DEF Collide, RecordError
<1>6. Frame(a)
  BY <1>2, <1>3, <1>4, <1>5, IdleFacts, MoveCommit
<1> QED
  BY <1>1, <1>6, FrameStep DEF Quietly, TypeOK

(* An actor at a program point of a purge has a purge in hand.             *)
LEMMA PurgeInHand ==
    ASSUME Base, NEW a \in Actors, actors[a].pc \in PurgePoint
    PROVE  /\ OpOf(a) \in Op /\ ops[OpOf(a)].kind = "purge" /\ ops[OpOf(a)].kind # "none"
           /\ ops[OpOf(a)] \in RowType /\ actors[a] \in ActorType
           /\ actors[a].from \notin Terminal
<1>1. ~(actors[a].pc \in {"idle", "choose", "plan", "admit"})
  BY DEF PurgePoint
<1>2. ActorFine(actors[a])
  BY DEF Base, ActorsFine
<1> QED
  BY <1>1, <1>2, InHand DEF ActorFine, OpOf

(* An actor without a transaction holds no row lock.                       *)
LEMMA OpenHoldsNothing ==
    ASSUME Base, NEW a \in Actors, actors[a].pc \in OpenPoint, NEW o \in Op
    PROVE  ops[o].held # a
BY MediaAssumption DEF Base, LocksFine, LockFine

(* build_manifest.                                                         *)
LEMMA ManifestStep == ASSUME Base, NEW a \in Actors, BuildManifest(a) PROVE Step(a)
<1> DEFINE o == OpOf(a)
           built == IF manifest[o] = NoManifest THEN [p \in Part |-> "pending"] ELSE manifest[o]
           todo == {p \in Part : built[p] \in {"pending", "failed"}}
           me == [actors[a] EXCEPT !.pc = "children", !.todo = todo]
<1>1. TypeOK /\ At(a, "manifest") /\ Open(a, o) /\ UNCHANGED <<media, files, stager, runs, far, env>>
  BY DEF Base, BuildManifest
<1>2. actors[a].pc \in PurgePoint
  BY <1>1 DEF At, PurgePoint
<1>3. /\ o \in Op /\ ops[o].kind = "purge" /\ ops[o] \in RowType
      /\ actors[a] \in ActorType /\ actors[a].from \notin Terminal
  BY <1>2, PurgeInHand
<1>4. Rollback(a) /\ Become(a, me) /\ manifest' = [manifest EXCEPT ![o] = built]
  BY DEF BuildManifest
<1>5. built \in [Part -> PartStatus]
  BY <1>1, <1>3 DEF TypeOK, PartStatus
<1>6. manifest' \in [Op -> [Part -> PartStatus]]
  BY <1>1, <1>4, <1>5 DEF TypeOK
<1>7. todo \in SUBSET Part
  OBVIOUS
<1> HIDE DEF built, todo
<1>8. me \in ActorType /\ me.op = o /\ me.pc = "children" /\ me.from = actors[a].from
  BY <1>3, <1>7 DEF ActorType, ProgramPoint, OpOf
<1> HIDE DEF me
<1>9. PICK row \in RowType :
          /\ SetRow(o, row)
          /\ row = [ops[o] EXCEPT !.held = IF @ = a THEN NoOne ELSE @]
          /\ row.kind = ops[o].kind /\ row.origin = ops[o].origin
          /\ row.dest = ops[o].dest /\ row.owner = ops[o].owner
          /\ row.state = ops[o].state /\ row.live = ops[o].live
          /\ row.lost = ops[o].lost
          /\ row.held = IF ops[o].held = a THEN NoOne ELSE ops[o].held
          /\ ops[o].held # a => row = ops[o]
  BY <1>1, <1>3, <1>4, RollbackFacts
<1>10. row.held # a /\ (row = ops[o] \/ (Open(a, o) /\ row.held \in {NoOne, a}))
  BY <1>1, <1>9, MediaAssumption
<1>11. Frame(a)
  BY <1>3, <1>4, <1>8, <1>9, <1>10, Stays DEF MovePoint
<1> QED
  BY <1>1, <1>6, <1>11, FrameStep DEF TypeOK

(* One child: the lease, its unlink, and then its row.                     *)
LEMMA ChildStep ==
    ASSUME Base, NEW a \in Actors, AttemptChild(a) \/ EraseChild(a) \/ RecordChild(a)
    PROVE  Step(a)
<1>1. /\ TypeOK /\ actors[a].pc \in {"children", "erase", "record"}
      /\ UNCHANGED <<media, ops, stager, runs, far>>
  BY DEF Base, AttemptChild, EraseChild, RecordChild, At
<1>2. actors[a].pc \in PurgePoint /\ actors[a].pc \in OpenPoint
  BY <1>1 DEF PurgePoint, OpenPoint
<1>3. /\ OpOf(a) \in Op /\ ops[OpOf(a)].kind = "purge" /\ ops[OpOf(a)].held # a
      /\ actors[a] \in ActorType /\ actors[a].from \notin Terminal
  BY <1>2, PurgeInHand, OpenHoldsNothing
<1>4. ASSUME NEW me \in ActorType, Become(a, me), me.op = OpOf(a), me.from = actors[a].from,
             me.pc \in {"children", "erase", "record", "converge"}
      PROVE  Frame(a)
  BY <1>1, <1>3, <1>4, GoesFrame DEF GoesOn, MovePoint
<1>5. CASE RecordChild(a)
  <2>1. UNCHANGED <<files, env>>
    BY <1>5 DEF RecordChild
  <2>2. Frame(a)
    <3> DEFINE me == [actors[a] EXCEPT !.pc = "children", !.part = Idle.part,
                                       !.outcome = Idle.outcome]
    <3>1. Idle.part \in Part /\ Idle.outcome \in PartStatus
      BY DEF Idle, Part, PartStatus
    <3>2. me \in ActorType /\ me.op = OpOf(a) /\ me.pc = "children" /\ me.from = actors[a].from
      BY <1>3, <3>1 DEF ActorType, ProgramPoint, OpOf
    <3>3. Become(a, me)
      BY <1>5 DEF RecordChild
    <3> HIDE DEF me
    <3> QED
      BY <1>4, <3>2, <3>3
  <2>3. manifest' \in [Op -> [Part -> PartStatus]]
    <3>1. actors[a].outcome \in PartStatus
      BY <1>3 DEF ActorType
    <3> QED
      BY <1>1, <1>5, <3>1 DEF RecordChild, TypeOK
  <2> QED
    BY <1>1, <2>1, <2>2, <2>3, FrameStep DEF TypeOK
<1>6. CASE AttemptChild(a)
  <2>1. UNCHANGED <<files, manifest, env>>
    BY <1>6 DEF AttemptChild
  <2>2. CASE Goto(a, "converge")
    <3> DEFINE me == [actors[a] EXCEPT !.pc = "converge"]
    <3>1. me \in ActorType /\ me.op = OpOf(a) /\ me.pc = "converge" /\ me.from = actors[a].from
      BY <1>3 DEF ActorType, ProgramPoint, OpOf
    <3>2. Become(a, me)
      BY <2>2 DEF Goto
    <3> HIDE DEF me
    <3>3. Frame(a)
      BY <1>4, <3>1, <3>2
    <3> QED
      BY <1>1, <2>1, <3>3, FrameStep DEF TypeOK
  <2>3. CASE ~Goto(a, "converge")
    <3>1. PICK p \in actors[a].todo :
              Become(a, [actors[a] EXCEPT !.pc = "erase", !.part = p, !.todo = @ \ {p}])
      BY <1>6, <2>3 DEF AttemptChild
    <3> DEFINE me == [actors[a] EXCEPT !.pc = "erase", !.part = p, !.todo = @ \ {p}]
    <3>2. p \in Part /\ actors[a].todo \ {p} \in SUBSET Part
      BY <1>3, <3>1 DEF ActorType
    <3>3. me \in ActorType /\ me.op = OpOf(a) /\ me.pc = "erase" /\ me.from = actors[a].from
      BY <1>3, <3>2 DEF ActorType, ProgramPoint, OpOf
    <3>4. Become(a, me)
      BY <3>1
    <3> HIDE DEF me
    <3>5. Frame(a)
      BY <1>4, <3>3, <3>4
    <3> QED
      BY <1>1, <2>1, <3>5, FrameStep, Zenon DEF TypeOK
  <2> QED
    BY <2>2, <2>3
<1>7. CASE EraseChild(a)
  <2>1. UNCHANGED manifest
    BY <1>7 DEF EraseChild
  <2>2. PICK outcome \in {"failed", "done", "missing"} :
            /\ files' = files \/ files' = FilePut(PartPath(OpOf(a), actors[a].part), "none")
            /\ Meets("fault") \/ UNCHANGED env
            /\ Become(a, [actors[a] EXCEPT !.pc = "record", !.outcome = outcome])
    BY <1>7 DEF EraseChild
  <2> DEFINE me == [actors[a] EXCEPT !.pc = "record", !.outcome = outcome]
  <2>3. outcome \in PartStatus
    BY DEF PartStatus
  <2>4. me \in ActorType /\ me.op = OpOf(a) /\ me.pc = "record" /\ me.from = actors[a].from
    BY <1>3, <2>3 DEF ActorType, ProgramPoint, OpOf
  <2>5. Become(a, me)
    BY <2>2
  <2> HIDE DEF me
  <2>6. Frame(a)
    BY <1>4, <2>4, <2>5
  <2>7. env' \in EnvType
    BY <1>1, <2>2, TroubleSpent DEF TypeOK
  <2>8. "none" \in Content
    BY DEF Content
  <2>9. files' \in [Path -> Content]
    BY <1>1, <2>2, <2>8, FilesTyped DEF TypeOK
  <2> QED
    BY <1>1, <2>1, <2>6, <2>7, <2>9, FrameStep, Zenon DEF TypeOK
<1> QED
  BY <1>5, <1>6, <1>7

(* A commit of a purge.                                                    *)
LEMMA PurgeCommit ==
    ASSUME Base, NEW a \in Actors, actors[a].pc \in PurgePoint,
           NEW from, from \notin Terminal, NEW state \in OperationState \ Terminal,
           NEW then \in ActorType,
           \/ then = Idle
           \/ /\ then.op = OpOf(a) /\ then.from \notin Terminal
              /\ then.pc \in {"purged", "finish"},
           \/ Transition(a, from, Moved(RowOf(a), state), then)
           \/ Transition(a, from, Parked(RowOf(a), FALSE), then)
    PROVE  Frame(a)
<1>1. /\ OpOf(a) \in Op /\ ops[OpOf(a)].kind = "purge" /\ ops[OpOf(a)] \in RowType
      /\ RowOf(a) = ops[OpOf(a)]
  BY PurgeInHand DEF RowOf
<1>2. then = Idle \/ GoesOn(OpOf(a), then)
  BY <1>1 DEF GoesOn, MovePoint
<1>3. CASE Transition(a, from, Moved(RowOf(a), state), then)
  <2> DEFINE row == Moved(RowOf(a), state)
  <2>1. /\ row \in RowType /\ row.kind = ops[OpOf(a)].kind
        /\ row.origin = ops[OpOf(a)].origin /\ row.dest = ops[OpOf(a)].dest
        /\ row.owner = ops[OpOf(a)].owner /\ row.held = NoOne /\ row.state \notin Terminal
    BY <1>1, MovedFacts
  <2>2. Transition(a, from, row, then)
    BY <1>3
  <2> HIDE DEF row
  <2> QED
    BY <1>1, <1>2, <2>1, <2>2, TransitionFrame
<1>4. CASE Transition(a, from, Parked(RowOf(a), FALSE), then)
  <2> DEFINE row == Parked(RowOf(a), FALSE)
  <2>1. /\ row \in RowType /\ row.kind = ops[OpOf(a)].kind
        /\ row.origin = ops[OpOf(a)].origin /\ row.dest = ops[OpOf(a)].dest
        /\ row.owner = ops[OpOf(a)].owner /\ row.held = NoOne /\ row.state = "awaiting_retry"
    <3>1. row = Parked(ops[OpOf(a)], FALSE) /\ FALSE \in BOOLEAN
      BY <1>1
    <3> HIDE DEF row
    <3> QED
      BY <1>1, <3>1, ParkedFacts
  <2>2. row.state \notin Terminal
    BY <2>1 DEF Terminal
  <2>3. Transition(a, from, row, then)
    BY <1>4
  <2> HIDE DEF row
  <2> QED
    BY <1>1, <1>2, <2>1, <2>2, <2>3, TransitionFrame
<1> QED
  BY <1>3, <1>4

(* _check_convergence and what follows from it.                            *)
LEMMA ConvergeStep == ASSUME Base, NEW a \in Actors, Converge(a) PROVE Step(a)
<1> DEFINE me == [actors[a] EXCEPT !.pc = "purged", !.from = "fs_applied"]
<1>1. TypeOK /\ At(a, "converge") /\ UNCHANGED media /\ Quietly
  BY DEF Base, Converge
<1>2. actors[a].pc \in PurgePoint /\ actors[a].pc \in OpenPoint
  BY <1>1 DEF At, PurgePoint, OpenPoint
<1>3. /\ OpOf(a) \in Op /\ ops[OpOf(a)].kind = "purge" /\ ops[OpOf(a)].held # a
      /\ actors[a] \in ActorType /\ actors[a].from \notin Terminal
  BY <1>2, PurgeInHand, OpenHoldsNothing
<1>4. "fs_applied" \in OperationState \ Terminal
  BY DEF OperationState, Terminal
<1>5. me \in ActorType /\ me.op = OpOf(a) /\ me.pc = "purged" /\ me.from = "fs_applied"
  BY <1>3, <1>4 DEF ActorType, ProgramPoint, OpOf
<1>6. \/ Transition(a, actors[a].from, Moved(RowOf(a), "fs_applied"), me)
      \/ Transition(a, actors[a].from, Parked(RowOf(a), FALSE), Idle)
      \/ Goto(a, "rescue") /\ UNCHANGED ops
  BY DEF Converge
<1> HIDE DEF me
<1>7. Frame(a)
  <2>1. CASE Transition(a, actors[a].from, Moved(RowOf(a), "fs_applied"), me)
    BY <1>2, <1>3, <1>4, <1>5, <2>1, PurgeCommit
  <2>2. CASE Transition(a, actors[a].from, Parked(RowOf(a), FALSE), Idle)
    BY <1>2, <1>3, <1>4, <2>2, IdleFacts, PurgeCommit
  <2>3. CASE Goto(a, "rescue") /\ UNCHANGED ops
    <3> DEFINE there == [actors[a] EXCEPT !.pc = "rescue"]
    <3>1. /\ there \in ActorType /\ there.op = OpOf(a) /\ there.pc = "rescue"
          /\ there.from = actors[a].from
      BY <1>3 DEF ActorType, ProgramPoint, OpOf
    <3>2. Become(a, there)
      BY <2>3 DEF Goto
    <3> HIDE DEF there
    <3>3. GoesOn(OpOf(a), there)
      BY <1>3, <3>1 DEF GoesOn, MovePoint, PurgePoint
    <3> QED
      BY <1>3, <2>3, <3>1, <3>2, <3>3, GoesFrame
  <2> QED
    BY <1>6, <2>1, <2>2, <2>3
<1> QED
  BY <1>1, <1>7, FrameStep DEF Quietly, TypeOK

(* The rows of a purge go with the pointer.                                *)
LEMMA ApplyPurgeStep == ASSUME Base, NEW a \in Actors, ApplyPurge(a) PROVE Step(a)
<1> DEFINE me == [actors[a] EXCEPT !.pc = "finish", !.from = "db_applied"]
<1>1. TypeOK /\ At(a, "purged") /\ Quietly
  BY DEF Base, ApplyPurge
<1>2. actors[a].pc \in PurgePoint
  BY <1>1 DEF At, PurgePoint
<1>3. OpOf(a) \in Op /\ actors[a] \in ActorType
  BY <1>2, PurgeInHand
<1>4. "db_applied" \in OperationState \ Terminal /\ "fs_applied" \notin Terminal
  BY DEF OperationState, Terminal
<1>5. me \in ActorType /\ me.op = OpOf(a) /\ me.pc = "finish" /\ me.from = "db_applied"
  BY <1>3, <1>4 DEF ActorType, ProgramPoint, OpOf
<1>6. Transition(a, "fs_applied", Moved(RowOf(a), "db_applied"), me)
  BY DEF ApplyPurge
<1> HIDE DEF me
<1>7. Frame(a)
  BY <1>2, <1>4, <1>5, <1>6, PurgeCommit
<1>8. PointerFine' /\ media' \in [path : Path \cup {Nowhere}, trashed : BOOLEAN, purged : BOOLEAN]
  <2>1. CASE UNCHANGED media
    BY <1>1, <1>7, <2>1, SamePointer DEF TypeOK
  <2>2. CASE media' = [media EXCEPT !.path = Nowhere, !.purged = TRUE]
    BY <1>1, <2>2 DEF TypeOK, PointerFine
  <2> QED
    BY <2>1, <2>2 DEF ApplyPurge
<1>9. RowOf(a).owner # a => UNCHANGED media
  BY DEF ApplyPurge, Owns, RowOf
<1>10. TypeOK'
  BY <1>1, <1>7, <1>8 DEF TypeOK, Frame, Quietly
<1> QED
  BY <1>1, <1>7, <1>8, <1>9, <1>10 DEF Step, Quietly

(* A pass claims an operation nobody works on.                             *)
LEMMA ClaimStep == ASSUME Base, NEW a \in Actors, NEW o \in Op, Claim(a, o) PROVE Step(a)
<1> DEFINE row == [ops[o] EXCEPT !.owner = a, !.live = TRUE]
           me == [Idle EXCEPT !.pc = "relock", !.op = o]
<1>1. /\ TypeOK /\ At(a, "idle") /\ Active(o) /\ Open(a, o)
      /\ UNCHANGED <<media, files, manifest, stager, runs, far, env>>
  BY DEF Base, Claim
<1>2. OpOf(a) = 0 /\ \A p \in Op : ops[p].held # a
  BY <1>1, OpsAreNumbers, MediaAssumption
     DEF Base, ActorsFine, ActorFine, At, OpOf, LocksFine, LockFine
<1>3. /\ row \in RowType /\ row.kind = ops[o].kind /\ row.origin = ops[o].origin
      /\ row.dest = ops[o].dest /\ row.owner = a /\ row.held = ops[o].held
      /\ row.state = ops[o].state
  <2>1. ops[o] \in RowType
    BY <1>1 DEF TypeOK
  <2> QED
    BY <2>1 DEF RowType
<1>4. me \in ActorType /\ me.pc = "relock" /\ me.op = o /\ me.from = "planned"
  BY IdleFacts DEF ActorType, ProgramPoint
<1>5. SetRow(o, row) /\ Become(a, me)
  BY DEF Claim
<1> HIDE DEF row, me
<1>6. /\ actors' \in [Actors -> ActorType] /\ actors'[a] = me
      /\ \A b \in Actors : b # a => actors'[b] = actors[b]
  BY <1>1, <1>4, <1>5, BecomeFacts
<1>7. /\ ops' \in [Op -> RowType] /\ ops'[o] = row
      /\ \A p \in Op : p # o => ops'[p] = ops[p]
  BY <1>1, <1>3, <1>5, SetRowFacts
<1>8. \A p \in Op : Active(p)' <=> Active(p)
  BY <1>3, <1>7 DEF Active
<1>9. OthersStay(a) /\ OldRows
  BY <1>3, <1>6, <1>7, <1>8 DEF OthersStay, OldRows
<1>10. row.held = NoOne
  BY <1>1, <1>2, <1>3 DEF Open
<1>11. RowsStep(a)
  <2> USE DEF RowsStep
  <2> TAKE p \in Op
  <2>1. CASE p = o
    BY <1>1, <1>2, <1>3, <1>7, <1>8, <1>10, <2>1, OpsAreNumbers, MediaAssumption
  <2>2. CASE p # o
    BY <1>2, <1>7, <1>8, <2>2
  <2> QED
    BY <2>1, <2>2
<1>12. OwnFine(a)
  <2>1. ActorFine(actors[a])'
    BY <1>1, <1>3, <1>4, <1>6, <1>7, OpsAreNumbers
       DEF ActorFine, MovePoint, PurgePoint, Terminal, Active
  <2> QED
    BY <1>1, <1>4, <1>6, <1>8, <2>1 DEF OwnFine, At, OpOf
<1>13. Frame(a)
  BY <1>6, <1>7, <1>9, <1>11, <1>12 DEF Frame
<1> QED
  BY <1>1, <1>13, FrameStep DEF TypeOK

(* What a pass reads is typed.                                             *)
LEMMA ViewTyped ==
    ASSUME Base, NEW o \in Op, Move(o)
    PROVE  ViewOf(o) \in ViewType
<1>1. ops[o].origin \in Path /\ ops[o].dest \in Path /\ Temp(o) \in Path
  BY PathsDiffer, PlacedIsPath DEF Base, RowsFine, RowFine, Move, Placed
<1>2. /\ files[ops[o].origin] \in Content /\ files[ops[o].dest] \in Content
      /\ files[Temp(o)] \in Content
  BY <1>1 DEF Base, TypeOK
<1> QED
  BY <1>2 DEF ViewOf, ViewType, PointerOf

(* The second look, under the row lock.                                    *)
LEMMA InspectStep == ASSUME Base, NEW a \in Actors, Inspect(a) PROVE Step(a)
<1> DEFINE o == OpOf(a)
           row == [ops[o] EXCEPT !.held = a]
           purging == [actors[a] EXCEPT !.pc = PurgeEntry(ops[o].state), !.from = ops[o].state,
                                        !.role = "reconciler"]
           moving == [actors[a] EXCEPT !.pc = "decide", !.view = ViewOf(o),
                                       !.from = Reentered(ops[o])]
<1>1. /\ TypeOK /\ At(a, "relock") /\ Open(a, o)
      /\ UNCHANGED <<media, files, manifest, stager, runs, far, env>>
  BY DEF Base, Inspect
<1>2. ~(actors[a].pc \in {"idle", "choose", "plan", "admit"}) /\ actors[a].pc \in OpenPoint
  BY <1>1 DEF At, OpenPoint
<1>3. /\ o \in Op /\ ops[o].kind # "none" /\ ops[o] \in RowType /\ actors[a] \in ActorType
      /\ actors[a].from \notin Terminal /\ ops[o].held # a
  BY <1>2, InHand, OpenHoldsNothing
<1>4. Frame(a)
  <2>1. CASE ~StillMine(a, o)
    <3>1. Leave(a) /\ UNCHANGED ops
      BY <2>1 DEF Inspect
    <3>2. SetRow(o, ops[o])
      BY <1>1, <1>3, <3>1, SameRow
    <3> QED
      BY <1>3, <3>1, <3>2, Leaves
  <2>2. CASE StillMine(a, o)
    <3>1. ops[o].owner = a /\ ops[o].state \notin Terminal
      BY <2>2 DEF StillMine, Active
    <3>2. /\ row \in RowType /\ row.kind = ops[o].kind /\ row.origin = ops[o].origin
          /\ row.dest = ops[o].dest /\ row.owner = a /\ row.held = a
          /\ row.state = ops[o].state
      BY <1>3, <3>1 DEF RowType
    <3>3. SetRow(o, row)
      BY <2>2 DEF Inspect
    <3> HIDE DEF row
    <3>4. CASE ops[o].kind = "purge"
      <4>1. PurgeEntry(ops[o].state) \in {"purged", "finish", "manifest"}
        BY DEF PurgeEntry
      <4>2. /\ purging \in ActorType /\ purging.op = o /\ purging.from \notin Terminal
            /\ purging.pc \in {"purged", "finish", "manifest"}
        BY <1>3, <3>1, <4>1 DEF ActorType, RowType, ProgramPoint, OpOf
      <4>3. Become(a, purging)
        BY <2>2, <3>4 DEF Inspect
      <4> HIDE DEF purging
      <4> QED
        BY <1>1, <1>3, <3>1, <3>2, <3>3, <3>4, <4>2, <4>3, Stays DEF MovePoint, OpenPoint
    <3>5. CASE ops[o].kind # "purge"
      <4>1. Move(o)
        BY <1>3, <3>5 DEF Move, RowType, Kind
      <4>2. Reentered(ops[o]) \in OperationState \ Terminal
        BY <1>3, <3>1 DEF Reentered, RowType, OperationState, Terminal
      <4>3. /\ moving \in ActorType /\ moving.op = o /\ moving.from \notin Terminal
            /\ moving.pc = "decide"
        BY <1>3, <4>1, <4>2, ViewTyped DEF ActorType, ProgramPoint, OpOf
      <4>4. Become(a, moving)
        BY <2>2, <3>5 DEF Inspect
      <4> HIDE DEF moving
      <4> QED
        BY <1>1, <1>3, <3>1, <3>2, <3>3, <4>1, <4>3, <4>4, Stays DEF PurgePoint, OpenPoint
    <3> QED
      BY <3>4, <3>5
  <2> QED
    BY <2>1, <2>2
<1> QED
  BY <1>1, <1>4, FrameStep DEF TypeOK

(* Who decides has the row lock, and so the operation.                     *)
LEMMA Decider ==
    ASSUME Base, NEW a \in Actors, At(a, "decide")
    PROVE  /\ actors[a].pc \in MovePoint
           /\ OpOf(a) \in Op /\ ops[OpOf(a)] \in RowType /\ RowOf(a) = ops[OpOf(a)]
           /\ ops[OpOf(a)].kind # "none" /\ Move(OpOf(a))
           /\ ops[OpOf(a)].owner = a /\ ops[OpOf(a)].held = a
           /\ ops[OpOf(a)].state \notin Terminal /\ Active(OpOf(a)) /\ Open(a, OpOf(a))
<1>1. actors[a].pc \in MovePoint
  BY DEF At, MovePoint
<1>2. /\ OpOf(a) \in Op /\ ops[OpOf(a)] \in RowType /\ RowOf(a) = ops[OpOf(a)]
      /\ ops[OpOf(a)].kind # "none" /\ Move(OpOf(a))
  BY <1>1, MoveInHand DEF RowOf
<1>3. ops[OpOf(a)].held = a
  BY <1>2 DEF Base, LocksFine
<1>4. Active(OpOf(a)) /\ ops[OpOf(a)].owner = a
  BY <1>2, <1>3, MediaAssumption DEF Base, LocksFine, LockFine
<1> QED
  BY <1>1, <1>2, <1>3, <1>4 DEF Open, Active

(* A verdict that ends the pass with a commit.                             *)
LEMMA CommitFrame ==
    ASSUME Base, NEW a \in Actors, At(a, "decide"), NEW lost \in BOOLEAN,
           NEW state \in OperationState, NEW row,
           row = Moved(RowOf(a), state) \/ row = Parked(RowOf(a), lost), Commit(a, row)
    PROVE  Frame(a)
<1>1. /\ OpOf(a) \in Op /\ ops[OpOf(a)] \in RowType /\ RowOf(a) = ops[OpOf(a)]
      /\ ops[OpOf(a)].kind # "none" /\ ops[OpOf(a)].owner = a
      /\ ops[OpOf(a)].state \notin Terminal /\ Open(a, OpOf(a))
  BY Decider
<1>2. /\ row \in RowType /\ row.kind = ops[OpOf(a)].kind
      /\ row.origin = ops[OpOf(a)].origin /\ row.dest = ops[OpOf(a)].dest
      /\ row.owner = ops[OpOf(a)].owner /\ row.held = NoOne
  BY <1>1, MovedFacts, ParkedFacts
<1>3. Leave(a) /\ SetRow(OpOf(a), row)
  BY DEF Commit
<1> QED
  BY <1>1, <1>2, <1>3, MediaAssumption, Leaves

(* A verdict that gives the operation up, parks it, or leaves it to the    *)
(* next pass.                                                              *)
LEMMA VerdictEnds ==
    ASSUME Base, NEW a \in Actors, GiveUp(a) \/ Shelve(a) \/ Scrap(a) \/ LeaveTemp(a)
    PROVE  Frame(a) /\ files' \in [Path -> Content]
<1>1. TypeOK /\ At(a, "decide")
  BY DEF Base, GiveUp, Shelve, Scrap, LeaveTemp, Decided
<1>2. OpOf(a) \in Op /\ ops[OpOf(a)].kind # "none"
  BY <1>1, Decider
<1>3. "failed" \in OperationState /\ "none" \in Content /\ FALSE \in BOOLEAN /\ TRUE \in BOOLEAN
  BY DEF OperationState, Terminal, Content
<1>4. files' \in [Path -> Content]
  <2>1. files' = files \/ files' = FilePut(Temp(OpOf(a)), "none")
    BY DEF GiveUp, Shelve, Scrap, LeaveTemp, WithoutTemp
  <2> QED
    BY <1>1, <1>3, <2>1, FilesTyped DEF TypeOK
<1>5. Frame(a)
  <2>1. CASE LeaveTemp(a)
    BY <1>2, <2>1, GivesUp DEF LeaveTemp
  <2>2. CASE GiveUp(a) \/ Scrap(a)
    <3>1. Commit(a, Moved(RowOf(a), "failed"))
      BY <2>2 DEF GiveUp, Scrap
    <3> QED
      BY <1>1, <1>3, <3>1, CommitFrame
  <2>3. CASE Shelve(a)
    <3>1. \E lost \in BOOLEAN : Commit(a, Parked(RowOf(a), lost))
      BY <1>3, <2>3 DEF Shelve
    <3> QED
      BY <1>1, <1>3, <3>1, CommitFrame
  <2> QED
    BY <2>1, <2>2, <2>3
<1> QED
  BY <1>4, <1>5

(* R1, R2: the executor takes over.                                        *)
LEMMA RestartStep == ASSUME Base, NEW a \in Actors, Restart(a) PROVE Frame(a) /\ files' \in [Path -> Content]
<1>1. TypeOK /\ At(a, "decide")
  BY DEF Base, Restart, Decided
<1>2. UNCHANGED ops /\ Become(a, [actors[a] EXCEPT !.pc = "publish", !.view = NoView])
  BY DEF Restart
<1>3. Frame(a)
  <2> DEFINE me == [actors[a] EXCEPT !.pc = "publish", !.view = NoView]
  <2>1. /\ OpOf(a) \in Op /\ ops[OpOf(a)].kind # "none" /\ Move(OpOf(a))
        /\ actors[a] \in ActorType /\ actors[a].from \notin Terminal
    BY <1>1, Decider, MoveInHand
  <2>2. NoView \in ViewType
    BY DEF NoView, ViewType, Content
  <2>3. me \in ActorType /\ me.op = OpOf(a) /\ me.pc = "publish" /\ me.from = actors[a].from
    BY <2>1, <2>2 DEF ActorType, ProgramPoint, OpOf
  <2>4. Become(a, me)
    BY <1>2
  <2> HIDE DEF me
  <2>5. GoesOn(OpOf(a), me) /\ me.pc \notin OpenPoint
    BY <2>1, <2>3 DEF GoesOn, OpenPoint, PurgePoint
  <2> QED
    BY <1>2, <2>1, <2>3, <2>4, <2>5, GoesFrame
<1>4. files' \in [Path -> Content]
  BY <1>1, FilesTyped DEF Restart, WithoutTemp, Content, TypeOK
<1> QED
  BY <1>3, <1>4

(* R6, R9, R14: the cleanup that is left.                                  *)
LEMMA CleanUpStep == ASSUME Base, NEW a \in Actors, CleanUp(a) PROVE Frame(a) /\ UNCHANGED files
<1>1. TypeOK /\ At(a, "decide") /\ UNCHANGED <<ops, files>>
  BY DEF Base, CleanUp, Decided
<1>2. /\ OpOf(a) \in Op /\ ops[OpOf(a)].kind # "none" /\ Move(OpOf(a))
      /\ actors[a] \in ActorType /\ actors[a].from \notin Terminal
  BY <1>1, Decider, MoveInHand
<1>3. PICK pc \in {"finish", "check"} :
          Become(a, [actors[a] EXCEPT !.role = "reconciler", !.view = NoView, !.pc = pc])
  BY DEF CleanUp
<1> DEFINE me == [actors[a] EXCEPT !.role = "reconciler", !.view = NoView, !.pc = pc]
<1>4. me \in ActorType /\ me.op = OpOf(a) /\ me.pc = pc /\ me.from = actors[a].from
  BY <1>2 DEF NoView, ViewType, Content, ActorType, ProgramPoint, OpOf
<1>5. Become(a, me)
  BY <1>3
<1> HIDE DEF me
<1>6. GoesOn(OpOf(a), me) /\ me.pc \notin OpenPoint
  BY <1>2, <1>4 DEF GoesOn, OpenPoint, PurgePoint
<1> QED
  BY <1>1, <1>2, <1>4, <1>5, <1>6, GoesFrame

(* A pass that fails rolls back, and its except clause comes next.         *)
LEMMA ToRescue ==
    ASSUME Base, NEW a \in Actors, actors[a].pc \in MovePoint, Goto(a, "rescue"), Rollback(a)
    PROVE  Frame(a)
<1> DEFINE me == [actors[a] EXCEPT !.pc = "rescue"]
<1>1. /\ TypeOK /\ OpOf(a) \in Op /\ ops[OpOf(a)].kind # "none" /\ ops[OpOf(a)] \in RowType
      /\ actors[a] \in ActorType /\ actors[a].from \notin Terminal
  BY MoveInHand DEF Base
<1>2. me \in ActorType /\ me.op = OpOf(a) /\ me.pc = "rescue" /\ me.from = actors[a].from
  BY <1>1 DEF ActorType, ProgramPoint, OpOf
<1>3. Become(a, me)
  BY DEF Goto
<1> HIDE DEF me
<1>4. PICK row \in RowType :
          /\ SetRow(OpOf(a), row)
          /\ row.kind = ops[OpOf(a)].kind /\ row.origin = ops[OpOf(a)].origin
          /\ row.dest = ops[OpOf(a)].dest /\ row.owner = ops[OpOf(a)].owner
          /\ row.state = ops[OpOf(a)].state
          /\ row.held = IF ops[OpOf(a)].held = a THEN NoOne ELSE ops[OpOf(a)].held
          /\ ops[OpOf(a)].held # a => row = ops[OpOf(a)]
  BY <1>1, RollbackFacts
<1>5. /\ row.held # a
      /\ row = ops[OpOf(a)] \/ (Open(a, OpOf(a)) /\ row.held \in {NoOne, a})
  BY <1>4, MediaAssumption DEF Open
<1> QED
  BY <1>1, <1>2, <1>3, <1>4, <1>5, Stays DEF MovePoint, PurgePoint

(* R11: the temporary file is gone.                                        *)
LEMMA RelinkFailsStep ==
    ASSUME Base, NEW a \in Actors, RelinkFails(a) PROVE Frame(a) /\ UNCHANGED files
<1>1. At(a, "decide") /\ Goto(a, "rescue") /\ Rollback(a) /\ UNCHANGED files
  BY DEF RelinkFails, Decided
<1>2. actors[a].pc \in MovePoint
  BY <1>1 DEF At, MovePoint
<1> QED
  BY <1>1, <1>2, ToRescue

(* R3, R5, R8, R11: the reconciler moves the pointer.                      *)
LEMMA ForwardStep ==
    ASSUME Base, NEW a \in Actors, RollForward(a), UNCHANGED <<manifest, stager, runs, far, env>>
    PROVE  Step(a)
<1> DEFINE me == [actors[a] EXCEPT !.pc = "check", !.from = "db_applied", !.role = "reconciler",
                                   !.view = NoView]
           row == Moved(RowOf(a), "db_applied")
<1>1. TypeOK /\ At(a, "decide")
  BY DEF Base, RollForward, Decided
<1>2. /\ OpOf(a) \in Op /\ ops[OpOf(a)].kind # "none" /\ Move(OpOf(a)) /\ RowOf(a) = ops[OpOf(a)]
      /\ ops[OpOf(a)].owner = a /\ ops[OpOf(a)] \in RowType /\ Open(a, OpOf(a))
      /\ actors[a].pc \in MovePoint /\ ops[OpOf(a)].state \notin Terminal
  BY <1>1, Decider
<1>3. actors[a] \in ActorType
  BY <1>2, MoveInHand
<1>4. RowOf(a).dest \in Path /\ Temp(OpOf(a)) \in Path
  BY <1>2, MovePaths
<1>5. files' \in [Path -> Content]
  <2>1. files[Temp(OpOf(a))] \in Content
    BY <1>1, <1>4 DEF TypeOK
  <2> QED
    BY <1>1, <2>1, FilesTyped DEF RollForward, TypeOK
<1>6. /\ "db_applied" \in OperationState \ Terminal /\ "failed" \in OperationState
  BY DEF OperationState, Terminal
<1>7. \/ /\ media' = [media EXCEPT !.path = RowOf(a).dest]
         /\ SetRow(OpOf(a), row) /\ Become(a, me)
      \/ Commit(a, Moved(RowOf(a), "failed")) /\ UNCHANGED media
  BY DEF RollForward
<1>8. CASE Commit(a, Moved(RowOf(a), "failed")) /\ UNCHANGED media
  <2>1. Frame(a)
    BY <1>1, <1>6, <1>8, CommitFrame
  <2> QED
    BY <1>1, <1>5, <1>8, <2>1, FrameStep DEF TypeOK
<1>9. CASE /\ media' = [media EXCEPT !.path = RowOf(a).dest]
           /\ SetRow(OpOf(a), row) /\ Become(a, me)
  <2>1. /\ row \in RowType /\ row.kind = ops[OpOf(a)].kind
        /\ row.origin = ops[OpOf(a)].origin /\ row.dest = ops[OpOf(a)].dest
        /\ row.owner = ops[OpOf(a)].owner /\ row.held = NoOne /\ row.state = "db_applied"
    BY <1>2, <1>6, MovedFacts
  <2>2. me \in ActorType /\ me.op = OpOf(a) /\ me.pc = "check" /\ me.from = "db_applied"
    BY <1>3, <1>6 DEF ActorType, ProgramPoint, OpOf, NoView, ViewType, Content
  <2>3. SetRow(OpOf(a), row) /\ Become(a, me)
    BY <1>9
  <2> HIDE DEF me, row
  <2>4. Frame(a)
    BY <1>2, <1>6, <2>1, <2>2, <2>3, MediaAssumption, Stays DEF PurgePoint
  <2>5. /\ media'.path = ops[OpOf(a)].dest
        /\ media' \in [path : Path \cup {Nowhere}, trashed : BOOLEAN, purged : BOOLEAN]
    BY <1>1, <1>2, <1>4, <1>9 DEF TypeOK
  <2>6. PointerFine'
    BY <1>2, <2>4, <2>5, NewPointer
  <2>7. TypeOK'
    BY <1>1, <1>5, <2>4, <2>5 DEF TypeOK, Frame
  <2> QED
    BY <1>2, <2>4, <2>6, <2>7 DEF Step
<1> QED
  BY <1>7, <1>8, <1>9

(* The except clause of a pass.                                            *)
LEMMA RescueStep == ASSUME Base, NEW a \in Actors, Rescue(a) PROVE Frame(a)
<1> DEFINE o == OpOf(a)
           parked == Parked(ops[o], FALSE)
           mine == [parked EXCEPT !.owner = a]
           taken == [mine EXCEPT !.live = TRUE]
<1>1. TypeOK /\ At(a, "rescue") /\ Open(a, o) /\ Leave(a)
  BY DEF Base, Rescue
<1>2. ~(actors[a].pc \in {"idle", "choose", "plan", "admit"}) /\ actors[a].pc \in OpenPoint
  BY <1>1 DEF At, OpenPoint
<1>3. o \in Op /\ ops[o].kind # "none" /\ ops[o] \in RowType /\ ops[o].held # a
  BY <1>2, InHand, OpenHoldsNothing
<1>4. /\ mine \in RowType /\ mine.kind = ops[o].kind /\ mine.origin = ops[o].origin
      /\ mine.dest = ops[o].dest /\ mine.owner = a /\ mine.held = NoOne
      /\ mine.state = "awaiting_retry"
  <2>1. /\ parked \in RowType /\ parked.kind = ops[o].kind /\ parked.origin = ops[o].origin
        /\ parked.dest = ops[o].dest /\ parked.held = NoOne /\ parked.state = "awaiting_retry"
    <3>1. FALSE \in BOOLEAN
      OBVIOUS
    <3> QED
      BY <1>3, <3>1, ParkedFacts
  <2> HIDE DEF parked
  <2> QED
    BY <2>1 DEF RowType
<1>5. /\ taken \in RowType /\ taken.kind = ops[o].kind /\ taken.origin = ops[o].origin
      /\ taken.dest = ops[o].dest /\ taken.owner = a /\ taken.held = NoOne
      /\ taken.state = "awaiting_retry"
  BY <1>4 DEF RowType
<1>6. \/ SetRow(o, ops[o])
      \/ /\ Active(o)
         /\ SetRow(o, mine) \/ SetRow(o, taken)
  <2>1. UNCHANGED ops => SetRow(o, ops[o])
    BY <1>1, <1>3, SameRow
  <2> QED
    BY <2>1 DEF Rescue
<1> HIDE DEF taken, mine
<1>7. ASSUME NEW row \in {mine, taken}, Active(o), SetRow(o, row) PROVE Frame(a)
  <2>1. /\ row \in RowType /\ row.kind = ops[o].kind /\ row.origin = ops[o].origin
        /\ row.dest = ops[o].dest /\ row.owner = a /\ row.held = NoOne
        /\ row.state = "awaiting_retry"
    BY <1>4, <1>5
  <2>2. ops[o].state \notin Terminal /\ row.state \notin Terminal
    BY <1>7, <2>1 DEF Active, Terminal
  <2> QED
    BY <1>1, <1>3, <1>7, <2>1, <2>2, MediaAssumption, Leaves
<1>8. SetRow(o, ops[o]) => Frame(a)
  BY <1>1, <1>3, Leaves
<1> QED
  BY <1>6, <1>7, <1>8

(* What a pass does with what it read.                                     *)
LEMMA ActStep == ASSUME Base, NEW a \in Actors, Act(a) PROVE Step(a)
<1>1. TypeOK /\ UNCHANGED <<manifest, stager, runs, far, env>>
  BY DEF Base, Act
<1>2. ASSUME Frame(a), files' \in [Path -> Content], UNCHANGED media PROVE Step(a)
  BY <1>1, <1>2, FrameStep DEF TypeOK
<1>3. CASE (GiveUp(a) \/ Shelve(a) \/ Scrap(a) \/ LeaveTemp(a)) /\ UNCHANGED media
  BY <1>2, <1>3, VerdictEnds
<1>4. CASE Restart(a) /\ UNCHANGED media
  BY <1>2, <1>4, RestartStep
<1>5. CASE CleanUp(a) /\ UNCHANGED media
  BY <1>1, <1>2, <1>5, CleanUpStep DEF TypeOK
<1>6. CASE RollForward(a)
  BY <1>1, <1>6, ForwardStep
<1>7. CASE Rescue(a)
  BY <1>1, <1>2, <1>7, RescueStep DEF TypeOK, Rescue
<1>8. CASE RelinkFails(a) /\ UNCHANGED media
  BY <1>1, <1>2, <1>8, RelinkFailsStep DEF TypeOK
<1> QED
  BY <1>3, <1>4, <1>5, <1>6, <1>7, <1>8 DEF Act

(* A filesystem call raises.                                               *)
LEMMA StumbleStep == ASSUME Base, NEW a \in Actors, Stumble(a) PROVE Step(a)
<1>1. TypeOK /\ Meets("fault") /\ UNCHANGED <<media, files, manifest, stager, runs, far>>
  BY DEF Base, Stumble
<1>2. actors[a].pc \in MovePoint
  BY DEF Stumble, At, MovePoint
<1>3. /\ OpOf(a) \in Op /\ ops[OpOf(a)].kind # "none" /\ ops[OpOf(a)] \in RowType
      /\ actors[a] \in ActorType /\ actors[a].from \notin Terminal
  BY <1>2, MoveInHand
<1>4. ASSUME NEW pc \in {"try_later", "give_up"}, Goto(a, pc), UNCHANGED ops PROVE Frame(a)
  <2>1. pc \in (MovePoint \ {"decide"}) \cup {"finish"}
    BY DEF MovePoint
  <2> QED
    BY <1>2, <1>4, <2>1, MoveGoes
<1>5. ASSUME Goto(a, "rescue"), Rollback(a) PROVE Frame(a)
  BY <1>2, <1>5, ToRescue
<1>6. Frame(a)
  BY <1>4, <1>5 DEF Stumble
<1>7. env' \in EnvType
  BY <1>1, TroubleSpent
<1> QED
  BY <1>1, <1>6, <1>7, FrameStep DEF TypeOK

(* The process dies.                                                       *)
LEMMA CrashStep == ASSUME Base, NEW a \in Actors, Crash(a) PROVE Step(a)
<1>1. /\ TypeOK /\ Meets("crash") /\ Leave(a)
      /\ UNCHANGED <<media, files, manifest, stager, runs, far>>
  BY DEF Base, Crash
<1>2. Frame(a)
  <2>1. CASE OpOf(a) = 0
    BY <1>1, <2>1, IdleFacts, StaysAway DEF Crash, Leave, Terminal
  <2>2. CASE OpOf(a) # 0
    <3>1. OpOf(a) \in Op /\ ops[OpOf(a)].kind # "none"
      BY <2>2, InHand DEF Base, ActorsFine, ActorFine, OpOf
    <3> QED
      BY <1>1, <2>2, <3>1, GivesUp DEF Crash
  <2> QED
    BY <2>1, <2>2
<1>3. env' \in EnvType
  BY <1>1, TroubleSpent
<1> QED
  BY <1>1, <1>2, <1>3, FrameStep DEF TypeOK

-----------------------------------------------------------------------------
(* The steps that begin an operation, and those of no actor.               *)

(* A new operation of an item that has none in flight and no admitted run. *)
LEMMA NewRow ==
    ASSUME Base, "admitted" \notin runs, ~HasActiveOperation, NEW a \in Actors, OpOf(a) = 0,
           NEW o \in Op, ops[o].kind = "none", NEW row \in RowType, SetRow(o, row),
           row.kind # "none", row.owner = a, row.held = NoOne, row.state = "planned",
           Placed(row.origin),
           row.kind = "trash" => row.dest = Trash(o),
           row.kind = "restore" => Placed(row.dest),
           NEW me \in ActorType, Become(a, me), me.op = o, me.from = "planned",
           \/ me.pc = "publish" /\ row.kind \in {"trash", "restore"}
           \/ me.pc = "manifest" /\ row.kind = "purge",
           TypeOK', UNCHANGED <<media, runs>>
    PROVE  Base'
<1>1. TypeOK
  BY DEF Base
<1>2. /\ actors'[a] = me /\ \A b \in Actors : b # a => actors'[b] = actors[b]
  BY <1>1, BecomeFacts
<1>3. /\ ops'[o] = row /\ \A p \in Op : p # o => ops'[p] = ops[p]
  BY <1>1, SetRowFacts
<1>4. \A p : Placed(p) => Placed(p)'
  BY <1>3 DEF Placed
<1>5. row.origin # Trash(o)
  BY PathsDiffer DEF Placed
<1>6. \A p \in Op : ~Active(p) /\ ops[p].held = NoOne /\ (Active(p)' <=> p = o)
  <2> TAKE p \in Op
  <2>1. ~Active(p)
    BY DEF HasActiveOperation
  <2>2. ops[p].held = NoOne
    BY <2>1 DEF Base, LocksFine, LockFine
  <2>3. Active(o)'
    BY <1>3 DEF Active, Terminal
  <2>4. p # o => ~Active(p)'
    BY <1>3, <2>1 DEF Active
  <2> QED
    BY <2>1, <2>2, <2>3, <2>4
<1>7. ActorsFine'
  <2> SUFFICES ASSUME NEW b \in Actors PROVE ActorFine(actors[b])'
    BY DEF ActorsFine
  <2>1. CASE b = a
    BY <1>2, <1>3, <2>1, OpsAreNumbers DEF ActorFine, Move, MovePoint, PurgePoint, Terminal
  <2>2. CASE b # a
    <3>1. actors'[b] = actors[b] /\ ActorFine(actors[b]) /\ actors[b] \in ActorType
      BY <1>1, <1>2, <2>2 DEF Base, ActorsFine, TypeOK
    <3>2. actors[b].op \in Op \cup {0}
      BY <3>1 DEF ActorType
    <3>3. actors[b].op # 0 => actors[b].op # o /\ ops'[actors[b].op] = ops[actors[b].op]
      BY <1>3, <3>1, <3>2 DEF ActorFine
    <3>4. actors[b].pc \in MovePoint \cup PurgePoint => actors[b].op # 0
      BY <3>1 DEF ActorFine, MovePoint, PurgePoint
    <3> QED
      BY <1>4, <3>1, <3>3, <3>4 DEF ActorFine, Move
  <2> QED
    BY <2>1, <2>2
<1>8. RowsFine'
  <2> SUFFICES ASSUME NEW p \in Op PROVE RowFine(p)'
    BY DEF RowsFine
  <2>1. CASE p = o
    BY <1>3, <1>4, <1>5, <2>1 DEF RowFine
  <2>2. CASE p # o
    BY <1>3, <1>4, <2>2 DEF RowFine, Base, RowsFine
  <2> QED
    BY <2>1, <2>2
<1>9. PointerFine'
  BY <1>4 DEF PointerFine, Base
<1>10. LocksFine'
  <2>1. \A p \in Op : LockFine(p)'
    BY <1>3, <1>6 DEF LockFine
  <2>2. ASSUME NEW b \in Actors, At(b, "decide")' PROVE FALSE
    <3>1. b # a /\ At(b, "decide")
      BY <1>2, <2>2 DEF At
    <3>2. RowOf(b).held = b /\ OpOf(b) \in Op
      BY <3>1, InHand DEF Base, LocksFine, At
    <3> QED
      BY <1>6, <3>2, MediaAssumption DEF RowOf
  <2> QED
    BY <2>1, <2>2 DEF LocksFine
<1>11. OwnersBusy'
  <2> SUFFICES ASSUME NEW b \in Actors, OpOf(b)' # 0, Mine(b)' PROVE Active(OpOf(b))'
    BY DEF OwnersBusy
  <2>1. CASE b = a
    BY <1>2, <1>6, <2>1 DEF OpOf
  <2>2. CASE b # a
    <3>1. actors'[b] = actors[b] /\ actors[b].op \in Op
      BY <1>1, <1>2, <2>2 DEF OpOf, TypeOK, ActorType
    <3>2. actors[b].op # o
      BY <1>3, <2>2, <3>1 DEF Mine, RowOf, OpOf
    <3>3. ops[OpOf(b)].owner = b /\ OpOf(b) # 0
      BY <1>3, <3>1, <3>2, OpsAreNumbers DEF Mine, RowOf, OpOf
    <3>4. Active(OpOf(b))
      BY <3>3 DEF Base, OwnersBusy, Mine, RowOf
    <3> QED
      BY <1>6, <3>1, <3>4 DEF OpOf
  <2> QED
    BY <2>1, <2>2
<1>12. ItemTakenOnce'
  BY <1>6 DEF ItemTakenOnce
<1> QED
  BY <1>7, <1>8, <1>9, <1>10, <1>11, <1>12 DEF Base

(* The row of a new operation.                                             *)
LEMMA PlannedFacts ==
    ASSUME NEW a \in Actors, NEW kind \in Kind, NEW origin \in Path \cup {Nowhere},
           NEW dest \in Path \cup {Nowhere}
    PROVE  LET row == PlannedRow(a, kind, origin, dest)
           IN /\ row \in RowType /\ row.kind = kind /\ row.origin = origin /\ row.dest = dest
              /\ row.owner = a /\ row.held = NoOne /\ row.state = "planned"
              /\ row.live /\ ~row.lost
BY Zenon DEF PlannedRow, RowType, OperationState

(* A console request plans a move, or is refused.                          *)
LEMMA PlanStep == ASSUME Base, NEW a \in Actors, Plan(a) 
    PROVE  Base' /\ OpOf(a) = 0 /\ OthersStay(a)
<1> DEFINE seen == actors[a].seen
           Dest(o) == IF seen.kind = "trash" THEN Trash(o) ELSE seen.dest
<1>1. TypeOK /\ At(a, "plan") /\ UNCHANGED <<media, files, manifest, stager, runs, far, env>>
  BY DEF Base, Plan
<1>2. /\ OpOf(a) = 0 /\ seen.kind \in {"trash", "restore"} /\ Placed(seen.path)
      /\ seen.kind = "restore" => Placed(seen.dest)
  BY <1>1 DEF At, OpOf, Base, ActorsFine, ActorFine
<1>3. CASE Leave(a) /\ UNCHANGED ops
  <2>1. Frame(a)
    BY <1>2, <1>3, IdleFacts, StaysAway DEF Leave, Terminal
  <2>2. Step(a)
    BY <1>1, <2>1, FrameStep DEF TypeOK
  <2> QED
    BY <1>2, <2>1, <2>2, FrameKeepsBase DEF Step, Frame
<1>4. CASE ~Refused(seen) /\ \E o \in Op :
              /\ Fresh(o)
              /\ SetRow(o, PlannedRow(a, seen.kind, seen.path, Dest(o)))
              /\ Become(a, [Idle EXCEPT !.pc = "publish", !.op = o])
  <2>1. PICK o \in Op :
            /\ Fresh(o)
            /\ SetRow(o, PlannedRow(a, seen.kind, seen.path, Dest(o)))
            /\ Become(a, [Idle EXCEPT !.pc = "publish", !.op = o])
    BY <1>4
  <2> DEFINE row == PlannedRow(a, seen.kind, seen.path, Dest(o))
             me == [Idle EXCEPT !.pc = "publish", !.op = o]
  <2>2. "admitted" \notin runs /\ ~HasActiveOperation /\ ops[o].kind = "none"
    BY <1>4, <2>1 DEF Refused, HasActiveRun, Fresh
  <2>3. /\ seen.kind \in Kind /\ seen.path \in Path /\ Dest(o) \in Path
    BY <1>2, PlacedIsPath, PathsDiffer DEF Kind
  <2>4. /\ row \in RowType /\ row.kind = seen.kind /\ row.origin = seen.path
        /\ row.dest = Dest(o) /\ row.owner = a /\ row.held = NoOne /\ row.state = "planned"
    BY <2>3, PlannedFacts
  <2>5. /\ me \in ActorType /\ me.pc = "publish" /\ me.op = o /\ me.from = "planned"
    BY IdleFacts DEF ActorType, ProgramPoint
  <2>6. SetRow(o, row) /\ Become(a, me)
    BY <2>1
  <2>7. row.kind = "trash" => row.dest = Trash(o)
    BY <2>4
  <2>8. row.kind = "restore" => Placed(row.dest)
    BY <1>2, <2>4
  <2> HIDE DEF row, me
  <2>9. TypeOK'
    BY <1>1, <2>4, <2>5, <2>6, SetRowFacts, BecomeFacts DEF TypeOK
  <2>10. Placed(row.origin) /\ row.kind \in {"trash", "restore"}
    BY <1>2, <2>4
  <2>11. Base'
    BY <1>1, <1>2, <2>2, <2>4, <2>5, <2>6, <2>7, <2>8, <2>9, <2>10, NewRow
  <2>12. OthersStay(a)
    BY <1>1, <2>5, <2>6, BecomeFacts DEF OthersStay
  <2> QED
    BY <1>2, <2>11, <2>12, Zenon
<1> QED
  BY <1>3, <1>4, Zenon DEF Plan

(* A console request plans a purge.                                        *)
LEMMA PurgeStep == ASSUME Base, NEW a \in Actors, PlanPurge(a) 
    PROVE  Base' /\ OpOf(a) = 0 /\ OthersStay(a)
<1>1. /\ TypeOK /\ At(a, "idle") /\ ~media.purged
      /\ "admitted" \notin runs /\ ~HasActiveOperation
      /\ UNCHANGED <<media, files, manifest, stager, runs, far>>
  BY DEF Base, PlanPurge, HasActiveRun
<1>2. OpOf(a) = 0
  BY <1>1 DEF At, OpOf, Base, ActorsFine, ActorFine
<1>3. PICK o \in Op :
          /\ Fresh(o)
          /\ SetRow(o, PlannedRow(a, "purge", media.path, Nowhere))
          /\ Become(a, [Idle EXCEPT !.pc = "manifest", !.op = o])
  BY DEF PlanPurge
<1> DEFINE row == PlannedRow(a, "purge", media.path, Nowhere)
           me == [Idle EXCEPT !.pc = "manifest", !.op = o]
<1>4. Placed(media.path) /\ media.path \in Path /\ ops[o].kind = "none"
  BY <1>1, <1>3, PlacedIsPath DEF Base, PointerFine, Fresh
<1>5. /\ row \in RowType /\ row.kind = "purge" /\ row.origin = media.path
      /\ row.dest = Nowhere /\ row.owner = a /\ row.held = NoOne /\ row.state = "planned"
  BY <1>4, PlannedFacts DEF Kind
<1>6. /\ me \in ActorType /\ me.pc = "manifest" /\ me.op = o /\ me.from = "planned"
  BY IdleFacts DEF ActorType, ProgramPoint
<1>7. SetRow(o, row) /\ Become(a, me)
  BY <1>3
<1> HIDE DEF row, me
<1>8. TypeOK'
  <2>1. env' \in EnvType
    BY <1>1, RequestSpent DEF PlanPurge
  <2> QED
    BY <1>1, <1>5, <1>6, <1>7, <2>1, SetRowFacts, BecomeFacts DEF TypeOK
<1>9. Base'
  BY <1>1, <1>2, <1>4, <1>5, <1>6, <1>7, <1>8, NewRow
<1>10. OthersStay(a)
  BY <1>1, <1>6, <1>7, BecomeFacts DEF OthersStay
<1> QED
  BY <1>2, <1>9, <1>10

(* A run is admitted, or not.                                              *)
LEMMA AdmitStep == ASSUME Base, NEW a \in Actors, Admit(a) 
    PROVE  Base' /\ OpOf(a) = 0 /\ OthersStay(a)
<1>1. /\ TypeOK /\ At(a, "admit") /\ Leave(a)
      /\ UNCHANGED <<media, ops, files, manifest, stager, far, env>>
  BY DEF Base, Admit
<1>2. OpOf(a) = 0
  BY <1>1 DEF At, OpOf, Base, ActorsFine, ActorFine
<1>3. Frame(a)
  BY <1>1, <1>2, IdleFacts, StaysAway DEF Leave, Terminal
<1>4. TypeOK'
  <2>1. runs' \in {runs, runs \cup {"admitted"}}
    BY DEF Admit
  <2>2. runs' \subseteq Entry
    BY <1>1, <2>1 DEF TypeOK, Entry
  <2> QED
    BY <1>1, <1>3, <2>2 DEF TypeOK, Frame
<1>5. ASSUME "admitted" \in runs' => "admitted" \in runs PROVE Base'
  BY <1>1, <1>2, <1>3, <1>4, <1>5, SamePointer, FrameKeepsBase
<1>6. ASSUME "admitted" \in runs', "admitted" \notin runs PROVE Base'
  <2>1. ~HasActiveOperation
    BY <1>1, <1>6 DEF Admit, TypeOK
  <2>2. ActorsFine' /\ RowsFine' /\ LocksFine' /\ OwnersBusy'
    <3>1. /\ actors'[a] = Idle /\ \A b \in Actors : b # a => actors'[b] = actors[b]
      BY <1>1, LeaveFacts
    <3>2. ActorsFine'
      BY <1>1, <3>1, IdleFacts
         DEF Base, ActorsFine, ActorFine, Move, MovePoint, PurgePoint, Placed, Terminal
    <3>3. \A p \in Op : ops[p].held = NoOne
      BY <2>1 DEF Base, LocksFine, LockFine, HasActiveOperation
    <3>4. LocksFine'
      <4>1. ASSUME NEW b \in Actors, At(b, "decide")' PROVE RowOf(b)'.held = b
        BY <1>1, <3>1, <4>1, IdleFacts DEF At, RowOf, OpOf, Base, LocksFine
      <4> QED
        BY <1>1, <3>3, <4>1 DEF LocksFine, LockFine
    <3>5. OwnersBusy'
      BY <1>1, <3>1, IdleFacts DEF Base, OwnersBusy, OpOf, Mine, RowOf, Active
    <3> QED
      BY <1>1, <3>2, <3>4, <3>5 DEF Base, RowsFine, RowFine, Placed
  <2>3. PointerFine' /\ ItemTakenOnce'
    BY <1>1, <2>1 DEF Base, PointerFine, Placed, ItemTakenOnce, HasActiveOperation, Active
  <2> QED
    BY <1>2, <1>4, <2>2, <2>3 DEF Base
<1> QED
  BY <1>2, <1>3, <1>5, <1>6 DEF Frame

(* A lease runs out, a retry falls due: nobody's state is about either.    *)
LEMMA TimeStep == ASSUME Base, NEW o \in Op, LeaseExpires(o) \/ RetryDue(o) PROVE Base'
<1>1. TypeOK /\ UNCHANGED <<media, files, manifest, stager, runs, actors, far>>
  BY DEF Base, LeaseExpires, RetryDue
<1>2. PICK row \in RowType :
          /\ SetRow(o, row) /\ row.kind = ops[o].kind /\ row.origin = ops[o].origin
          /\ row.dest = ops[o].dest /\ row.owner = ops[o].owner /\ row.held = ops[o].held
          /\ row.state = ops[o].state
  <2>1. ops[o] \in RowType
    BY <1>1 DEF TypeOK
  <2>2. CASE LeaseExpires(o)
    <3> DEFINE row == [ops[o] EXCEPT !.live = FALSE]
    <3>1. /\ row \in RowType /\ row.kind = ops[o].kind /\ row.origin = ops[o].origin
          /\ row.dest = ops[o].dest /\ row.owner = ops[o].owner /\ row.held = ops[o].held
          /\ row.state = ops[o].state /\ SetRow(o, row)
      BY <2>1, <2>2 DEF RowType, LeaseExpires
    <3> QED
      BY <3>1
  <2>3. CASE RetryDue(o)
    <3> DEFINE row == [ops[o] EXCEPT !.due = TRUE]
    <3>1. /\ row \in RowType /\ row.kind = ops[o].kind /\ row.origin = ops[o].origin
          /\ row.dest = ops[o].dest /\ row.owner = ops[o].owner /\ row.held = ops[o].held
          /\ row.state = ops[o].state /\ SetRow(o, row)
      BY <2>1, <2>3 DEF RowType, RetryDue
    <3> QED
      BY <3>1
  <2> QED
    BY <2>2, <2>3
<1>3. /\ ops' \in [Op -> RowType] /\ ops'[o] = row
      /\ \A p \in Op : p # o => ops'[p] = ops[p]
  BY <1>1, <1>2, SetRowFacts
<1>4. \A p \in Op : /\ ops'[p].kind = ops[p].kind /\ ops'[p].origin = ops[p].origin
                    /\ ops'[p].dest = ops[p].dest /\ ops'[p].owner = ops[p].owner
                    /\ ops'[p].held = ops[p].held /\ ops'[p].state = ops[p].state
  BY <1>2, <1>3
<1>5. \A p : (Placed(p)' <=> Placed(p))
  BY <1>4 DEF Placed
<1>6. \A p \in Op : (Active(p)' <=> Active(p)) /\ (Move(p)' <=> Move(p))
  BY <1>4 DEF Active, Move
<1>7. TypeOK'
  <2>1. env' \in EnvType
    BY <1>1, TroubleSpent DEF LeaseExpires, RetryDue, TypeOK
  <2> QED
    BY <1>1, <1>3, <2>1 DEF TypeOK
<1>8. \A b \in Actors : actors[b].op \in Op \cup {0}
  BY <1>1 DEF TypeOK, ActorType
<1>9. ActorsFine'
  <2> SUFFICES ASSUME NEW b \in Actors PROVE ActorFine(actors[b])'
    BY DEF ActorsFine
  <2>1. ActorFine(actors[b]) /\ actors[b].op \in Op \cup {0}
    BY <1>8 DEF Base, ActorsFine
  <2>2. actors[b].pc \in MovePoint \cup PurgePoint => actors[b].op # 0
    BY <2>1 DEF ActorFine, MovePoint, PurgePoint
  <2> QED
    BY <1>1, <1>4, <1>5, <1>6, <2>1, <2>2 DEF ActorFine
<1>10. RowsFine'
  BY <1>4, <1>5 DEF Base, RowsFine, RowFine
<1>11. PointerFine'
  BY <1>1, <1>5 DEF Base, PointerFine
<1>12. LocksFine'
  <2>1. \A p \in Op : LockFine(p)'
    BY <1>1, <1>4, <1>6 DEF Base, LocksFine, LockFine, OpOf
  <2>2. ASSUME NEW b \in Actors, At(b, "decide")' PROVE RowOf(b)'.held = b
    <3>1. RowOf(b).held = b /\ OpOf(b) \in Op
      BY <1>1, <2>2, InHand DEF Base, LocksFine, At
    <3> QED
      BY <1>1, <1>4, <3>1 DEF RowOf, OpOf
  <2> QED
    BY <2>1, <2>2 DEF LocksFine
<1>13. OwnersBusy'
  BY <1>1, <1>4, <1>6, <1>8 DEF Base, OwnersBusy, Mine, RowOf, OpOf
<1>14. ItemTakenOnce'
  BY <1>1, <1>6 DEF Base, ItemTakenOnce, HasActiveOperation
<1> QED
  BY <1>7, <1>9, <1>10, <1>11, <1>12, <1>13, <1>14 DEF Base

(* A run ends or is queued again, somebody else's hand on the files, and   *)
(* nothing.                                                                *)
LEMMA OtherStep == ASSUME Base, RunEnds \/ RunReopens \/ Outside \/ UNCHANGED vars PROVE Base'
<1>1. UNCHANGED <<media, ops, actors>> /\ ("admitted" \in runs' => "admitted" \in runs)
  BY DEF RunEnds, RunReopens, Outside, vars
<1>2. TypeOK'
  <2>1. CASE RunEnds \/ RunReopens
    <3>1. env' \in EnvType
      BY <2>1, TroubleSpent DEF RunEnds, RunReopens, Base, TypeOK
    <3>2. runs' \subseteq Entry
      BY <2>1 DEF RunEnds, RunReopens, Base, TypeOK, Entry
    <3> QED
      BY <2>1, <3>1, <3>2 DEF RunEnds, RunReopens, Base, TypeOK
  <2>2. CASE Outside
    <3>1. files' \in [Path -> Content] /\ env' \in EnvType
      BY <2>2, FilesTyped, TroubleSpent DEF Outside, Base, Content
    <3> QED
      BY <2>2, <3>1 DEF Outside, Base, TypeOK
  <2>3. CASE UNCHANGED vars
    BY <2>3 DEF vars, Base, TypeOK
  <2> QED
    BY <2>1, <2>2, <2>3
<1>3. ActorsFine' /\ RowsFine' /\ PointerFine'
  BY <1>1 DEF Base, ActorsFine, ActorFine, RowsFine, RowFine, PointerFine, Placed, Move
<1>4. LocksFine' /\ OwnersBusy' /\ ItemTakenOnce'
  BY <1>1 DEF Base, LocksFine, LockFine, OwnersBusy, ItemTakenOnce, HasActiveOperation,
     Active, OpOf, RowOf, Mine, At
<1> QED
  BY <1>2, <1>3, <1>4 DEF Base

(* The executor and a pass, with an operation in hand.                     *)
LEMMA WorkingStep ==
    ASSUME Base, NEW a \in Actors, Work(a), ~ChooseTrash(a), ~Plan(a), ~Admit(a) PROVE Step(a)
<1>1. CASE Publish(a) \/ CopyBegins(a) \/ CopyEnds(a) \/ LinkTemp(a) \/ UnlinkTemp(a)
  BY <1>1, PublishStep, CopyBeginsStep, CopyEndsStep, LinkTempStep
<1>2. CASE Apply(a) \/ PointAndApply(a) \/ CheckLease(a) \/ UnlinkOrigin(a) \/ SweepTemp(a)
  BY <1>2, ApplyStep, PointStep, CheckLeaseStep, UnlinkStep
<1>3. CASE Finish(a) \/ Collide(a) \/ RecordError(a)
  BY <1>3, FinishStep, ErrorStep
<1>4. CASE \/ BuildManifest(a) \/ AttemptChild(a) \/ EraseChild(a) \/ RecordChild(a)
           \/ Converge(a) \/ ApplyPurge(a)
  BY <1>4, ManifestStep, ChildStep, ConvergeStep, ApplyPurgeStep
<1>5. CASE Reconcile(a)
  BY <1>5, InspectStep, ActStep DEF Reconcile
<1> QED
  BY <1>1, <1>2, <1>3, <1>4, <1>5 DEF Work, Execute

(* Every step of an actor is a Step, or begins something.                  *)
LEMMA WorkStep ==
    ASSUME Base, NEW a \in Actors, Request(a) \/ Work(a) \/ Stumble(a) \/ Crash(a)
    PROVE  Step(a) \/ (Base' /\ OpOf(a) = 0 /\ OthersStay(a))
<1>1. CASE Request(a)
  BY <1>1, AskStep, PurgeStep DEF Request
<1>2. CASE Work(a)
  BY <1>2, ChooseStep, PlanStep, AdmitStep, WorkingStep
<1>3. CASE Stumble(a) \/ Crash(a)
  BY <1>3, StumbleStep, CrashStep
<1> QED
  BY <1>1, <1>2, <1>3

(* The common invariant holds at first.                                    *)
LEMMA BaseInit == Init => Base
<1> SUFFICES ASSUME Init PROVE Base
  OBVIOUS
<1>1. NoRow \in RowType /\ NoRow.kind = "none" /\ NoRow.held = NoOne
  BY DEF NoRow, RowType, Kind, OperationState
<1>2. NoManifest \in [Part -> PartStatus]
  BY DEF NoManifest, PartStatus
<1>3. env \in EnvType
  <2>1. MaxRequests \in 0..MaxRequests /\ MaxTrouble \in 0..MaxTrouble
    BY MediaAssumption
  <2> QED
    BY <2>1 DEF Init, EnvType
<1>4. TypeOK
  BY <1>1, <1>2, <1>3, IdleFacts, PathsDiffer DEF TypeOK, Init, Content
<1>5. \A a \in Actors : actors[a] = Idle
  BY DEF Init
<1>6. \A o \in Op : ops[o] = NoRow /\ ~Active(o)
  BY <1>1 DEF Init, Active
<1>7. ActorsFine
  BY <1>5, IdleFacts DEF ActorsFine, ActorFine, MovePoint, PurgePoint, Terminal
<1>8. RowsFine
  BY <1>1, <1>6 DEF RowsFine, RowFine
<1>9. PointerFine
  BY PathsDiffer DEF PointerFine, Init, Placed
<1>10. LocksFine
  BY <1>1, <1>5, <1>6, IdleFacts DEF LocksFine, LockFine, At
<1>11. OwnersBusy
  BY <1>5, IdleFacts DEF OwnersBusy, OpOf
<1>12. ItemTakenOnce
  BY <1>6 DEF ItemTakenOnce, Init
<1> QED
  BY <1>4, <1>7, <1>8, <1>9, <1>10, <1>11, <1>12 DEF Base

(* The common invariant is kept by every step.                             *)
LEMMA BaseNext == Base /\ [Next]_vars => Base'
<1> SUFFICES ASSUME Base, [Next]_vars PROVE Base'
  OBVIOUS
<1>1. CASE \E a \in Actors : Request(a) \/ Work(a) \/ Stumble(a) \/ Crash(a)
  <2>1. PICK a \in Actors : Request(a) \/ Work(a) \/ Stumble(a) \/ Crash(a)
    BY <1>1
  <2> QED
    BY <2>1, WorkStep, FrameKeepsBase DEF Step
<1>2. CASE \E a \in Actors, o \in Op : Claim(a, o)
  BY <1>2, ClaimStep, FrameKeepsBase DEF Step
<1>3. CASE \E o \in Op : LeaseExpires(o) \/ RetryDue(o)
  BY <1>3, TimeStep
<1>4. CASE RunEnds \/ RunReopens \/ Outside \/ Rest \/ UNCHANGED vars
  BY <1>4, OtherStep DEF Rest
<1> QED
  BY <1>1, <1>2, <1>3, <1>4 DEF Next

(* The journal of one recording: what is where, who works on what, whose   *)
(* lock a row lock is, and that the item is taken at most once, by an      *)
(* operation or an admitted run.  Ended runs queued again are not excluded *)
(* (RunReopens), and nothing here rests on their absence.                  *)
THEOREM MediaInvariant == Spec => []Base
BY BaseInit, BaseNext, PTL DEF Spec

(* Every variable of the journal stays in its type.                        *)
THEOREM MediaTypeCorrect == Spec => []TypeOK
<1>1. Base => TypeOK
  BY DEF Base
<1> QED
  BY <1>1, MediaInvariant, PTL

(* However requests, passes, deaths, lost leases and runs queued again     *)
(* interleave, at most one operation of an item is in flight, and none     *)
(* beside a run that a submit admitted.                                    *)
THEOREM ItemIsTakenOnce == Spec => []ItemTakenOnce
<1>1. Base => ItemTakenOnce
  BY DEF Base
<1> QED
  BY <1>1, MediaInvariant, PTL

(* An actor that lost its operation writes neither its state nor the       *)
(* recording's row.                                                        *)
THEOREM StaleActorIsSilent == Spec => StaleActorWritesNothing
<1> DEFINE Silent ==
               \A a \in Actors :
                   /\ actors'[a] # actors[a] /\ OpOf(a) # 0
                   /\ RowOf(a).owner # a /\ ~At(a, "rescue")
                   => media' = media /\ ops'[OpOf(a)].state = RowOf(a).state
<1>1. Base /\ [Next]_vars => [Silent]_vars
  <2> SUFFICES ASSUME Base, [Next]_vars, NEW a \in Actors,
                      actors'[a] # actors[a], OpOf(a) # 0,
                      RowOf(a).owner # a, ~At(a, "rescue")
               PROVE  media' = media /\ ops'[OpOf(a)].state = RowOf(a).state
    OBVIOUS
  <2>1. TypeOK /\ OpOf(a) \in Op
    BY DEF Base, TypeOK, ActorType, OpOf
  <2>2. ASSUME NEW b \in Actors, Step(b) PROVE b = a
    BY <2>2 DEF Step, Frame, OthersStay
  <2>3. ASSUME Step(a) PROVE media' = media /\ ops'[OpOf(a)].state = RowOf(a).state
    BY <2>1, <2>3 DEF Step, Frame, RowsStep, RowOf
  <2>4. CASE \E b \in Actors : Request(b) \/ Work(b) \/ Stumble(b) \/ Crash(b)
    <3>1. PICK b \in Actors : Request(b) \/ Work(b) \/ Stumble(b) \/ Crash(b)
      BY <2>4
    <3>2. b = a
      BY <2>1, <3>1, WorkStep DEF Step, Frame, OthersStay
    <3> QED
      BY <2>3, <3>1, <3>2, WorkStep
  <2>5. CASE \E b \in Actors, o \in Op : Claim(b, o)
    BY <2>2, <2>3, <2>5, ClaimStep
  <2>6. CASE \E o \in Op : LeaseExpires(o) \/ RetryDue(o)
    BY <2>6 DEF LeaseExpires, RetryDue
  <2>7. CASE RunEnds \/ RunReopens \/ Outside \/ Rest \/ UNCHANGED vars
    BY <2>7 DEF RunEnds, RunReopens, Outside, Rest, vars
  <2> QED
    BY <2>4, <2>5, <2>6, <2>7 DEF Next
<1> QED
  BY <1>1, MediaInvariant, PTL DEF Spec, StaleActorWritesNothing

-----------------------------------------------------------------------------
(* The copies: what a step does to the files and the pointer.              *)

\* Files appear, and the copies that were being written are completed.
Filled ==
    \A p \in Path :
        \/ files'[p] = files[p]
        \/ files[p] \in {"none", "partial"} /\ files'[p] \in {"partial", "recording"}

\* What an actor may unlink: the origin of a move it finished, or a temporary
\* file that the operation's owner does not need.
Spare(a, p) ==
    /\ OpOf(a) \in Op
    /\ \/ /\ p = RowOf(a).origin
          /\ Mine(a) /\ Active(OpOf(a)) /\ media.path = RowOf(a).dest
       \/ /\ p = Temp(OpOf(a))
          /\ Mine(a) \/ files[RowOf(a).dest] # "none" \/ ~Active(OpOf(a))

FilesStep(a) == Filled \/ \E p \in Path : Spare(a, p) /\ files' = FilePut(p, "none")

\* The pointer moves onto a copy, from the origin of its owner's move.
PointerStep(a) ==
    media'.path # media.path =>
        /\ OpOf(a) \in Op /\ Mine(a) /\ Active(OpOf(a))
        /\ media.path = RowOf(a).origin /\ media'.path = RowOf(a).dest
        /\ Copied(RowOf(a).dest) /\ UNCHANGED files

\* A live lease stays where it is, and only Apply makes an operation fs_applied.
KeptRows(a) ==
    \A p \in Op :
        /\ ops[p].owner \notin {a, NoOne} /\ ops[p].live =>
               ops'[p].owner = ops[p].owner /\ ops'[p].live
        /\ ops'[p].lost => ops[p].lost
        /\ ops'[p].state = "fs_applied" =>
               ops[p].state = "fs_applied" \/ (p = OpOf(a) /\ At(a, "apply") /\ Mine(a))

CopiesStep(a) ==
    /\ FilesStep(a)
    /\ PointerStep(a)
    /\ KeptRows(a)
    /\ PublishFine(a)' /\ CleanFine(a)' /\ DecideFine(a)'

(* While the promise holds, every operation is a move between two places.  *)
LEMMA FreeMoves ==
    ASSUME Base, ~Freed, NEW o \in Op, ops[o].kind # "none"
    PROVE  /\ Move(o) /\ Placed(ops[o].origin) /\ Placed(ops[o].dest)
           /\ ops[o].origin \in Path /\ ops[o].dest \in Path /\ ops[o].origin # ops[o].dest
           /\ \A k \in Op : ops[o].dest # Temp(k) /\ ops[o].origin # Temp(k)
<1>1. ops[o].kind \in Kind /\ ops[o].kind # "purge" /\ RowFine(o)
  BY DEF Base, TypeOK, RowType, RowsFine, Freed, PurgePlanned
<1>2. Move(o) /\ Placed(ops[o].origin) /\ Placed(ops[o].dest)
  BY <1>1 DEF Move, Kind, RowFine, Placed
<1>3. ops[o].origin # ops[o].dest
  BY <1>1, <1>2 DEF RowFine, Move, Freed, InPlace
<1> QED
  BY <1>2, <1>3, PlacedIsPath

(* The actor's step keeps what the rest of the system counts on.           *)
LEMMA CopiesKept ==
    ASSUME Base, TypeOK', ~Freed, Copying, NEW a \in Actors, Frame(a), CopiesStep(a)
    PROVE  Copying'
<1>1. /\ FilesStep(a) /\ PointerStep(a) /\ KeptRows(a)
      /\ OthersStay(a) /\ RowsStep(a) /\ OldRows
  BY DEF CopiesStep, Frame
<1>2. /\ TypeOK /\ \A o, p \in Op : Active(o) /\ Active(p) => o = p
      /\ \A b \in Actors : OpOf(b) # 0 /\ Mine(b) => Active(OpOf(b))
  BY DEF Base, ItemTakenOnce, OwnersBusy
<1>3. Placed(media.path) /\ media.path \in Path /\ \A k \in Op : media.path # Temp(k)
  <2>1. Nowhere \notin Path
    BY DEF Path, Nowhere, Home, Derived, Trash, Temp
  <2>2. media.path \in Path
    BY DEF Copying, Copied
  <2> QED
    BY <2>1, <2>2, PlacedIsPath DEF Base, PointerFine
<1>4. \A p \in Path : files'[p] # "foreign"
  BY <1>1, <1>2 DEF FilesStep, Filled, FilePut, Copying, TypeOK
<1>5. ASSUME NEW p \in Path, \A k \in Op : p # Temp(k),
             ASSUME OpOf(a) \in Op, Active(OpOf(a)), media.path = RowOf(a).dest
             PROVE  p # RowOf(a).origin
      PROVE  /\ files[p] = "recording" => files'[p] = "recording"
             /\ files[p] # "none" => files'[p] # "none"
  BY <1>1, <1>2, <1>5 DEF FilesStep, Filled, Spare, FilePut, TypeOK
<1>6. ASSUME OpOf(a) \in Op, Active(OpOf(a)) PROVE RowOf(a).origin # RowOf(a).dest
  BY <1>6, FreeMoves DEF Active, RowOf
<1>7. files'[media'.path] = "recording" /\ media'.path \in Path
  <2>1. CASE media'.path = media.path
    <3>1. files[media.path] = "recording"
      BY DEF Copying, Copied
    <3>2. PICK p \in Path : p = media.path
      BY <1>3
    <3>3. files'[p] = "recording"
      BY <1>3, <1>5, <1>6, <3>1, <3>2
    <3> QED
      BY <1>3, <2>1, <3>2, <3>3
  <2>2. CASE media'.path # media.path
    BY <1>1, <2>2 DEF PointerStep, Copied
  <2> QED
    BY <2>1, <2>2
<1>8. ASSUME NEW o \in Op, Active(o)
      PROVE  LET d == ops[o].dest
             IN /\ ops'[o].dest = d /\ ops'[o].origin = ops[o].origin /\ d \in Path
                /\ files[d] = "recording" => files'[d] = "recording"
                /\ files[d] # "none" => files'[d] # "none"
  <2>1. /\ ops[o].dest \in Path /\ \A k \in Op : ops[o].dest # Temp(k)
        /\ ops[o].origin # ops[o].dest
    BY <1>8, FreeMoves DEF Active
  <2>2. ASSUME OpOf(a) \in Op, Active(OpOf(a)) PROVE ops[o].dest # RowOf(a).origin
    BY <1>2, <1>8, <2>1, <2>2 DEF RowOf
  <2>3. ops'[o].dest = ops[o].dest /\ ops'[o].origin = ops[o].origin
    BY <1>1 DEF OldRows
  <2>4. PICK p \in Path : p = ops[o].dest
    BY <2>1
  <2>5. /\ files[p] = "recording" => files'[p] = "recording"
        /\ files[p] # "none" => files'[p] # "none"
    BY <1>5, <2>1, <2>2, <2>4
  <2> QED
    BY <2>1, <2>3, <2>4, <2>5
<1>9. ASSUME NEW b \in Actors, b # a, OpOf(b) # 0, Mine(b)'
      PROVE  /\ Mine(b) /\ OpOf(b) \in Op /\ Active(OpOf(b)) /\ media'.path = media.path
             /\ (OpOf(a) = OpOf(b) => ~Mine(a)) /\ (Active(OpOf(a)) /\ OpOf(a) \in Op => OpOf(a) = OpOf(b))
  <2>1. actors'[b] = actors[b] /\ OpOf(b) \in Op
    BY <1>1, <1>2, <1>9 DEF OthersStay, OpOf, TypeOK, ActorType
  <2>2. Mine(b)
    BY <1>1, <1>9, <2>1 DEF RowsStep, Mine, RowOf, OpOf
  <2>3. Active(OpOf(b))
    BY <1>2, <1>9, <2>2
  <2>4. OpOf(a) = OpOf(b) => ~Mine(a)
    BY <1>9, <2>2 DEF Mine, RowOf
  <2>5. Active(OpOf(a)) /\ OpOf(a) \in Op => OpOf(a) = OpOf(b)
    BY <1>2, <2>1, <2>3
  <2> QED
    BY <1>1, <2>1, <2>2, <2>3, <2>4, <2>5 DEF PointerStep
<1>10. ASSUME NEW b \in Actors PROVE PublishFine(b)' /\ CleanFine(b)' /\ DecideFine(b)'
  <2>1. CASE b = a
    BY <2>1 DEF CopiesStep
  <2>2. CASE b # a
    <3>1. /\ actors'[b] = actors[b] /\ actors[b] \in ActorType
          /\ PublishFine(b) /\ CleanFine(b) /\ DecideFine(b)
      BY <1>1, <1>2, <2>2 DEF OthersStay, Copying, TypeOK
    <3>2. \A pc : (At(b, pc)' <=> At(b, pc))
      BY <3>1 DEF At
    <3>3. CASE actors[b].pc \in MovePoint
      <4>1. PICK o \in Op : o = OpOf(b) /\ o # 0 /\ ops[o].kind # "none"
        BY <3>3, MoveInHand, OpsAreNumbers
      <4>2. RowOf(b) = ops[o] /\ RowOf(b)' = ops'[o] /\ OpOf(b)' = o
        BY <3>1, <4>1 DEF RowOf, OpOf
      <4>3. ops'[o].dest = ops[o].dest /\ ops'[o].origin = ops[o].origin
        BY <1>1 DEF OldRows
      <4>4. Active(o)' => Active(o)
        BY <1>1 DEF OldRows
      <4>5. Active(o) => /\ Copied(ops[o].dest) => files'[ops[o].dest] = "recording"
                         /\ files[ops[o].dest] # "none" => files'[ops[o].dest] # "none"
                         /\ ops[o].dest \in Path
        BY <1>8 DEF Copied
      <4>6. ASSUME ops'[o].owner = b
            PROVE  /\ ops[o].owner = b /\ Active(o) /\ media'.path = media.path
                   /\ (OpOf(a) = o => ~Mine(a))
        BY <1>9, <2>2, <4>1, <4>2, <4>6 DEF Mine
      <4>7. PublishFine(b)'
        <5>1. At(b, "link")' /\ Mine(b)' /\ FromPointer(b)' =>
                  files'[ops[o].dest] # "none" \/ files'[Temp(o)] = "recording"
          <6> SUFFICES ASSUME At(b, "link"), ops'[o].owner = b, media'.path = ops[o].origin
                       PROVE  files'[ops[o].dest] # "none" \/ files'[Temp(o)] = "recording"
            BY <3>1, <4>2, <4>3 DEF At, Mine, FromPointer
          <6>1. files[ops[o].dest] # "none" \/ files[Temp(o)] = "recording"
            BY <3>1, <4>1, <4>2, <4>6 DEF PublishFine, Mine, FromPointer, Copied
          <6>2. Active(o) /\ ops[o].owner = b /\ (OpOf(a) = o => ~Mine(a))
            BY <4>6
          <6>3. CASE files[ops[o].dest] # "none"
            BY <4>5, <6>2, <6>3
          <6>4. CASE files[Temp(o)] = "recording" /\ files[ops[o].dest] = "none"
            <7>1. Temp(o) \in Path
              BY PathsDiffer
            <7>2. ASSUME Spare(a, Temp(o)) PROVE FALSE
              <8>1. OpOf(a) = o
                <9>1. OpOf(a) \in Op
                  BY <7>2 DEF Spare
                <9>2. Active(OpOf(a)) => Temp(o) # RowOf(a).origin
                  BY <9>1, FreeMoves DEF Active, RowOf
                <9> QED
                  BY <7>2, <9>1, <9>2, PathsDiffer DEF Spare
              <8>2. Temp(o) # RowOf(a).origin /\ RowOf(a) = ops[o]
                BY <4>1, <8>1, FreeMoves DEF RowOf
              <8> QED
                BY <6>2, <6>4, <7>2, <8>1, <8>2 DEF Spare
            <7> QED
              BY <1>1, <1>2, <6>4, <7>1, <7>2 DEF FilesStep, Filled, FilePut, TypeOK
          <6> QED
            BY <6>1, <6>3, <6>4
        <5>2. At(b, "unstage")' /\ Active(OpOf(b))' => files'[ops[o].dest] # "none"
          BY <3>1, <3>2, <4>1, <4>2, <4>4, <4>5 DEF PublishFine
        <5>3. (actors[b].pc \in {"unstage", "apply", "point"})' /\ Mine(b)' /\ FromPointer(b)' =>
                  files'[ops[o].dest] = "recording"
          BY <3>1, <4>1, <4>2, <4>3, <4>5, <4>6 DEF PublishFine, Mine, FromPointer
        <5>4. /\ At(b, "stage")' => actors'[b].view.origin \in {"recording", "partial"}
              /\ At(b, "stage")' /\ Mine(b)' /\ FromPointer(b)' =>
                     actors'[b].view.origin = "recording"
          BY <3>1, <3>2, <4>1, <4>2, <4>3, <4>6 DEF PublishFine, Mine, FromPointer
        <5>5. Temp(o) \in Path /\ ops[o].dest \in Path
          BY <4>1, PathsDiffer, FreeMoves
        <5> QED
          BY <4>2, <4>3, <5>1, <5>2, <5>3, <5>4, <5>5 DEF PublishFine, Copied
      <4>8. CleanFine(b)'
        <5>1. At(b, "check")' /\ Mine(b)' => media'.path = RowOf(b)'.dest
          BY <3>1, <3>2, <4>2, <4>3, <4>6 DEF CleanFine, Mine
        <5>2. ASSUME actors[b].pc \in {"clean", "sweep"}
              PROVE  ops'[o].owner = b /\ ops'[o].live /\ media'.path = ops'[o].dest
          <6>1. ops[o].owner = b /\ ops[o].live /\ media.path = ops[o].dest
            BY <3>1, <4>2, <5>2 DEF CleanFine, Mine
          <6>2. ops'[o].owner = b /\ ops'[o].live
            BY <1>1, <2>2, <6>1, MediaAssumption DEF KeptRows
          <6> QED
            BY <4>3, <4>6, <6>1, <6>2
        <5> QED
          BY <3>1, <4>2, <5>1, <5>2 DEF CleanFine, Mine
      <4>9. DecideFine(b)'
        <5> SUFFICES ASSUME At(b, "decide") PROVE DecideFine(b)'
          BY <3>2 DEF DecideFine
        <5>1. ops[o].held = b /\ Active(o) /\ ops[o].owner = b
          BY <4>2, MediaAssumption DEF Base, LocksFine, LockFine
        <5>2. ops'[o] = ops[o]
          BY <1>1, <2>2, <5>1, MediaAssumption DEF RowsStep, Open
        <5>3. media'.path = media.path
          BY <4>6, <5>1, <5>2
        <5>4. PointerOf(ops[o])' = PointerOf(ops[o]) /\ Reentered(ops[o])' = Reentered(ops[o])
          BY <5>2, <5>3 DEF PointerOf, Reentered
        <5>5. /\ PointerOf(RowOf(b))' = PointerOf(RowOf(b))
              /\ Reentered(RowOf(b))' = Reentered(RowOf(b))
          BY <4>2, <5>2, <5>3 DEF PointerOf, Reentered
        <5>6. actors[b].view.dest = "recording" => Copied(RowOf(b).dest)'
          BY <3>1, <4>2, <4>5, <5>1, <5>2 DEF DecideFine, Copied
        <5> QED
          BY <3>1, <5>5, <5>6 DEF DecideFine
      <4> QED
        BY <4>7, <4>8, <4>9
    <3>4. CASE actors[b].pc \notin MovePoint
      BY <3>1, <3>4 DEF At, MovePoint, PublishFine, CleanFine, DecideFine
    <3> QED
      BY <3>3, <3>4
  <2> QED
    BY <2>1, <2>2
<1>11. ASSUME NEW o \in Op PROVE AppliedFine(o)'
  <2>1. ~ops'[o].lost
    BY <1>1 DEF KeptRows, Copying, AppliedFine
  <2>2. ASSUME Active(o)', ops'[o].state = "fs_applied", media'.path = ops'[o].origin
        PROVE  Copied(ops[o].dest)' /\ ops'[o].dest = ops[o].dest
    <3>1. Active(o)
      BY <1>1, <2>2 DEF OldRows
    <3>2. /\ ops'[o].dest = ops[o].dest /\ ops'[o].origin = ops[o].origin /\ ops[o].dest \in Path
          /\ files[ops[o].dest] = "recording" => files'[ops[o].dest] = "recording"
      BY <1>8, <3>1
    <3>3. media'.path = media.path
      <4>1. ops[o].origin # ops[o].dest
        BY <3>1, FreeMoves DEF Active
      <4> QED
        BY <1>1, <1>2, <2>2, <3>1, <3>2, <4>1 DEF PointerStep, RowOf
    <3>4. CASE ops[o].state = "fs_applied"
      <4>1. files[ops[o].dest] = "recording"
        BY <2>2, <3>1, <3>2, <3>3, <3>4 DEF Copying, AppliedFine, Copied
      <4> QED
        BY <3>2, <4>1 DEF Copied
    <3>5. CASE o = OpOf(a) /\ At(a, "apply") /\ Mine(a)
      <4>1. files[ops[o].dest] = "recording"
        BY <2>2, <3>2, <3>3, <3>5 DEF Copying, PublishFine, FromPointer, RowOf, Copied, At
      <4> QED
        BY <3>2, <4>1 DEF Copied
    <3> QED
      BY <1>1, <2>2, <3>4, <3>5 DEF KeptRows
  <2> QED
    BY <2>1, <2>2 DEF AppliedFine, Copied
<1> QED
  BY <1>4, <1>7, <1>10, <1>11 DEF Copying, Copied
\* Where the copies say something of an actor.
CopyPoint == {"stage", "link", "unstage", "apply", "point", "check", "clean", "sweep", "decide"}

(* Elsewhere they say nothing.                                             *)
LEMMA QuietActor ==
    ASSUME NEW a \in Actors, actors'[a].pc \notin CopyPoint
    PROVE  PublishFine(a)' /\ CleanFine(a)' /\ DecideFine(a)'
BY DEF CopyPoint, PublishFine, CleanFine, DecideFine, At

(* What is not written is kept.                                            *)
LEMMA NothingMoved ==
    ASSUME NEW a \in Actors
    PROVE  /\ UNCHANGED files => FilesStep(a)
           /\ UNCHANGED media => PointerStep(a)
           /\ UNCHANGED ops => KeptRows(a)
BY DEF FilesStep, Filled, PointerStep, KeptRows

(* A row written with its lease and its loss.                              *)
LEMMA RowKept ==
    ASSUME TypeOK, NEW a \in Actors, NEW o \in Op, NEW row \in RowType, SetRow(o, row),
           \/ row.owner = ops[o].owner /\ row.live = ops[o].live
           \/ ops[o].owner \in {a, NoOne} \/ ~ops[o].live,
           row.lost => ops[o].lost,
           row.state = "fs_applied" =>
               ops[o].state = "fs_applied" \/ (o = OpOf(a) /\ At(a, "apply") /\ Mine(a))
    PROVE  KeptRows(a)
<1>1. ops'[o] = row /\ \A p \in Op : p # o => ops'[p] = ops[p]
  BY SetRowFacts
<1> QED
  BY <1>1 DEF KeptRows

(* A rollback keeps the rows.                                              *)
LEMMA RollbackKept ==
    ASSUME TypeOK, NEW a \in Actors, NEW o \in Op, OpOf(a) = o, Rollback(a)
    PROVE  KeptRows(a)
<1>1. PICK row \in RowType :
          /\ SetRow(o, row) /\ row.owner = ops[o].owner /\ row.live = ops[o].live
          /\ row.lost = ops[o].lost /\ row.state = ops[o].state
  BY RollbackFacts
<1> QED
  BY <1>1, RowKept

(* So does a compare-and-set, won or lost.                                 *)
LEMMA TransitionKept ==
    ASSUME TypeOK, NEW a \in Actors, NEW o \in Op, OpOf(a) = o, NEW from, NEW row \in RowType,
           NEW then, Transition(a, from, row, then),
           row.owner = ops[o].owner, row.live = ops[o].live, row.lost => ops[o].lost,
           row.state = "fs_applied" => At(a, "apply")
    PROVE  KeptRows(a)
<1>1. CASE Owns(a, o, from)
  <2>1. SetRow(o, row) /\ Mine(a)
    BY <1>1 DEF Transition, Owns, Mine, RowOf
  <2> QED
    BY <2>1, RowKept
<1>2. CASE ~Owns(a, o, from)
  BY <1>2, RollbackKept DEF Transition
<1> QED
  BY <1>1, <1>2

(* The rows a move commits.                                                *)
LEMMA CommitKept ==
    ASSUME Base, NEW a \in Actors, actors[a].pc \in MovePoint \cup {"finish"},
           NEW from, NEW state \in OperationState, NEW then,
           \/ Transition(a, from, Moved(RowOf(a), state), then)
           \/ state = "awaiting_retry" /\ Transition(a, from, Parked(RowOf(a), FALSE), then),
           state = "fs_applied" => At(a, "apply")
    PROVE  KeptRows(a)
<1>1. TypeOK /\ OpOf(a) \in Op /\ ops[OpOf(a)] \in RowType /\ FALSE \in BOOLEAN
  BY InHand DEF MovePoint, Base
<1> DEFINE row == Moved(ops[OpOf(a)], state)
           parked == Parked(ops[OpOf(a)], FALSE)
<1>2. /\ row \in RowType /\ row.owner = ops[OpOf(a)].owner /\ row.live = ops[OpOf(a)].live
      /\ row.lost = ops[OpOf(a)].lost /\ row.state = state
  BY <1>1, MovedFacts
<1>3. /\ parked \in RowType /\ parked.owner = ops[OpOf(a)].owner
      /\ parked.live = ops[OpOf(a)].live /\ parked.lost = FALSE
      /\ parked.state = "awaiting_retry"
  BY <1>1, ParkedFacts
<1>4. Transition(a, from, row, then) \/ Transition(a, from, parked, then)
  BY DEF RowOf
<1> HIDE DEF row, parked
<1> QED
  BY <1>1, <1>2, <1>3, <1>4, TransitionKept

(* The two places of the move in hand.                                     *)
LEMMA TwoPlaces ==
    ASSUME Base, ~Freed, Copying, NEW a \in Actors, actors[a].pc \in MovePoint
    PROVE  /\ OpOf(a) \in Op /\ ops[OpOf(a)].kind # "none" /\ RowOf(a) = ops[OpOf(a)]
           /\ RowOf(a).origin \in Path /\ RowOf(a).dest \in Path /\ Temp(OpOf(a)) \in Path
           /\ RowOf(a).origin # RowOf(a).dest
           /\ RowOf(a).dest # Temp(OpOf(a)) /\ RowOf(a).origin # Temp(OpOf(a))
           /\ files[RowOf(a).origin] \in {"none", "recording", "partial"}
           /\ files[Temp(OpOf(a))] \in {"none", "recording", "partial"}
           /\ FromPointer(a) => files[RowOf(a).origin] = "recording"
<1>1. OpOf(a) \in Op /\ ops[OpOf(a)].kind # "none" /\ RowOf(a) = ops[OpOf(a)]
  BY MoveInHand DEF RowOf
<1>2. /\ RowOf(a).origin \in Path /\ RowOf(a).dest \in Path /\ Temp(OpOf(a)) \in Path
      /\ RowOf(a).origin # RowOf(a).dest
      /\ RowOf(a).dest # Temp(OpOf(a)) /\ RowOf(a).origin # Temp(OpOf(a))
  BY <1>1, FreeMoves, PathsDiffer
<1>3. \A p \in Path : files[p] \in {"none", "recording", "partial"}
  BY DEF Base, TypeOK, Content, Copying
<1>4. FromPointer(a) => files[RowOf(a).origin] = "recording"
  BY DEF FromPointer, Copying, Copied
<1> QED
  BY <1>1, <1>2, <1>3, <1>4

(* os.link of the origin: the copy at the destination is the origin's.     *)
LEMMA PublishCopies ==
    ASSUME Base, ~Freed, Copying, NEW a \in Actors, Publish(a) PROVE CopiesStep(a)
<1>1. TypeOK /\ At(a, "publish") /\ UNCHANGED <<media, ops>>
  BY DEF Base, Publish, Here
<1>2. actors[a].pc \in MovePoint
  BY <1>1 DEF At, MovePoint
<1> DEFINE row == RowOf(a)
<1>3. /\ OpOf(a) \in Op /\ row = ops[OpOf(a)]
      /\ row.origin \in Path /\ row.dest \in Path
      /\ files[row.origin] \in {"none", "recording", "partial"}
      /\ FromPointer(a) => files[row.origin] = "recording"
  BY <1>2, TwoPlaces
<1>4. KeptRows(a) /\ PointerStep(a)
  BY <1>1, NothingMoved
<1>5. CASE UNCHANGED files /\ \E pc \in {"collide", "give_up", "copy"} : Goto(a, pc)
  <2>1. PICK pc \in {"collide", "give_up", "copy"} : Goto(a, pc)
    BY <1>5
  <2>2. pc \in ProgramPoint /\ pc \notin CopyPoint
    BY <2>1 DEF ProgramPoint, CopyPoint
  <2>3. actors'[a].pc \notin CopyPoint
    BY <1>1, <2>1, <2>2, GotoFacts
  <2> QED
    BY <1>4, <1>5, <2>3, NothingMoved, QuietActor, Zenon DEF CopiesStep
<1>6. CASE /\ files[row.dest] = "none" /\ files[row.origin] # "none"
           /\ files' = FilePut(row.dest, files[row.origin]) /\ Goto(a, "point")
  <2>1. actors'[a].pc = "point" /\ actors'[a].op = actors[a].op
    BY <1>1, <1>6, GotoFacts DEF ProgramPoint
  <2>2. files'[row.dest] = files[row.origin]
        /\ \A p \in Path : p # row.dest => files'[p] = files[p]
    BY <1>1, <1>3, <1>6 DEF FilePut, TypeOK
  <2>3. FilesStep(a)
    BY <1>3, <1>6, <2>2 DEF FilesStep, Filled
  <2>4. RowOf(a)' = row
    BY <1>1, <2>1 DEF RowOf, OpOf
  <2>5. PublishFine(a)' /\ CleanFine(a)' /\ DecideFine(a)'
    BY <1>1, <1>3, <2>1, <2>2, <2>4
       DEF PublishFine, CleanFine, DecideFine, At, FromPointer, Copied
  <2> QED
    BY <1>4, <2>3, <2>5 DEF CopiesStep
<1> QED
  BY <1>5, <1>6 DEF Publish

(* The temporary file is opened.                                           *)
LEMMA CopyBeginsCopies ==
    ASSUME Base, ~Freed, Copying, NEW a \in Actors, CopyBegins(a) PROVE CopiesStep(a)
<1> DEFINE row == RowOf(a)
           temp == Temp(OpOf(a))
           me == [actors[a] EXCEPT !.pc = "stage", !.view.origin = files[row.origin]]
<1>1. TypeOK /\ At(a, "copy") /\ UNCHANGED <<media, ops>>
  BY DEF Base, CopyBegins
<1>2. actors[a].pc \in MovePoint
  BY <1>1 DEF At, MovePoint
<1>3. /\ OpOf(a) \in Op /\ row = ops[OpOf(a)] /\ temp \in Path
      /\ row.origin \in Path /\ row.dest \in Path
      /\ files[row.origin] \in {"none", "recording", "partial"}
      /\ FromPointer(a) => files[row.origin] = "recording"
  BY <1>2, TwoPlaces
<1>4. KeptRows(a) /\ PointerStep(a)
  BY <1>1, NothingMoved
<1>5. CASE UNCHANGED files /\ Goto(a, "give_up")
  <2>1. actors'[a].pc \notin CopyPoint
    BY <1>1, <1>5, GotoFacts DEF ProgramPoint, CopyPoint
  <2> QED
    BY <1>4, <1>5, <2>1, NothingMoved, QuietActor, SMTT(30) DEF CopiesStep
<1>6. CASE files[row.dest] # "none" /\ files' = FilePut(temp, "none") /\ Goto(a, "collide")
  <2>1. actors'[a].pc \notin CopyPoint
    BY <1>1, <1>6, GotoFacts DEF ProgramPoint, CopyPoint
  <2>2. FilesStep(a)
    BY <1>3, <1>6 DEF FilesStep, Spare
  <2> QED
    BY <1>4, <2>1, <2>2, QuietActor DEF CopiesStep
<1>7. CASE /\ files[row.origin] # "none" /\ files[temp] = "none"
           /\ files' = FilePut(temp, "partial") /\ Become(a, me)
  <2>1. /\ me \in ActorType /\ me.pc = "stage" /\ me.op = OpOf(a)
        /\ me.view.origin = files[row.origin]
    <3>1. actors[a] \in ActorType /\ files[row.origin] \in Content
      BY <1>1, <1>3 DEF TypeOK
    <3> QED
      BY <3>1 DEF ActorType, ViewType, ProgramPoint, OpOf
  <2> HIDE DEF me
  <2>2. actors'[a] = me
    BY <1>1, <1>7, <2>1, BecomeFacts
  <2>3. FilesStep(a)
    BY <1>1, <1>3, <1>7 DEF FilesStep, Filled, FilePut, TypeOK
  <2>4. RowOf(a)' = row
    BY <1>1, <2>1, <2>2 DEF RowOf, OpOf
  <2>5. PublishFine(a)' /\ CleanFine(a)' /\ DecideFine(a)'
    BY <1>1, <1>3, <1>7, <2>1, <2>2, <2>4
       DEF PublishFine, CleanFine, DecideFine, At, FromPointer
  <2> QED
    BY <1>4, <2>3, <2>5 DEF CopiesStep
<1> QED
  BY <1>5, <1>6, <1>7 DEF CopyBegins

(* The copy is complete, under the names it still has.                     *)
LEMMA CopyEndsCopies ==
    ASSUME Base, ~Freed, Copying, NEW a \in Actors, CopyEnds(a) PROVE CopiesStep(a)
<1> DEFINE row == RowOf(a)
           temp == Temp(OpOf(a))
<1>1. TypeOK /\ At(a, "stage") /\ UNCHANGED <<media, ops>>
  BY DEF Base, CopyEnds, Here
<1>2. actors[a].pc \in MovePoint
  BY <1>1 DEF At, MovePoint
<1>3. /\ OpOf(a) \in Op /\ row = ops[OpOf(a)] /\ temp \in Path
      /\ row.origin \in Path /\ row.dest \in Path
  BY <1>2, TwoPlaces
<1>4. KeptRows(a) /\ PointerStep(a)
  BY <1>1, NothingMoved
<1>5. actors[a].view.origin \in {"recording", "partial"}
  BY <1>1 DEF Copying, PublishFine
<1>6. PICK names \in SUBSET Path :
          /\ \A p \in names : files[p] = "partial"
          /\ files' = [p \in Path |-> IF p \in names THEN actors[a].view.origin ELSE files[p]]
          /\ Goto(a, IF files'[temp] = "none" THEN "give_up"
                     ELSE IF files'[temp] = "partial" THEN "try_later" ELSE "link")
  BY <1>3 DEF CopyEnds
<1>7. FilesStep(a)
  BY <1>5, <1>6 DEF FilesStep, Filled
<1>8. /\ actors'[a].op = actors[a].op
      /\ actors'[a].pc = IF files'[temp] = "none" THEN "give_up"
                         ELSE IF files'[temp] = "partial" THEN "try_later" ELSE "link"
  <2> DEFINE pc == IF files'[temp] = "none" THEN "give_up"
                     ELSE IF files'[temp] = "partial" THEN "try_later" ELSE "link"
  <2>1. pc \in ProgramPoint
    BY DEF ProgramPoint
  <2> QED
    BY <1>1, <1>6, <2>1, GotoFacts
<1>9. RowOf(a)' = row /\ OpOf(a)' = OpOf(a)
  BY <1>1, <1>8 DEF RowOf, OpOf
<1>10. files'[temp] \notin {"none", "partial"} => files'[temp] = "recording"
  BY <1>1, <1>3, <1>5, <1>6 DEF Copying, TypeOK, Content
<1>11. PublishFine(a)' /\ CleanFine(a)' /\ DecideFine(a)'
  <2>1. actors'[a].pc \in {"give_up", "try_later", "link"}
    BY <1>8
  <2>2. actors'[a].pc = "link" => files'[temp] = "recording"
    BY <1>8, <1>10
  <2> QED
    BY <1>3, <1>9, <2>1, <2>2 DEF PublishFine, CleanFine, DecideFine, At, Copied
<1> QED
  BY <1>4, <1>7, <1>11 DEF CopiesStep

(* The copy gets its own name.                                             *)
LEMMA LinkTempCopies ==
    ASSUME Base, ~Freed, Copying, NEW a \in Actors, LinkTemp(a) PROVE CopiesStep(a)
<1> DEFINE row == RowOf(a)
           temp == Temp(OpOf(a))
<1>1. TypeOK /\ At(a, "link") /\ UNCHANGED <<media, ops>>
  BY DEF Base, LinkTemp, Here
<1>2. actors[a].pc \in MovePoint
  BY <1>1 DEF At, MovePoint
<1>3. /\ OpOf(a) \in Op /\ row = ops[OpOf(a)] /\ temp \in Path
      /\ row.origin \in Path /\ row.dest \in Path
      /\ files[temp] \in {"none", "recording", "partial"}
  BY <1>2, TwoPlaces
<1>4. KeptRows(a) /\ PointerStep(a)
  BY <1>1, NothingMoved, ZenonT(40)
<1>5. CASE UNCHANGED files /\ Goto(a, "give_up")
  <2>1. actors'[a].pc \notin CopyPoint
    BY <1>1, <1>5, GotoFacts DEF ProgramPoint, CopyPoint
  <2> QED
    BY <1>4, <1>5, <2>1, NothingMoved, QuietActor DEF CopiesStep
<1>6. CASE files[row.dest] # "none" /\ files' = FilePut(temp, "none") /\ Goto(a, "collide")
  <2>1. actors'[a].pc \notin CopyPoint
    BY <1>1, <1>6, GotoFacts DEF ProgramPoint, CopyPoint
  <2>2. FilesStep(a)
    BY <1>3, <1>6, ZenonT(40) DEF FilesStep, Spare
  <2> QED
    BY <1>4, <2>1, <2>2, QuietActor DEF CopiesStep
<1>7. CASE /\ files[temp] # "none" /\ files[row.dest] = "none"
           /\ files' = FilePut(row.dest, files[temp]) /\ Goto(a, "unstage")
  <2>1. actors'[a].pc = "unstage" /\ actors'[a].op = actors[a].op
    BY <1>1, <1>7, GotoFacts DEF ProgramPoint
  <2>2. files'[row.dest] = files[temp]
        /\ \A p \in Path : p # row.dest => files'[p] = files[p]
    BY <1>1, <1>3, <1>7 DEF FilePut, TypeOK
  <2>3. FilesStep(a)
    BY <1>3, <1>7, <2>2 DEF FilesStep, Filled
  <2>4. RowOf(a)' = row
    BY <1>1, <2>1 DEF RowOf, OpOf
  <2>5. Mine(a) /\ FromPointer(a) => files[temp] = "recording"
    BY <1>1, <1>7 DEF Copying, PublishFine, Copied
  <2>6. PublishFine(a)' /\ CleanFine(a)' /\ DecideFine(a)'
    BY <1>1, <1>3, <1>7, <2>1, <2>2, <2>4, <2>5
       DEF PublishFine, CleanFine, DecideFine, At, FromPointer, Copied, Mine
  <2> QED
    BY <1>4, <2>3, <2>6 DEF CopiesStep
<1> QED
  BY <1>5, <1>6, <1>7 DEF LinkTemp

(* The temporary name goes.                                                *)
LEMMA UnlinkTempCopies ==
    ASSUME Base, ~Freed, Copying, NEW a \in Actors, UnlinkTemp(a) PROVE CopiesStep(a)
<1> DEFINE row == RowOf(a)
           temp == Temp(OpOf(a))
<1>1. TypeOK /\ At(a, "unstage") /\ UNCHANGED <<media, ops>>
  BY DEF Base, UnlinkTemp, Here
<1>2. actors[a].pc \in MovePoint
  BY <1>1 DEF At, MovePoint
<1>3. /\ OpOf(a) \in Op /\ row = ops[OpOf(a)] /\ temp \in Path
      /\ row.origin \in Path /\ row.dest \in Path /\ row.dest # temp
  BY <1>2, TwoPlaces
<1>4. KeptRows(a) /\ PointerStep(a)
  BY <1>1, NothingMoved, ZenonT(40)
<1>5. CASE UNCHANGED files /\ Goto(a, "give_up")
  <2>1. actors'[a].pc \notin CopyPoint
    BY <1>1, <1>5, GotoFacts DEF ProgramPoint, CopyPoint
  <2> QED
    BY <1>4, <1>5, <2>1, NothingMoved, QuietActor DEF CopiesStep
<1>6. CASE files' = FilePut(temp, "none") /\ Goto(a, "apply")
  <2>1. actors'[a].pc = "apply" /\ actors'[a].op = actors[a].op
    BY <1>1, <1>6, GotoFacts DEF ProgramPoint
  <2>2. FilesStep(a)
    BY <1>1, <1>3, <1>6 DEF FilesStep, Spare, Copying, PublishFine
  <2>3. RowOf(a)' = row /\ files'[row.dest] = files[row.dest]
    BY <1>1, <1>3, <1>6, <2>1 DEF RowOf, OpOf, FilePut, TypeOK
  <2>4. Mine(a) /\ FromPointer(a) => files[row.dest] = "recording"
    BY <1>1 DEF Copying, PublishFine, Copied, At
  <2>5. PublishFine(a)' /\ CleanFine(a)' /\ DecideFine(a)'
    BY <1>1, <1>3, <2>1, <2>3, <2>4
       DEF PublishFine, CleanFine, DecideFine, At, FromPointer, Copied, Mine
  <2> QED
    BY <1>4, <2>2, <2>5 DEF CopiesStep
<1> QED
  BY <1>5, <1>6 DEF UnlinkTemp

(* fs_applied: the copy is at the destination.                             *)
LEMMA ApplyCopies ==
    ASSUME Base, ~Freed, Copying, NEW a \in Actors, Apply(a) PROVE CopiesStep(a)
<1> DEFINE row == RowOf(a)
           me == [actors[a] EXCEPT !.pc = "point", !.from = "fs_applied"]
           fresh == Moved(row, "fs_applied")
<1>1. /\ TypeOK /\ At(a, "apply") /\ UNCHANGED <<media, files>>
      /\ Transition(a, "planned", fresh, me)
  BY DEF Base, Apply, Quietly
<1>2. actors[a].pc \in MovePoint
  BY <1>1 DEF At, MovePoint
<1>3. /\ OpOf(a) \in Op /\ row = ops[OpOf(a)] /\ row.dest \in Path
  BY <1>2, TwoPlaces
<1>4. "fs_applied" \in OperationState
  BY DEF OperationState
<1>5. KeptRows(a)
  BY <1>1, <1>2, <1>4, CommitKept
<1>6. FilesStep(a) /\ PointerStep(a)
  BY <1>1, NothingMoved
<1>7. CASE Leave(a)
  BY <1>1, <1>5, <1>6, <1>7, LeaveFacts, IdleFacts, QuietActor DEF CopiesStep, CopyPoint
<1>8. CASE SetRow(OpOf(a), fresh) /\ Become(a, me) /\ Owns(a, OpOf(a), "planned")
  <2>1. me \in ActorType /\ me.pc = "point" /\ me.op = OpOf(a)
    <3>1. actors[a] \in ActorType
      BY <1>1 DEF TypeOK
    <3> QED
      BY <1>4, <3>1 DEF ActorType, ProgramPoint, OpOf
  <2> HIDE DEF me
  <2>2. actors'[a] = me
    BY <1>1, <1>8, <2>1, BecomeFacts
  <2>3. fresh \in RowType /\ fresh.origin = row.origin /\ fresh.dest = row.dest
    BY <1>1, <1>3, <1>4, MovedFacts DEF TypeOK
  <2>4. ops'[OpOf(a)] = fresh
    BY <1>1, <1>3, <1>8, <2>3, SetRowFacts
  <2>5. RowOf(a)' = fresh
    BY <2>1, <2>2, <2>4 DEF RowOf, OpOf
  <2>6. FromPointer(a) => files[row.dest] = "recording"
    BY <1>1, <1>8 DEF Copying, PublishFine, Copied, At, Owns, Mine, RowOf
  <2>7. PublishFine(a)' /\ CleanFine(a)' /\ DecideFine(a)'
    BY <1>1, <1>3, <2>1, <2>2, <2>3, <2>5, <2>6
       DEF PublishFine, CleanFine, DecideFine, At, FromPointer, Copied
  <2> QED
    BY <1>5, <1>6, <2>7 DEF CopiesStep
<1> QED
  BY <1>1, <1>7, <1>8 DEF Transition

(* The pointer moves onto the copy.                                        *)
LEMMA PointCopies ==
    ASSUME Base, ~Freed, Copying, NEW a \in Actors, PointAndApply(a) PROVE CopiesStep(a)
<1> DEFINE row == RowOf(a)
           from == actors[a].from
           me == [actors[a] EXCEPT !.pc = "check", !.from = "db_applied"]
           moved == Moved(row, "db_applied")
           owns == Owns(a, OpOf(a), from)
<1>1. TypeOK /\ At(a, "point") /\ UNCHANGED files
  BY DEF Base, PointAndApply, Quietly
<1>2. actors[a].pc \in MovePoint
  BY <1>1 DEF At, MovePoint
<1>3. /\ OpOf(a) \in Op /\ row = ops[OpOf(a)] /\ row.dest \in Path
      /\ ops[OpOf(a)].kind # "none" /\ from \notin Terminal
  BY <1>2, TwoPlaces, MoveInHand
<1>4. "db_applied" \in OperationState /\ "failed" \in OperationState
  BY DEF OperationState, Terminal
<1>5. FilesStep(a)
  BY <1>1, NothingMoved
<1>6. CASE UNCHANGED media /\ Transition(a, from, Moved(row, "failed"), Idle)
  <2>1. Leave(a)
    BY <1>6 DEF Transition, Leave
  <2>2. KeptRows(a)
    BY <1>2, <1>4, <1>6, CommitKept
  <2> QED
    BY <1>1, <1>5, <1>6, <2>1, <2>2, NothingMoved, LeaveFacts, IdleFacts, QuietActor
       DEF CopiesStep, CopyPoint
<1>7. CASE /\ media.path = row.origin /\ media' = (IF owns THEN MoveTo(row) ELSE media)
           /\ Transition(a, from, moved, me)
  <2>1. KeptRows(a)
    BY <1>2, <1>4, <1>7, CommitKept
  <2>2. CASE ~owns
    <3>1. Leave(a) /\ UNCHANGED media
      BY <1>7, <2>2 DEF Transition
    <3> QED
      BY <1>1, <1>5, <2>1, <3>1, NothingMoved, LeaveFacts, IdleFacts, QuietActor
         DEF CopiesStep, CopyPoint
  <2>3. CASE owns
    <3>1. SetRow(OpOf(a), moved) /\ Become(a, me) /\ media' = MoveTo(row)
      BY <1>7, <2>3 DEF Transition
    <3>2. media'.path = row.dest
      BY <1>1, <3>1 DEF MoveTo, TypeOK
    <3>3. Mine(a) /\ Active(OpOf(a)) /\ FromPointer(a)
      BY <1>3, <1>7, <2>3, OwnsActive DEF Mine, FromPointer, RowOf
    <3>4. PointerStep(a)
      BY <1>1, <1>3, <1>7, <3>2, <3>3 DEF PointerStep, Copying, PublishFine, At
    <3>5. me \in ActorType /\ me.pc = "check" /\ me.op = OpOf(a)
      <4>1. actors[a] \in ActorType
        BY <1>1 DEF TypeOK
      <4> QED
        BY <1>4, <4>1 DEF ActorType, ProgramPoint, OpOf
    <3> HIDE DEF me
    <3>6. actors'[a] = me
      BY <1>1, <3>1, <3>5, BecomeFacts
    <3>7. moved \in RowType /\ moved.dest = row.dest
      BY <1>1, <1>3, <1>4, MovedFacts DEF TypeOK
    <3>8. ops'[OpOf(a)] = moved
      BY <1>1, <1>3, <3>1, <3>7, SetRowFacts
    <3>9. RowOf(a)' = moved
      BY <3>5, <3>6, <3>8 DEF RowOf, OpOf
    <3>10. PublishFine(a)' /\ CleanFine(a)' /\ DecideFine(a)'
      BY <3>2, <3>5, <3>6, <3>7, <3>9 DEF PublishFine, CleanFine, DecideFine, At
    <3> QED
      BY <1>5, <2>1, <3>4, <3>10 DEF CopiesStep
  <2> QED
    BY <2>2, <2>3
<1> QED
  BY <1>6, <1>7 DEF PointAndApply

(* The last look at the lease.                                             *)
LEMMA CheckCopies ==
    ASSUME Base, ~Freed, Copying, NEW a \in Actors, CheckLease(a) PROVE CopiesStep(a)
<1>1. TypeOK /\ At(a, "check") /\ UNCHANGED <<media, files>>
  BY DEF Base, CheckLease, Quietly
<1>2. actors[a].pc \in MovePoint
  BY <1>1 DEF At, MovePoint
<1>3. OpOf(a) \in Op /\ RowOf(a) = ops[OpOf(a)]
  BY <1>2, TwoPlaces
<1>4. FilesStep(a) /\ PointerStep(a)
  BY <1>1, NothingMoved
<1>5. CASE Leave(a) /\ Rollback(a)
  BY <1>1, <1>3, <1>4, <1>5, RollbackKept, LeaveFacts, IdleFacts, QuietActor
     DEF CopiesStep, CopyPoint
<1>6. CASE LeaseStillHeld(a, OpOf(a)) /\ Goto(a, "clean") /\ UNCHANGED ops
  <2>1. actors'[a].pc = "clean" /\ actors'[a].op = actors[a].op
    BY <1>1, <1>6, GotoFacts DEF ProgramPoint
  <2>2. RowOf(a)' = RowOf(a)
    BY <1>6, <2>1 DEF RowOf, OpOf
  <2>3. Mine(a) /\ RowOf(a).live /\ media.path = RowOf(a).dest
    BY <1>1, <1>3, <1>6 DEF LeaseStillHeld, Mine, Copying, CleanFine
  <2>4. PublishFine(a)' /\ CleanFine(a)' /\ DecideFine(a)'
    BY <1>1, <2>1, <2>2, <2>3 DEF PublishFine, CleanFine, DecideFine, At, Mine
  <2> QED
    BY <1>4, <1>6, <2>4, NothingMoved, ZenonT(40) DEF CopiesStep
<1> QED
  BY <1>5, <1>6 DEF CheckLease

(* The origin is unlinked, and a leftover temporary file.                  *)
LEMMA UnlinkCopies ==
    ASSUME Base, ~Freed, Copying, NEW a \in Actors, UnlinkOrigin(a) \/ SweepTemp(a)
    PROVE  CopiesStep(a)
<1>1. TypeOK /\ actors[a].pc \in {"clean", "sweep"} /\ UNCHANGED <<media, ops>>
  BY DEF Base, UnlinkOrigin, SweepTemp, Here, At
<1>2. actors[a].pc \in MovePoint
  BY <1>1 DEF MovePoint
<1>3. /\ OpOf(a) \in Op /\ RowOf(a) = ops[OpOf(a)] /\ Temp(OpOf(a)) \in Path
      /\ RowOf(a).origin \in Path
  BY <1>2, TwoPlaces
<1>4. Mine(a) /\ RowOf(a).live /\ media.path = RowOf(a).dest
  BY <1>1 DEF Copying, CleanFine
<1>5. Active(OpOf(a))
  BY <1>3, <1>4, OpsAreNumbers DEF Base, OwnersBusy
<1>6. FilesStep(a)
  BY <1>3, <1>4, <1>5 DEF FilesStep, Spare, UnlinkOrigin, SweepTemp
<1>7. KeptRows(a) /\ PointerStep(a)
  BY <1>1, NothingMoved, ZenonT(40)
<1>8. actors'[a].pc \in {"sweep", "finish"} /\ actors'[a].op = actors[a].op
  BY <1>1, GotoFacts DEF UnlinkOrigin, SweepTemp, ProgramPoint
<1>9. RowOf(a)' = RowOf(a)
  BY <1>1, <1>8 DEF RowOf, OpOf
<1>10. PublishFine(a)' /\ CleanFine(a)' /\ DecideFine(a)'
  BY <1>1, <1>4, <1>8, <1>9 DEF PublishFine, CleanFine, DecideFine, At, Mine
<1> QED
  BY <1>6, <1>7, <1>10 DEF CopiesStep

(* The last commits of a move.                                             *)
LEMMA EndCopies ==
    ASSUME Base, ~Freed, Copying, NEW a \in Actors, Finish(a) \/ Collide(a) \/ RecordError(a)
    PROVE  CopiesStep(a)
<1>1. TypeOK /\ actors[a].pc \in MovePoint \cup {"finish"} /\ UNCHANGED files
  BY DEF Base, Finish, Collide, RecordError, Quietly, At, MovePoint
<1>2. /\ "completed" \in OperationState /\ "failed" \in OperationState
      /\ "awaiting_retry" \in OperationState
  BY DEF OperationState, Terminal
<1>3. \/ \E state \in {"completed", "failed"}, from \in OperationState :
             Transition(a, from, Moved(RowOf(a), state), Idle)
      \/ \E from \in OperationState : Transition(a, from, Parked(RowOf(a), FALSE), Idle)
  <2>1. actors[a].from \in OperationState /\ "planned" \in OperationState
    BY <1>1 DEF TypeOK, ActorType, OperationState
  <2> QED
    BY <2>1 DEF Finish, Collide, RecordError
<1>4. KeptRows(a)
  BY <1>1, <1>2, <1>3, CommitKept
<1>5. Leave(a)
  BY <1>3 DEF Transition, Leave
<1>6. media'.path = media.path
  BY <1>1 DEF Finish, Collide, RecordError, FinalMetadata, TypeOK
<1>7. PublishFine(a)' /\ CleanFine(a)' /\ DecideFine(a)'
  BY <1>1, <1>5, LeaveFacts, IdleFacts, QuietActor DEF CopyPoint
<1> QED
  BY <1>1, <1>4, <1>6, <1>7, NothingMoved DEF CopiesStep, PointerStep

(* A row is claimed: from nobody, or from one whose lease ran out.         *)
LEMMA ClaimCopies ==
    ASSUME Base, ~Freed, Copying, NEW a \in Actors, NEW o \in Op, Claim(a, o)
    PROVE  CopiesStep(a)
<1> DEFINE row == [ops[o] EXCEPT !.owner = a, !.live = TRUE]
           me == [Idle EXCEPT !.pc = "relock", !.op = o]
<1>1. /\ TypeOK /\ Claimable(o) /\ SetRow(o, row) /\ Become(a, me)
      /\ UNCHANGED <<media, files>>
  BY DEF Base, Claim
<1>2. ops[o] \in RowType
  BY <1>1 DEF TypeOK
<1>3. row \in RowType /\ row.lost = ops[o].lost /\ row.state = ops[o].state
  BY <1>2 DEF RowType
<1>4. me \in ActorType /\ me.pc = "relock"
  BY IdleFacts DEF ActorType, ProgramPoint
<1> HIDE DEF row, me
<1>5. KeptRows(a)
  BY <1>1, <1>3, RowKept DEF Claimable
<1>6. PublishFine(a)' /\ CleanFine(a)' /\ DecideFine(a)'
  BY <1>1, <1>4, BecomeFacts, QuietActor DEF CopyPoint
<1> QED
  BY <1>1, <1>5, <1>6, NothingMoved DEF CopiesStep

(* What a pass reads of a recording that is where the pointer says.        *)
LEMMA InspectCopies ==
    ASSUME Base, ~Freed, Copying, NEW a \in Actors, Inspect(a) PROVE CopiesStep(a)
<1> DEFINE o == OpOf(a)
           row == [ops[o] EXCEPT !.held = a]
           me == [actors[a] EXCEPT !.pc = "decide", !.view = ViewOf(o),
                                   !.from = Reentered(ops[o])]
<1>1. TypeOK /\ At(a, "relock") /\ UNCHANGED <<media, files>>
  BY DEF Base, Inspect
<1>2. /\ o \in Op /\ ops[o].kind # "none" /\ ops[o] \in RowType /\ actors[a] \in ActorType
  BY <1>1, InHand DEF At
<1>3. Move(o) /\ ops[o].origin \in Path /\ ops[o].dest \in Path
  BY <1>2, FreeMoves
<1>4. FilesStep(a) /\ PointerStep(a)
  BY <1>1, NothingMoved
<1>5. CASE Leave(a) /\ UNCHANGED ops
  BY <1>1, <1>4, <1>5, NothingMoved, LeaveFacts, IdleFacts, QuietActor
     DEF CopiesStep, CopyPoint
<1>6. CASE StillMine(a, o) /\ SetRow(o, row) /\ Become(a, me)
  <2>1. /\ row \in RowType /\ row.owner = ops[o].owner /\ row.live = ops[o].live
        /\ row.lost = ops[o].lost /\ row.state = ops[o].state
        /\ row.origin = ops[o].origin /\ row.dest = ops[o].dest
    BY <1>2 DEF RowType
  <2>2. /\ me \in ActorType /\ me.pc = "decide" /\ me.op = o
        /\ me.view = ViewOf(o) /\ me.from = Reentered(ops[o])
    <3>1. ViewOf(o) \in ViewType
      BY <1>1, <1>2, <1>3, ViewTyped
    <3>2. Reentered(ops[o]) \in OperationState
      BY <1>2 DEF Reentered, RowType, OperationState
    <3> QED
      BY <1>2, <3>1, <3>2 DEF ActorType, ProgramPoint, OpOf
  <2> HIDE DEF me, row
  <2>3. KeptRows(a)
    BY <1>1, <1>2, <1>6, <2>1, RowKept
  <2>4. actors'[a] = me
    BY <1>1, <1>6, <2>2, BecomeFacts
  <2>5. ops'[o] = row
    BY <1>1, <1>2, <1>6, <2>1, SetRowFacts
  <2>6. RowOf(a)' = row
    BY <2>2, <2>4, <2>5 DEF RowOf, OpOf
  <2>7. PointerOf(RowOf(a))' = PointerOf(ops[o]) /\ Reentered(RowOf(a))' = Reentered(ops[o])
    BY <1>1, <2>1, <2>6 DEF PointerOf, Reentered
  <2>8. /\ me.view.pointer = PointerOf(ops[o]) /\ me.view.origin = files[ops[o].origin]
        /\ me.view.dest = files[ops[o].dest]
    BY <2>2 DEF ViewOf
  <2>9. files[media.path] = "recording"
    BY DEF Copying, Copied
  <2>10. /\ PointerOf(ops[o]) = "origin" => media.path = ops[o].origin
         /\ PointerOf(ops[o]) = "destination" => media.path = ops[o].dest
    BY DEF PointerOf
  <2>11. PointerOf(ops[o]) = "origin" /\ Reentered(ops[o]) = "fs_applied" =>
             files[ops[o].dest] = "recording"
    <3>1. AppliedFine(o) /\ Active(o)
      BY <1>2, <1>6 DEF Copying, StillMine
    <3> QED
      BY <2>10, <3>1 DEF AppliedFine, Reentered, Copied
  <2>12. DecideFine(a)'
    BY <1>1, <1>3, <2>1, <2>2, <2>4, <2>6, <2>7, <2>8, <2>9, <2>10, <2>11
       DEF DecideFine, Copied
  <2>13. PublishFine(a)' /\ CleanFine(a)'
    BY <2>2, <2>4 DEF PublishFine, CleanFine, At
  <2> QED
    BY <1>4, <2>3, <2>12, <2>13 DEF CopiesStep
<1> QED
  BY <1>3, <1>5, <1>6 DEF Inspect, Move

(* The decision table, read while every pointer names a copy: nothing is   *)
(* ever linked again from a temporary file or given up for lost.           *)
LEMMA VerdictFacts ==
    ASSUME Base, ~Freed, Copying, NEW a \in Actors, At(a, "decide")
    PROVE  /\ ~Decided(a, "relink") /\ ~Decided(a, "lost")
           /\ Decided(a, "forward") =>
                  media.path = RowOf(a).origin /\ files[RowOf(a).dest] = "recording"
           /\ Decided(a, "clean") => media.path = RowOf(a).dest
<1> DEFINE v == actors[a].view
<1>1. /\ v.pointer = PointerOf(RowOf(a))
      /\ v.pointer = "origin" => v.origin = "recording"
      /\ v.dest = "recording" => files[RowOf(a).dest] = "recording"
      /\ v.pointer = "destination" => v.dest = "recording"
      /\ v.pointer = "origin" /\ actors[a].from = "fs_applied" => v.dest = "recording"
  BY DEF Copying, DecideFine, Copied
<1>2. v.pointer \in {"origin", "destination", "other"}
  BY <1>1 DEF PointerOf
<1>3. /\ v.pointer = "origin" => media.path = RowOf(a).origin
      /\ v.pointer = "destination" => media.path = RowOf(a).dest
  BY <1>1 DEF PointerOf
<1>4. VerdictPlanned(v) \notin {"relink", "lost", "clean"}
      /\ (VerdictPlanned(v) = "forward" => v.pointer = "origin" /\ v.dest = "recording")
  BY <1>1, <1>2 DEF VerdictPlanned, DigestMatches, There
<1>5. actors[a].from = "fs_applied" =>
          /\ VerdictFsApplied(v) \notin {"relink", "lost"}
          /\ VerdictFsApplied(v) = "forward" => v.pointer = "origin" /\ v.dest = "recording"
          /\ VerdictFsApplied(v) = "clean" => v.pointer = "destination"
  BY <1>1, <1>2 DEF VerdictFsApplied, DigestMatches, There
<1>6. VerdictDbApplied(v) \notin {"relink", "lost", "forward"}
      /\ (VerdictDbApplied(v) = "clean" => v.pointer = "destination")
  BY DEF VerdictDbApplied
<1>7. Verdict(actors[a].from, v) =
          IF actors[a].from = "planned" THEN VerdictPlanned(v)
          ELSE IF actors[a].from = "fs_applied" THEN VerdictFsApplied(v) ELSE VerdictDbApplied(v)
  BY DEF Verdict
<1> QED
  BY <1>1, <1>3, <1>4, <1>5, <1>6, <1>7 DEF Decided

(* Who decides holds the row lock, so the operation.                       *)
LEMMA DeciderOwns ==
    ASSUME Base, ~Freed, Copying, NEW a \in Actors, At(a, "decide")
    PROVE  /\ OpOf(a) \in Op /\ RowOf(a) = ops[OpOf(a)] /\ Mine(a) /\ Active(OpOf(a))
           /\ ops[OpOf(a)] \in RowType /\ Temp(OpOf(a)) \in Path /\ RowOf(a).dest \in Path
           /\ ops[OpOf(a)].kind # "none"
<1>1. actors[a].pc \in MovePoint
  BY DEF At, MovePoint
<1>2. /\ OpOf(a) \in Op /\ RowOf(a) = ops[OpOf(a)] /\ Temp(OpOf(a)) \in Path
      /\ RowOf(a).dest \in Path /\ ops[OpOf(a)].kind # "none" /\ ops[OpOf(a)] \in RowType
  BY <1>1, TwoPlaces, MoveInHand
<1>3. RowOf(a).held = a
  BY DEF Base, LocksFine
<1>4. Active(OpOf(a)) /\ ops[OpOf(a)].owner = a
  BY <1>2, <1>3, MediaAssumption DEF Base, LocksFine, LockFine
<1> QED
  BY <1>2, <1>4 DEF Mine

(* The verdicts that end a pass or start the executor anew: all they do    *)
(* to the files is to remove the operation's own temporary file.           *)
LEMMA VerdictCopies ==
    ASSUME Base, ~Freed, Copying, NEW a \in Actors, UNCHANGED media,
           GiveUp(a) \/ Shelve(a) \/ Scrap(a) \/ LeaveTemp(a) \/ Restart(a)
    PROVE  CopiesStep(a)
<1> DEFINE o == OpOf(a)
           failed == Moved(ops[o], "failed")
           parked == Parked(ops[o], FALSE)
<1>1. TypeOK /\ At(a, "decide")
  BY DEF Base, GiveUp, Shelve, Scrap, LeaveTemp, Restart, Decided
<1>2. /\ o \in Op /\ RowOf(a) = ops[o] /\ Mine(a) /\ Active(o) /\ ops[o] \in RowType
      /\ Temp(o) \in Path /\ ~Decided(a, "lost")
  BY <1>1, DeciderOwns, VerdictFacts
<1>3. PointerStep(a)
  BY NothingMoved
<1>4. FilesStep(a)
  <2>1. UNCHANGED files \/ files' = FilePut(Temp(o), "none")
    BY <1>2 DEF GiveUp, Shelve, Scrap, LeaveTemp, Restart, WithoutTemp
  <2>2. Spare(a, Temp(o))
    BY <1>2 DEF Spare
  <2> QED
    BY <1>2, <2>1, <2>2, NothingMoved DEF FilesStep
<1>5. /\ "failed" \in OperationState /\ FALSE \in BOOLEAN
  BY DEF OperationState, Terminal
<1>6. /\ failed \in RowType /\ failed.owner = ops[o].owner /\ failed.live = ops[o].live
      /\ failed.lost = ops[o].lost /\ failed.state = "failed"
  BY <1>2, <1>5, MovedFacts
<1>7. /\ parked \in RowType /\ parked.owner = ops[o].owner /\ parked.live = ops[o].live
      /\ parked.lost = FALSE /\ parked.state = "awaiting_retry"
  BY <1>2, <1>5, ParkedFacts
<1>8. \/ SetRow(o, failed) \/ SetRow(o, parked) \/ Rollback(a) \/ UNCHANGED ops
  BY <1>2 DEF GiveUp, Shelve, Scrap, LeaveTemp, Restart, Commit
<1> HIDE DEF failed, parked
<1>9. KeptRows(a)
  BY <1>1, <1>2, <1>6, <1>7, <1>8, RowKept, RollbackKept, NothingMoved
<1>10. actors'[a].pc \in {"idle", "publish"}
  <2>1. Leave(a) \/ Become(a, [actors[a] EXCEPT !.pc = "publish", !.view = NoView])
    BY DEF GiveUp, Shelve, Scrap, LeaveTemp, Restart, Commit
  <2>2. CASE Leave(a)
    BY <1>1, <2>2, LeaveFacts, IdleFacts
  <2>3. CASE Become(a, [actors[a] EXCEPT !.pc = "publish", !.view = NoView])
    <3>1. actors[a] \in ActorType
      BY <1>1 DEF TypeOK
    <3>2. [actors[a] EXCEPT !.pc = "publish", !.view = NoView].pc = "publish"
      BY <3>1 DEF ActorType
    <3> QED
      BY <1>1, <2>3, <3>2 DEF Become, TypeOK
  <2> QED
    BY <2>1, <2>2, <2>3
<1>11. PublishFine(a)' /\ CleanFine(a)' /\ DecideFine(a)'
  BY <1>10, QuietActor DEF CopyPoint
<1> QED
  BY <1>3, <1>4, <1>9, <1>11 DEF CopiesStep

(* What is left to a pass is the cleanup.                                  *)
LEMMA CleanUpCopies ==
    ASSUME Base, ~Freed, Copying, NEW a \in Actors, UNCHANGED media, CleanUp(a)
    PROVE  CopiesStep(a)
<1> DEFINE me == [actors[a] EXCEPT !.role = "reconciler", !.view = NoView,
                     !.pc = IF Decided(a, "close") THEN "finish" ELSE "check"]
<1>1. /\ TypeOK /\ At(a, "decide") /\ Become(a, me) /\ UNCHANGED <<ops, files>>
      /\ Decided(a, "close") \/ Decided(a, "clean")
  BY DEF Base, CleanUp, Decided
<1>2. FilesStep(a) /\ PointerStep(a) /\ KeptRows(a)
  BY <1>1, NothingMoved
<1>3. actors[a] \in ActorType
  BY <1>1 DEF TypeOK
<1>4. /\ me \in ActorType /\ me.op = OpOf(a)
      /\ me.pc = IF Decided(a, "close") THEN "finish" ELSE "check"
  <2>1. NoView \in ViewType
    BY DEF NoView, ViewType, Content
  <2> QED
    BY <1>3, <2>1 DEF ActorType, ProgramPoint, OpOf
<1> HIDE DEF me
<1>5. actors'[a] = me
  BY <1>1, <1>4, BecomeFacts
<1>6. RowOf(a)' = RowOf(a)
  BY <1>1, <1>4, <1>5 DEF RowOf, OpOf
<1>7. me.pc = "check" => media.path = RowOf(a).dest
  BY <1>1, <1>4, VerdictFacts
<1>8. PublishFine(a)' /\ CleanFine(a)' /\ DecideFine(a)'
  BY <1>4, <1>5, <1>6, <1>7 DEF PublishFine, CleanFine, DecideFine, At
<1> QED
  BY <1>2, <1>8 DEF CopiesStep

(* _pointer_then_complete: the destination it moves to is a copy.          *)
LEMMA ForwardCopies ==
    ASSUME Base, ~Freed, Copying, NEW a \in Actors, RollForward(a) PROVE CopiesStep(a)
<1> DEFINE o == OpOf(a)
           moved == Moved(ops[o], "db_applied")
           me == [actors[a] EXCEPT !.pc = "check", !.from = "db_applied", !.role = "reconciler",
                                   !.view = NoView]
<1>1. TypeOK /\ At(a, "decide")
  BY DEF Base, RollForward, Decided
<1>2. /\ o \in Op /\ RowOf(a) = ops[o] /\ Mine(a) /\ Active(o) /\ ops[o] \in RowType
      /\ RowOf(a).dest \in Path /\ ~Decided(a, "relink")
  BY <1>1, DeciderOwns, VerdictFacts
<1>3. /\ media.path = RowOf(a).origin /\ files[RowOf(a).dest] = "recording"
  BY <1>1, <1>2, VerdictFacts DEF RollForward
<1>4. /\ UNCHANGED files /\ media' = [media EXCEPT !.path = RowOf(a).dest]
      /\ SetRow(o, moved) /\ Become(a, me)
  BY <1>2, <1>3 DEF RollForward, There
<1>5. media'.path = RowOf(a).dest
  BY <1>1, <1>4 DEF TypeOK
<1>6. PointerStep(a) /\ FilesStep(a)
  BY <1>2, <1>3, <1>4, <1>5, NothingMoved DEF PointerStep, Copied
<1>7. "db_applied" \in OperationState
  BY DEF OperationState
<1>8. /\ moved \in RowType /\ moved.owner = ops[o].owner /\ moved.live = ops[o].live
      /\ moved.lost = ops[o].lost /\ moved.state = "db_applied" /\ moved.dest = ops[o].dest
  BY <1>2, <1>7, MovedFacts
<1>9. me \in ActorType /\ me.pc = "check" /\ me.op = o
  <2>1. actors[a] \in ActorType /\ NoView \in ViewType
    BY <1>1 DEF TypeOK, NoView, ViewType, Content
  <2> QED
    BY <1>7, <2>1 DEF ActorType, ProgramPoint, OpOf
<1> HIDE DEF me, moved
<1>10. KeptRows(a)
  BY <1>1, <1>2, <1>4, <1>8, RowKept
<1>11. actors'[a] = me /\ ops'[o] = moved
  BY <1>1, <1>2, <1>4, <1>8, <1>9, BecomeFacts, SetRowFacts
<1>12. RowOf(a)' = moved
  BY <1>9, <1>11 DEF RowOf, OpOf
<1>13. PublishFine(a)' /\ CleanFine(a)' /\ DecideFine(a)'
  BY <1>2, <1>5, <1>8, <1>9, <1>11, <1>12 DEF PublishFine, CleanFine, DecideFine, At
<1> QED
  BY <1>6, <1>10, <1>13 DEF CopiesStep

(* The except clause of a pass.                                            *)
LEMMA RescueCopies ==
    ASSUME Base, ~Freed, Copying, NEW a \in Actors, Rescue(a) PROVE CopiesStep(a)
<1> DEFINE o == OpOf(a)
           parked == Parked(ops[o], FALSE)
           mine == [parked EXCEPT !.owner = a]
           taken == [mine EXCEPT !.live = TRUE]
<1>1. TypeOK /\ At(a, "rescue") /\ Leave(a) /\ UNCHANGED <<media, files>>
  BY DEF Base, Rescue
<1>2. o \in Op /\ ops[o] \in RowType /\ FALSE \in BOOLEAN
  BY <1>1, InHand DEF At
<1>3. /\ parked \in RowType /\ parked.owner = ops[o].owner /\ parked.live = ops[o].live
      /\ parked.lost = FALSE /\ parked.state = "awaiting_retry"
  BY <1>2, ParkedFacts
<1> HIDE DEF parked
<1>4. /\ mine \in RowType /\ mine.owner = a /\ mine.live = ops[o].live
      /\ mine.lost = FALSE /\ mine.state = "awaiting_retry"
  BY <1>3 DEF RowType
<1> HIDE DEF mine
<1>5. /\ taken \in RowType /\ taken.lost = FALSE /\ taken.state = "awaiting_retry"
  BY <1>4 DEF RowType
<1> HIDE DEF taken
<1>6. \/ Claimable(o) /\ SetRow(o, taken)
      \/ ops[o].owner = a /\ SetRow(o, mine)
      \/ UNCHANGED ops
  BY DEF Rescue, taken, mine, parked
<1>7. KeptRows(a)
  BY <1>1, <1>2, <1>4, <1>5, <1>6, RowKept, NothingMoved DEF Claimable
<1> QED
  BY <1>1, <1>7, NothingMoved, LeaveFacts, IdleFacts, QuietActor DEF CopiesStep, CopyPoint

(* Every step of the executor and of a pass keeps the copies; a purge is   *)
(* not in hand while the promise holds.                                    *)
LEMMA WorkCopies ==
    ASSUME Base, ~Freed, Copying, NEW a \in Actors, Work(a), ~ChooseTrash(a), ~Plan(a), ~Admit(a)
    PROVE  CopiesStep(a)
<1>1. actors[a].pc \notin PurgePoint
  <2>1. ASSUME actors[a].pc \in PurgePoint PROVE FALSE
    <3>1. OpOf(a) \in Op /\ ops[OpOf(a)].kind # "none"
      BY <2>1, InHand DEF PurgePoint
    <3>2. ops[OpOf(a)].kind = "purge"
      BY <2>1 DEF Base, ActorsFine, ActorFine, OpOf
    <3> QED
      BY <3>1, <3>2 DEF Freed, PurgePlanned
  <2> QED
    BY <2>1
<1>2. CASE Publish(a) \/ CopyBegins(a) \/ CopyEnds(a) \/ LinkTemp(a) \/ UnlinkTemp(a)
  BY <1>2, PublishCopies, CopyBeginsCopies, CopyEndsCopies, LinkTempCopies, UnlinkTempCopies, Zenon
<1>3. CASE Apply(a) \/ PointAndApply(a) \/ CheckLease(a) \/ UnlinkOrigin(a) \/ SweepTemp(a)
  BY <1>3, ApplyCopies, PointCopies, CheckCopies, UnlinkCopies
<1>4. CASE Finish(a) \/ Collide(a) \/ RecordError(a)
  BY <1>4, EndCopies, Zenon
<1>5. CASE BuildManifest(a) \/ AttemptChild(a) \/ EraseChild(a) \/ RecordChild(a) \/ Converge(a) \/ ApplyPurge(a)
  BY <1>1, <1>5
     DEF BuildManifest, AttemptChild, EraseChild, RecordChild, Converge, ApplyPurge, At, PurgePoint
<1>6. CASE Reconcile(a)
  <2>1. CASE Inspect(a)
    BY <2>1, InspectCopies
  <2>2. CASE Act(a) /\ ~RelinkFails(a)
    BY <2>2, VerdictCopies, CleanUpCopies, ForwardCopies, RescueCopies, Zenon DEF Act
  <2>3. ~RelinkFails(a)
    <3>1. At(a, "decide") => ~Decided(a, "relink")
      BY VerdictFacts
    <3> QED
      BY <3>1 DEF RelinkFails, Decided
  <2> QED
    BY <1>6, <2>1, <2>2, <2>3 DEF Reconcile
<1> QED
  BY <1>2, <1>3, <1>4, <1>5, <1>6 DEF Work, Execute

(* So do errors, deaths and requests that only look.                       *)
LEMMA TroubleCopies ==
    ASSUME Base, ~Freed, Copying, NEW a \in Actors,
           Stumble(a) \/ Crash(a) \/ AskTrash(a) \/ AskRestore(a) \/ AskRun(a)
    PROVE  CopiesStep(a)
<1>1. TypeOK /\ UNCHANGED <<media, files>>
  BY DEF Base, Stumble, Crash, AskTrash, AskRestore, AskRun, Ask
<1>2. FilesStep(a) /\ PointerStep(a)
  BY <1>1, NothingMoved
<1>3. KeptRows(a)
  <2>1. UNCHANGED ops \/ (Rollback(a) /\ OpOf(a) # 0)
    <3>1. Stumble(a) => UNCHANGED ops \/ (Rollback(a) /\ actors[a].pc \in MovePoint)
      BY DEF Stumble, At, MovePoint
    <3>2. actors[a].pc \in MovePoint => OpOf(a) # 0
      BY MoveInHand, OpsAreNumbers
    <3> QED
      BY <3>1, <3>2 DEF Crash, AskTrash, AskRestore, AskRun, Ask
  <2>2. OpOf(a) # 0 => OpOf(a) \in Op
    BY <1>1 DEF TypeOK, ActorType, OpOf
  <2> QED
    BY <1>1, <2>1, <2>2, RollbackKept, NothingMoved
<1>4. actors'[a].pc \in {"try_later", "give_up", "rescue", "idle", "choose", "plan", "admit"}
  <2>1. CASE Stumble(a)
    <3>1. \E pc \in {"try_later", "give_up", "rescue"} : Goto(a, pc)
      BY <2>1 DEF Stumble
    <3> QED
      BY <1>1, <3>1, GotoFacts DEF ProgramPoint
  <2>2. CASE Crash(a)
    BY <1>1, <2>2, LeaveFacts, IdleFacts DEF Crash
  <2>3. CASE AskTrash(a) \/ AskRestore(a) \/ AskRun(a)
    <3>1. PICK pc \in {"choose", "plan", "admit"} :
              \E seen : Become(a, [Idle EXCEPT !.pc = pc, !.seen = seen])
      BY <2>3 DEF AskTrash, AskRestore, AskRun, Ask
    <3>2. PICK seen : Become(a, [Idle EXCEPT !.pc = pc, !.seen = seen])
      BY <3>1
    <3>3. [Idle EXCEPT !.pc = pc, !.seen = seen].pc = pc
      BY DEF Idle
    <3>4. actors'[a] = [Idle EXCEPT !.pc = pc, !.seen = seen]
      BY <1>1, <3>2 DEF Become, TypeOK
    <3> QED
      BY <3>3, <3>4
  <2> QED
    BY <2>1, <2>2, <2>3, Zenon
<1>5. PublishFine(a)' /\ CleanFine(a)' /\ DecideFine(a)'
  BY <1>4, QuietActor DEF CopyPoint
<1> QED
  BY <1>2, <1>3, <1>5 DEF CopiesStep

(* So does the choice of the trash that a restore undoes.                  *)
LEMMA ChooseCopies ==
    ASSUME Base, NEW a \in Actors, ChooseTrash(a) PROVE CopiesStep(a)
<1>1. TypeOK /\ UNCHANGED <<media, files, ops>>
  BY ChooseFacts DEF Base
<1>2. actors'[a].pc \in {"idle", "plan"}
  <2>1. CASE Leave(a)
    BY <1>1, <2>1, LeaveFacts, IdleFacts
  <2>2. CASE \E me \in ActorType : Become(a, me) /\ me.pc = "plan"
    BY <1>1, <2>2 DEF Become, TypeOK
  <2>3. Leave(a) \/ \E me \in ActorType : Become(a, me) /\ me.pc = "plan"
    BY ChooseFacts, Zenon
  <2> QED
    BY <2>1, <2>2, <2>3, Zenon
<1>3. PublishFine(a)' /\ CleanFine(a)' /\ DecideFine(a)'
  BY <1>2, QuietActor DEF CopyPoint
<1> QED
  BY <1>1, <1>3, NothingMoved DEF CopiesStep
-----------------------------------------------------------------------------
(* The journal implements MediaCopies.                                     *)

(* An operation stays what it was planned as.                              *)
LEMMA RowsStand ==
    ASSUME Base, [Next]_vars, NEW p \in Op, ops[p].kind # "none"
    PROVE  /\ ops'[p].kind = ops[p].kind /\ ops'[p].origin = ops[p].origin
           /\ ops'[p].dest = ops[p].dest
<1>1. TypeOK
  BY DEF Base
<1>2. ASSUME NEW a \in Actors, Step(a)
      PROVE  /\ ops'[p].kind = ops[p].kind /\ ops'[p].origin = ops[p].origin
             /\ ops'[p].dest = ops[p].dest
  BY <1>2 DEF Step, Frame, OldRows
<1>3. ASSUME NEW a \in Actors, Plan(a) \/ Admit(a) \/ PlanPurge(a) PROVE ops'[p] = ops[p]
  <2>1. UNCHANGED ops \/ \E o \in Op : \E row : ops[o].kind = "none" /\ SetRow(o, row)
    BY <1>3 DEF Plan, Admit, PlanPurge, Fresh
  <2> QED
    BY <1>1, <2>1, ZenonT(40) DEF SetRow, TypeOK
<1>4. CASE \E a \in Actors : Request(a) \/ Work(a) \/ Stumble(a) \/ Crash(a)
  BY <1>2, <1>3, <1>4, WorkingStep, AskStep, ChooseStep, StumbleStep, CrashStep, Zenon
     DEF Request
<1>5. CASE \E a \in Actors, o \in Op : Claim(a, o)
  BY <1>2, <1>5, ClaimStep
<1>6. CASE \E o \in Op : LeaseExpires(o) \/ RetryDue(o)
  <2>1. PICK o \in Op : LeaseExpires(o) \/ RetryDue(o)
    BY <1>6
  <2>2. ops[o] \in RowType
    BY <1>1 DEF TypeOK
  <2>3. ops' = [ops EXCEPT ![o] = [ops[o] EXCEPT !.live = FALSE]]
        \/ ops' = [ops EXCEPT ![o] = [ops[o] EXCEPT !.due = TRUE]]
    BY <2>1 DEF LeaseExpires, RetryDue, SetRow
  <2> QED
    BY <1>1, <2>2, <2>3 DEF TypeOK, RowType
<1>7. CASE RunEnds \/ RunReopens \/ Outside \/ Rest \/ UNCHANGED vars
  BY <1>7 DEF RunEnds, RunReopens, Outside, Rest, vars
<1> QED
  BY <1>4, <1>5, <1>6, <1>7 DEF Next

(* What went wrong is not forgotten, and only Outside is somebody else's   *)
(* hand.                                                                   *)
LEMMA TroublesStand ==
    ASSUME TypeOK, [Next]_vars
    PROVE  /\ env.met \subseteq env'.met
           /\ Untouched /\ ~Untouched' => Outside
<1>1. env \in EnvType
  BY DEF TypeOK
<1>2. ASSUME \/ env' = env \/ env' = [env EXCEPT !.requests = @ - 1]
             \/ \E kind \in {"crash", "fault", "slow", "requeue"} : Meets(kind)
      PROVE  env.met \subseteq env'.met /\ (Untouched => Untouched')
  <2>1. \/ env'.met = env.met
        \/ \E kind \in {"crash", "fault", "slow", "requeue"} : env'.met = env.met \cup {kind}
    BY <1>1, <1>2, TroubleSpent, Zenon DEF EnvType
  <2> QED
    BY <2>1 DEF Untouched, Spared
<1>3. CASE \E a \in Actors : Request(a)
  BY <1>2, <1>3, Zenon DEF Request, AskTrash, AskRestore, AskRun, Ask, PlanPurge
<1>4. CASE \E a \in Actors : Execute(a)
  <2>1. PICK a \in Actors : Execute(a)
    BY <1>4
  <2>2. CASE EraseChild(a)
    <3>1. env' = env \/ Meets("fault")
      BY <2>2 DEF EraseChild
    <3> QED
      BY <1>2, <3>1, Zenon
  <2>3. CASE ~EraseChild(a)
    <3>1. env' = env
      BY <2>1, <2>3
         DEF Execute, ChooseTrash, Plan, Admit, Publish, CopyBegins, CopyEnds, LinkTemp, UnlinkTemp, Apply,
             PointAndApply, CheckLease, UnlinkOrigin, SweepTemp, Finish, Collide, RecordError,
             BuildManifest, AttemptChild, RecordChild, Converge, ApplyPurge, Here, Quietly
    <3> QED
      BY <1>2, <3>1, ZenonT(40)
  <2> QED
    BY <2>2, <2>3
<1>5. CASE \E a \in Actors : Reconcile(a)
  BY <1>2, <1>5 DEF Reconcile, Inspect, Act
<1>6. CASE \E a \in Actors : Stumble(a) \/ Crash(a)
  BY <1>2, <1>6 DEF Stumble, Crash
<1>7. CASE \E a \in Actors, o \in Op : Claim(a, o)
  BY <1>2, <1>7 DEF Claim
<1>8. CASE \E o \in Op : LeaseExpires(o) \/ RetryDue(o)
  BY <1>2, <1>8 DEF LeaseExpires, RetryDue
<1>9. CASE RunEnds \/ RunReopens \/ Rest \/ UNCHANGED vars
  BY <1>2, <1>9 DEF RunEnds, RunReopens, Rest, vars
<1>10. CASE Outside
  BY <1>10, TroubleSpent DEF Outside
<1> QED
  BY <1>3, <1>4, <1>5, <1>6, <1>7, <1>8, <1>9, <1>10 DEF Next, Work

(* What voids the promise is not undone.                                   *)
LEMMA FreedStays == ASSUME Base, [Next]_vars, Freed PROVE Freed'
<1>1. \A p \in Op : ops[p].kind # "none" =>
          /\ ops'[p].kind = ops[p].kind /\ ops'[p].origin = ops[p].origin
          /\ ops'[p].dest = ops[p].dest
  BY RowsStand
<1>2. env.met \subseteq env'.met
  BY TroublesStand DEF Base
<1> QED
  BY <1>1, <1>2 DEF Freed, PurgePlanned, InPlace, Untouched, Spared

(* A step that begins no operation and is nobody else's voids nothing.     *)
LEMMA FreedSame ==
    ASSUME Base, [Next]_vars, OldRows, ~Outside PROVE Freed' <=> Freed
<1>1. ~Freed => ~Freed'
  BY TroublesStand DEF OldRows, Freed, PurgePlanned, InPlace, Base
<1> QED
  BY <1>1, FreedStays

(* A new move: nothing is copied yet.                                      *)
LEMMA NewRowCopies ==
    ASSUME Base, Copying, NEW a \in Actors, NEW o \in Op, ops[o].kind = "none",
           NEW row \in RowType, SetRow(o, row), row.state = "planned", ~row.lost,
           actors'[a].pc \notin CopyPoint, OthersStay(a), UNCHANGED <<media, files>>
    PROVE  Copying'
<1>1. TypeOK
  BY DEF Base
<1>2. ops'[o] = row /\ \A p \in Op : p # o => ops'[p] = ops[p]
  BY <1>1, SetRowFacts
<1>3. ASSUME NEW b \in Actors PROVE PublishFine(b)' /\ CleanFine(b)' /\ DecideFine(b)'
  <2>1. CASE actors'[b].pc \notin CopyPoint
    BY <2>1, QuietActor
  <2>2. CASE actors'[b].pc \in CopyPoint
    <3>1. actors'[b] = actors[b] /\ actors[b].pc \in MovePoint
      BY <2>2 DEF OthersStay, CopyPoint, MovePoint
    <3>2. PICK p \in Op : p = OpOf(b) /\ p # o
      BY <3>1, MoveInHand
    <3>3. RowOf(b)' = RowOf(b) /\ OpOf(b)' = OpOf(b)
      BY <1>2, <3>1, <3>2 DEF RowOf, OpOf
    <3>4. (Active(OpOf(b))' <=> Active(OpOf(b)))
      BY <1>2, <3>1, <3>2 DEF Active, OpOf
    <3>5. /\ PointerOf(RowOf(b))' = PointerOf(RowOf(b))
          /\ Reentered(RowOf(b))' = Reentered(RowOf(b))
      BY <3>3 DEF PointerOf, Reentered
    <3>6. PublishFine(b) /\ CleanFine(b) /\ DecideFine(b)
      BY DEF Copying
    <3>7. PublishFine(b)' /\ CleanFine(b)'
      BY <3>1, <3>3, <3>4, <3>6 DEF PublishFine, CleanFine, At, Mine, FromPointer, Copied
    <3>8. DecideFine(b)'
      BY <3>1, <3>3, <3>5, <3>6 DEF DecideFine, At, Copied
    <3> QED
      BY <3>7, <3>8
  <2> QED
    BY <2>1, <2>2
<1>4. ASSUME NEW p \in Op PROVE AppliedFine(p)'
  <2>1. CASE p = o
    BY <1>2, <2>1 DEF AppliedFine
  <2>2. CASE p # o
    BY <1>2, <2>2 DEF AppliedFine, Active, Copied, Copying
  <2> QED
    BY <2>1, <2>2
<1> QED
  BY <1>3, <1>4 DEF Copying, Copied

(* Planning a move, and asking for a run.                                  *)
LEMMA PlanCopies ==
    ASSUME Base, Copying, ~Freed, NEW a \in Actors, Plan(a) \/ Admit(a) PROVE Copying'
<1>1. TypeOK /\ TypeOK' /\ OpOf(a) = 0 /\ OthersStay(a) /\ UNCHANGED <<media, files>>
  BY PlanStep, AdmitStep DEF Base, Plan, Admit
<1>2. CASE Leave(a) /\ UNCHANGED ops
  <2>1. actors'[a].pc \notin CopyPoint
    BY <1>1, <1>2, LeaveFacts, IdleFacts DEF CopyPoint
  <2>2. CopiesStep(a)
    BY <1>1, <1>2, <2>1, QuietActor, NothingMoved DEF CopiesStep
  <2>3. Frame(a)
    BY <1>1, <1>2, IdleFacts, StaysAway DEF Leave, Terminal
  <2> QED
    BY <1>1, <2>2, <2>3, CopiesKept
<1>3. CASE ~(Leave(a) /\ UNCHANGED ops)
  <2> DEFINE seen == actors[a].seen
             Dest(o) == IF seen.kind = "trash" THEN Trash(o) ELSE seen.dest
             row(o) == PlannedRow(a, seen.kind, seen.path, Dest(o))
  <2>1. PICK o \in Op : /\ Fresh(o) /\ SetRow(o, row(o))
                        /\ Become(a, [Idle EXCEPT !.pc = "publish", !.op = o])
    BY <1>3 DEF Plan, Admit
  <2>2. ops[o].kind = "none" /\ ops'[o] = row(o)
    BY <1>1, <2>1 DEF Fresh, SetRow, TypeOK
  <2>3. row(o) \in RowType /\ row(o).state = "planned" /\ ~row(o).lost
    <3>1. ops'[o] \in RowType
      BY <1>1 DEF TypeOK
    <3>2. row(o).state = "planned" /\ ~row(o).lost
      BY DEF PlannedRow
    <3> QED
      BY <2>2, <3>1, <3>2
  <2>4. actors'[a].pc \notin CopyPoint
    BY <1>1, <2>1 DEF Become, TypeOK, CopyPoint, Idle
  <2> HIDE DEF row
  <2> QED
    BY <1>1, <2>1, <2>2, <2>3, <2>4, NewRowCopies, ZenonT(40)
<1> QED
  BY <1>2, <1>3, ZenonT(40)

(* Time: a lease runs out under nobody who is past its check.              *)
LEMMA TimeCopies ==
    ASSUME Prompt, Base, Copying, NEW o \in Op, LeaseExpires(o) \/ RetryDue(o)
    PROVE  Copying'
<1>1. TypeOK /\ UNCHANGED <<media, files, actors>>
  BY DEF Base, LeaseExpires, RetryDue
<1>2. ops[o] \in RowType
  BY <1>1 DEF TypeOK
<1>3. \/ ops' = [ops EXCEPT ![o] = [ops[o] EXCEPT !.live = FALSE]]
      \/ ops' = [ops EXCEPT ![o] = [ops[o] EXCEPT !.due = TRUE]] /\ RetryDue(o)
  BY DEF LeaseExpires, RetryDue, SetRow
<1>4. \A p \in Op : /\ ops'[p].kind = ops[p].kind /\ ops'[p].origin = ops[p].origin
                    /\ ops'[p].dest = ops[p].dest /\ ops'[p].owner = ops[p].owner
                    /\ ops'[p].lost = ops[p].lost /\ ops'[p].state = ops[p].state
                    /\ ops'[p].live = ops[p].live \/ p = o
  BY <1>1, <1>2, <1>3 DEF TypeOK, RowType
<1>5. ASSUME Committed(o) PROVE ops'[o].live = ops[o].live
  <2>1. RetryDue(o)
    BY <1>5 DEF LeaseExpires
  <2>2. ops' = [ops EXCEPT ![o] = [ops[o] EXCEPT !.due = TRUE]]
    BY <2>1 DEF RetryDue, SetRow
  <2> QED
    BY <1>1, <1>2, <2>2 DEF TypeOK, RowType
<1>6. ASSUME NEW b \in Actors PROVE PublishFine(b)' /\ CleanFine(b)' /\ DecideFine(b)'
  <2>1. CASE actors[b].pc \notin CopyPoint
    BY <1>1, <2>1, QuietActor
  <2>2. CASE actors[b].pc \in CopyPoint
    <3>1. PICK p \in Op : p = OpOf(b)
      BY <2>2, MoveInHand DEF CopyPoint, MovePoint
    <3>2. RowOf(b) = ops[p] /\ RowOf(b)' = ops'[p] /\ OpOf(b)' = p
      BY <1>1, <3>1 DEF RowOf, OpOf
    <3>3. (Active(OpOf(b))' <=> Active(OpOf(b)))
      BY <1>4, <3>1, <3>2 DEF Active
    <3>4. /\ PointerOf(RowOf(b))' = PointerOf(RowOf(b))
          /\ Reentered(RowOf(b))' = Reentered(RowOf(b))
      BY <1>1, <1>4, <3>2 DEF PointerOf, Reentered
    <3>5. PublishFine(b) /\ CleanFine(b) /\ DecideFine(b)
      BY DEF Copying
    <3>6. PublishFine(b)'
      BY <1>1, <1>4, <3>1, <3>2, <3>3, <3>5 DEF PublishFine, At, Mine, FromPointer, Copied
    <3>7. actors[b].pc \in {"clean", "sweep"} => ops'[p].live
      BY <1>4, <1>5, <3>1, <3>2, <3>5 DEF CleanFine, Committed, Mine
    <3>8. CleanFine(b)'
      BY <1>1, <1>4, <3>1, <3>2, <3>5, <3>7 DEF CleanFine, At, Mine
    <3>9. DecideFine(b)'
      BY <1>1, <1>4, <3>1, <3>2, <3>4, <3>5 DEF DecideFine, At, Copied
    <3> QED
      BY <3>6, <3>8, <3>9
  <2> QED
    BY <2>1, <2>2
<1>7. ASSUME NEW p \in Op PROVE AppliedFine(p)'
  BY <1>1, <1>4 DEF AppliedFine, Active, Copied, Copying
<1> QED
  BY <1>1, <1>6, <1>7 DEF Copying, Copied

(* The copies are kept by every step of the system, as long as an unlink   *)
(* follows its lease check within the lease.                               *)
LEMMA CopiesInvNext ==
    ASSUME Prompt, Base, CopiesInv, [Next]_vars PROVE CopiesInv'
<1> SUFFICES ASSUME ~Freed' PROVE Copying'
  BY DEF CopiesInv
<1>1. ~Freed /\ Copying
  BY FreedStays DEF CopiesInv
<1>2. Base'
  BY BaseNext
<1>3. ASSUME NEW a \in Actors, Step(a), CopiesStep(a) PROVE Copying'
  BY <1>1, <1>3, CopiesKept DEF Step
<1>4. CASE \E a \in Actors : Request(a) \/ Work(a) \/ Stumble(a) \/ Crash(a)
  <2>1. PICK a \in Actors : Request(a) \/ Work(a) \/ Stumble(a) \/ Crash(a)
    BY <1>4
  <2>2. CASE Plan(a) \/ Admit(a)
    BY <1>1, <2>2, PlanCopies
  <2>3. CASE Work(a) /\ ~ChooseTrash(a) /\ ~Plan(a) /\ ~Admit(a)
    BY <1>1, <1>3, <2>3, WorkingStep, WorkCopies
  <2>4. CASE Stumble(a) \/ Crash(a) \/ AskTrash(a) \/ AskRestore(a) \/ AskRun(a)
    BY <1>1, <1>3, <2>4, StumbleStep, CrashStep, AskStep, TroubleCopies
  <2>6. CASE ChooseTrash(a)
    BY <1>1, <1>3, <2>6, ChooseStep, ChooseCopies
  <2>5. CASE PlanPurge(a)
    <3>1. PICK o \in Op : SetRow(o, PlannedRow(a, "purge", media.path, Nowhere))
      BY <2>5 DEF PlanPurge
    <3>2. ops'[o].kind = "purge"
      BY <3>1 DEF SetRow, PlannedRow, Base, TypeOK
    <3> QED
      BY <3>2 DEF Freed, PurgePlanned
  <2> QED
    BY <2>1, <2>2, <2>3, <2>4, <2>5, <2>6, Zenon DEF Request
<1>5. CASE \E a \in Actors, o \in Op : Claim(a, o)
  BY <1>1, <1>3, <1>5, ClaimStep, ClaimCopies
<1>6. CASE \E o \in Op : LeaseExpires(o) \/ RetryDue(o)
  BY <1>1, <1>6, TimeCopies
<1>7. CASE Outside
  <2>1. ~Untouched'
    BY <1>7, TroubleSpent, Zenon DEF Outside, Untouched, Spared, Base
  <2> QED
    BY <2>1 DEF Freed
<1>8. CASE RunEnds \/ RunReopens \/ Rest \/ UNCHANGED vars
  <2>1. UNCHANGED <<media, files, actors, ops>>
    BY <1>8 DEF RunEnds, RunReopens, Rest, vars
  <2> QED
    BY <1>1, <2>1
       DEF Copying, Copied, PublishFine, CleanFine, DecideFine, AppliedFine, At, Mine, RowOf, OpOf,
           FromPointer, Active, PointerOf, Reentered
<1> QED
  BY <1>4, <1>5, <1>6, <1>7, <1>8 DEF Next

(* At first the only copy is the one the pointer names.                    *)
LEMMA CopiesInvInit == Init => CopiesInv
<1> SUFFICES ASSUME Init PROVE Copying
  BY DEF CopiesInv
<1>1. \A a \in Actors : actors[a].pc = "idle"
  BY IdleFacts DEF Init
<1>2. \A p \in Path : files[p] # "foreign"
  BY DEF Init
<1>3. Copied(media.path)
  BY PathsDiffer DEF Init, Copied
<1>4. \A a \in Actors : PublishFine(a) /\ CleanFine(a) /\ DecideFine(a)
  BY <1>1 DEF PublishFine, CleanFine, DecideFine, At
<1>5. \A o \in Op : AppliedFine(o)
  BY DEF Init, AppliedFine, NoRow, Active
<1> QED
  BY <1>2, <1>3, <1>4, <1>5 DEF Copying

(* The initial state is MediaCopies'.                                      *)
LEMMA CopiesInitMaps == Init => Copies!CopiesInit
<1> SUFFICES ASSUME Init PROVE Copies!CopiesInit
  OBVIOUS
<1>1. media.path = Home /\ {p \in Path \ {Derived} : files[p] = "recording"} = {Home}
  BY PathsDiffer DEF Init
<1>2. \A o \in Op : ops[o].kind = "none"
  BY DEF Init, NoRow
<1>3. "outside" \notin env.met
  BY DEF Init
<1>4. ~Freed
  BY <1>2, <1>3 DEF Freed, PurgePlanned, InPlace, Untouched, Spared
<1> QED
  BY <1>1, <1>4 DEF Copies!CopiesInit, Freed

(* What the executor and a pass do to the files and the pointer is one of  *)
(* MediaCopies' steps.                                                     *)
LEMMA CopiesStepMaps ==
    ASSUME Base, Base', ~Freed, Freed' <=> Freed, Copying, NEW a \in Actors, CopiesStep(a)
    PROVE  [Copies!CopiesNext]_(Copies!mvars)
<1> DEFINE Place == Path \ {Derived}
           copies == {p \in Place : files[p] = "recording"}
<1>1. FilesStep(a) /\ PointerStep(a) /\ files \in [Path -> Content] /\ files' \in [Path -> Content]
  BY DEF CopiesStep, Base, TypeOK
<1>2. media.path \in copies /\ Placed(media.path) /\ \A k \in Op : media.path # Temp(k)
  <2>1. Copied(media.path) /\ Nowhere \notin Path
    BY DEF Copying, Path, Nowhere, Home, Derived, Trash, Temp
  <2>2. Placed(media.path)
    BY <2>1 DEF Copied, Base, PointerFine
  <2> QED
    BY <2>1, <2>2, PlacedIsPath DEF Copied
<1>3. CASE media'.path # media.path
  <2>1. /\ OpOf(a) \in Op /\ Active(OpOf(a)) /\ media'.path = RowOf(a).dest
        /\ Copied(RowOf(a).dest) /\ UNCHANGED files
    BY <1>1, <1>3 DEF PointerStep
  <2>2. Placed(RowOf(a).dest)
    BY <2>1, FreeMoves DEF Active, RowOf
  <2>3. media'.path \in copies
    BY <2>1, <2>2, PlacedIsPath DEF Copied
  <2>4. media'.path \in Place /\ UNCHANGED copies
    BY <2>1, <2>3
  <2>5. Copies!Point(media'.path)
    BY <2>3, <2>4 DEF Copies!Point
  <2> QED
    BY <2>4, <2>5 DEF Copies!CopiesNext
<1>4. CASE media'.path = media.path /\ Filled
  <2>1. copies \subseteq copies'
    BY <1>4 DEF Filled
  <2>2. copies' \in SUBSET Place /\ copies' = copies \cup copies' /\ copies # {}
    BY <1>2, <2>1
  <2>3. PICK ps \in SUBSET Place : ps = copies'
    BY <2>2
  <2>4. Copies!Copy(ps)
    BY <1>4, <2>2, <2>3 DEF Copies!Copy
  <2> QED
    BY <2>3, <2>4 DEF Copies!CopiesNext
<1>5. CASE media'.path = media.path /\ \E p \in Path : Spare(a, p) /\ files' = FilePut(p, "none")
  <2>1. PICK p \in Path : Spare(a, p) /\ files' = FilePut(p, "none")
    BY <1>5
  <2>2. p \in Place /\ p # media.path
    <3>1. OpOf(a) \in Op
      BY <2>1 DEF Spare
    <3>2. CASE p = RowOf(a).origin /\ Active(OpOf(a)) /\ media.path = RowOf(a).dest
      BY <3>1, <3>2, FreeMoves, PlacedIsPath DEF Active, RowOf
    <3>3. CASE p = Temp(OpOf(a))
      BY <1>2, <3>1, <3>3, PathsDiffer
    <3> QED
      BY <2>1, <3>2, <3>3 DEF Spare
  <2>3. copies' = copies \ {p}
    BY <1>1, <2>1, <2>2 DEF FilePut
  <2>4. Copies!Drop(p)
    BY <1>5, <2>2, <2>3 DEF Copies!Drop
  <2> QED
    BY <2>2, <2>4 DEF Copies!CopiesNext
<1> QED
  BY <1>1, <1>3, <1>4, <1>5 DEF FilesStep

(* Every step of the journal is one of MediaCopies' or a stutter.          *)
LEMMA CopiesNextMaps ==
    ASSUME Prompt, Base, CopiesInv, [Next]_vars
    PROVE  [Copies!CopiesNext]_(Copies!mvars)
<1> DEFINE Place == Path \ {Derived}
           copies == {p \in Place : files[p] = "recording"}
<1>1. Base' /\ CopiesInv' /\ copies' \in SUBSET Place
  BY BaseNext, CopiesInvNext
<1>2. CASE Freed
  <2>1. Freed'
    BY <1>2, FreedStays
  <2>2. Copies!Anything
    BY <1>1, <1>2, <2>1 DEF Copies!Anything
  <2> QED
    BY <2>2 DEF Copies!CopiesNext
<1>3. CASE ~Freed
  <2>1. Copying
    BY <1>3 DEF CopiesInv
  <2>2. ASSUME UNCHANGED <<media, files>> PROVE [Copies!CopiesNext]_(Copies!mvars)
    <3>1. UNCHANGED <<media.path, copies>>
      BY <2>2
    <3>2. CASE Freed'
      <4>1. Copies!Free
        BY <1>1, <3>1, <3>2 DEF Copies!Free
      <4> QED
        BY <4>1 DEF Copies!CopiesNext
    <3>3. CASE ~Freed'
      <4>1. Freed' = Freed
        BY <1>3, <3>3 DEF Freed
      <4> QED
        BY <3>1, <4>1 DEF Copies!mvars
    <3> QED
      BY <3>2, <3>3
  <2>3. ASSUME NEW a \in Actors, Step(a), CopiesStep(a), ~Outside
        PROVE  [Copies!CopiesNext]_(Copies!mvars)
    <3>1. Freed' <=> Freed
      BY <2>3, FreedSame DEF Step, Frame
    <3> QED
      BY <1>1, <1>3, <2>1, <2>3, <3>1, CopiesStepMaps
  <2>4. CASE Outside
    <3>1. ~Untouched' /\ UNCHANGED media
      BY <2>4, TroubleSpent DEF Outside, Untouched, Spared, Base
    <3>2. Copies!Free
      BY <1>1, <3>1 DEF Copies!Free, Freed
    <3> QED
      BY <3>2 DEF Copies!CopiesNext
  <2>5. CASE ~Outside /\ \E a \in Actors : Request(a) \/ Work(a) \/ Stumble(a) \/ Crash(a)
    <3>1. PICK a \in Actors : Request(a) \/ Work(a) \/ Stumble(a) \/ Crash(a)
      BY <2>5, ZenonT(40)
    <3>2. CASE ChooseTrash(a) \/ Plan(a) \/ Admit(a) \/ PlanPurge(a)
      BY <2>2, <3>2 DEF ChooseTrash, Plan, Admit, PlanPurge
    <3>3. CASE Work(a) /\ ~ChooseTrash(a) /\ ~Plan(a) /\ ~Admit(a)
      BY <1>3, <2>1, <2>3, <2>5, <3>3, WorkingStep, WorkCopies
    <3>4. CASE Stumble(a) \/ Crash(a) \/ AskTrash(a) \/ AskRestore(a) \/ AskRun(a)
      BY <1>3, <2>1, <2>3, <2>5, <3>4, StumbleStep, CrashStep, AskStep, TroubleCopies
    <3> QED
      BY <3>1, <3>2, <3>3, <3>4 DEF Request
  <2>6. CASE ~Outside /\ \E a \in Actors, o \in Op : Claim(a, o)
    BY <1>3, <2>1, <2>3, <2>6, ClaimStep, ClaimCopies
  <2>7. CASE (\E o \in Op : LeaseExpires(o) \/ RetryDue(o)) \/ RunEnds \/ RunReopens \/ Rest \/ UNCHANGED vars
    BY <2>2, <2>7 DEF LeaseExpires, RetryDue, RunEnds, RunReopens, Rest, vars
  <2> QED
    BY <2>4, <2>5, <2>6, <2>7 DEF Next
<1> QED
  BY <1>2, <1>3

(* While an unlink follows its lease check within the lease, and until a   *)
(* purge, an in-place restore or somebody else's hand, every actor about   *)
(* to move the pointer has a copy to move it to, and every actor about to  *)
(* unlink has the lease and the pointer elsewhere.                         *)
THEOREM CopiesInvariant == ASSUME Prompt PROVE Spec => [](Base /\ CopiesInv)
<1>1. Init => Base /\ CopiesInv
  BY BaseInit, CopiesInvInit
<1>2. Base /\ CopiesInv /\ [Next]_vars => (Base /\ CopiesInv)'
  BY BaseNext, CopiesInvNext
<1> QED
  BY <1>1, <1>2, PTL DEF Spec

(* Until then the pointer names the recording, whatever deaths, errors and *)
(* lost leases the operations meet.                                        *)
THEOREM PointerNamesACopy ==
    ASSUME Prompt PROVE Spec => [](InPlace \/ PointerNamesRecording)
<1>1. CopiesInv => InPlace \/ PointerNamesRecording
  BY DEF CopiesInv, Freed, Copying, Copied, PointerNamesRecording
<1>2. Spec => [](Base /\ CopiesInv)
  BY CopiesInvariant
<1> QED
  BY <1>1, <1>2, PTL

(* The journal implements MediaCopies.                                     *)
THEOREM JournalImplementsCopies == ASSUME Prompt PROVE Spec => ImplementsCopies
<1>1. Init => Copies!CopiesInit
  BY CopiesInitMaps
<1>2. Base /\ CopiesInv /\ [Next]_vars => [Copies!CopiesNext]_(Copies!mvars)
  BY CopiesNextMaps
<1>3. Spec => [](Base /\ CopiesInv)
  BY CopiesInvariant
<1> QED
  BY <1>1, <1>2, <1>3, PTL DEF Spec, ImplementsCopies, Copies!CopiesSpec

-----------------------------------------------------------------------------
(* What an actor at work touches: one row, the one in hand, whose owner    *)
(* and lease it leaves alone while it keeps the row in hand.               *)

OneRow(a) == \A p \in Op : p # OpOf(a) => ops'[p] = ops[p]

OwnRow(a) ==
    OpOf(a)' # 0 =>
        /\ OpOf(a)' = OpOf(a)
        /\ ops'[OpOf(a)].owner = ops[OpOf(a)].owner
        /\ ops'[OpOf(a)].live = ops[OpOf(a)].live

AtWork(a) == OneRow(a) /\ OwnRow(a) /\ ~At(a, "plan")'

(* Where an actor can go without leaving its operation.                    *)
LEMMA GoesAtWork ==
    ASSUME Base, NEW a \in Actors, actors[a].pc \notin {"idle", "choose", "plan", "admit"},
           NEW me \in ActorType, Become(a, me), me.op = OpOf(a), me.pc # "plan",
           UNCHANGED ops \/ Rollback(a)
    PROVE  AtWork(a)
<1>1. TypeOK /\ OpOf(a) \in Op /\ ops[OpOf(a)] \in RowType
  BY InHand DEF Base
<1>2. actors'[a] = me
  BY <1>1, BecomeFacts
<1>3. OneRow(a) /\ ops'[OpOf(a)].owner = ops[OpOf(a)].owner
                /\ ops'[OpOf(a)].live = ops[OpOf(a)].live
  <2>1. CASE UNCHANGED ops
    BY <2>1 DEF OneRow
  <2>2. CASE Rollback(a)
    <3>1. PICK row \in RowType : /\ SetRow(OpOf(a), row) /\ row.owner = ops[OpOf(a)].owner
                                 /\ row.live = ops[OpOf(a)].live
      BY <1>1, <2>2, RollbackFacts
    <3> QED
      BY <1>1, <3>1, SetRowFacts DEF OneRow
  <2> QED
    BY <2>1, <2>2
<1> QED
  BY <1>2, <1>3 DEF AtWork, OwnRow, OpOf, At

(* Who leaves has nothing in hand.                                         *)
LEMMA LeavesAtWork ==
    ASSUME Base, NEW a \in Actors, Leave(a),
           UNCHANGED ops \/ (\E row : SetRow(OpOf(a), row))
    PROVE  AtWork(a)
<1>1. actors'[a] = Idle /\ TypeOK
  BY LeaveFacts DEF Base
<1>2. OpOf(a)' = 0 /\ ~At(a, "plan")'
  BY <1>1, IdleFacts DEF OpOf, At
<1>3. OneRow(a)
  BY <1>1 DEF OneRow, SetRow, TypeOK
<1> QED
  BY <1>2, <1>3 DEF AtWork, OwnRow

(* A compare-and-set that commits or gives up.                             *)
LEMMA TransitionAtWork ==
    ASSUME Base, NEW a \in Actors, actors[a].pc \notin {"idle", "choose", "plan", "admit"},
           NEW from, NEW row \in RowType, NEW then \in ActorType, Transition(a, from, row, then),
           row.owner = RowOf(a).owner, row.live = RowOf(a).live,
           then = Idle \/ (then.op = OpOf(a) /\ then.pc # "plan")
    PROVE  AtWork(a)
<1>1. TypeOK /\ OpOf(a) \in Op /\ ops[OpOf(a)] \in RowType
  BY InHand DEF Base
<1>2. CASE SetRow(OpOf(a), row) /\ Become(a, then) /\ then # Idle
  <2>1. actors'[a] = then
    BY <1>1, <1>2, BecomeFacts
  <2> QED
    BY <1>1, <1>2, <2>1, SetRowFacts DEF AtWork, OneRow, OwnRow, OpOf, At, RowOf
<1>3. CASE Leave(a) /\ (Rollback(a) \/ SetRow(OpOf(a), row))
  BY <1>3, LeavesAtWork DEF Rollback
<1> QED
  BY <1>2, <1>3 DEF Transition, Leave

(* The executor's steps.                                                   *)
LEMMA MoveAtWork ==
    ASSUME Base, NEW a \in Actors,
           \/ Publish(a) \/ CopyBegins(a) \/ CopyEnds(a) \/ LinkTemp(a) \/ UnlinkTemp(a)
           \/ CheckLease(a) \/ UnlinkOrigin(a) \/ SweepTemp(a)
    PROVE  AtWork(a)
<1>1. /\ TypeOK /\ actors[a] \in ActorType
      /\ actors[a].pc \in {"publish", "copy", "stage", "link", "unstage", "check", "clean", "sweep"}
  BY DEF Base, TypeOK, Publish, CopyBegins, CopyEnds, LinkTemp, UnlinkTemp, CheckLease,
         UnlinkOrigin, SweepTemp, At
<1>2. ASSUME NEW pc \in ProgramPoint \ {"plan"}, Goto(a, pc), UNCHANGED ops PROVE AtWork(a)
  <2> DEFINE me == [actors[a] EXCEPT !.pc = pc]
  <2>1. me \in ActorType /\ me.op = OpOf(a) /\ me.pc = pc
    BY <1>1 DEF ActorType, OpOf
  <2>2. Become(a, me)
    BY <1>2 DEF Goto
  <2> HIDE DEF me
  <2> QED
    BY <1>1, <1>2, <2>1, <2>2, GoesAtWork
<1>3. CASE CheckLease(a)
  BY <1>2, <1>3, LeavesAtWork DEF CheckLease, ProgramPoint, Rollback
<1>4. CASE CopyBegins(a)
  <2>1. UNCHANGED ops
    BY <1>4 DEF CopyBegins
  <2>2. CASE Goto(a, "give_up") \/ Goto(a, "collide")
    BY <1>2, <2>1, <2>2 DEF ProgramPoint
  <2>3. CASE Become(a, [actors[a] EXCEPT !.pc = "stage", !.view.origin = files[RowOf(a).origin]])
    <3> DEFINE me == [actors[a] EXCEPT !.pc = "stage", !.view.origin = files[RowOf(a).origin]]
    <3>1. RowOf(a).origin \in Path
      BY <1>1, MovePaths DEF MovePoint
    <3>2. files[RowOf(a).origin] \in Content
      BY <1>1, <3>1 DEF TypeOK
    <3>3. me \in ActorType /\ me.op = OpOf(a) /\ me.pc = "stage"
      BY <1>1, <3>2 DEF ActorType, OpOf, ProgramPoint, ViewType
    <3> HIDE DEF me
    <3> QED
      BY <1>1, <2>1, <2>3, <3>3, GoesAtWork DEF me
  <2> QED
    BY <1>4, <2>2, <2>3 DEF CopyBegins
<1>5. CASE \/ Publish(a) \/ CopyEnds(a) \/ LinkTemp(a) \/ UnlinkTemp(a)
           \/ UnlinkOrigin(a) \/ SweepTemp(a)
  <2>1. UNCHANGED ops
    BY <1>5 DEF Publish, CopyEnds, LinkTemp, UnlinkTemp, UnlinkOrigin, SweepTemp, Here
  <2>2. \E pc \in {"collide", "give_up", "copy", "point", "try_later", "link", "unstage", "apply",
                   "sweep", "finish"} : Goto(a, pc)
    BY <1>5 DEF Publish, CopyEnds, LinkTemp, UnlinkTemp, UnlinkOrigin, SweepTemp
  <2> QED
    BY <1>2, <2>1, <2>2 DEF ProgramPoint
<1> QED
  BY <1>3, <1>4, <1>5

(* The commits.                                                            *)
LEMMA CommitAtWork ==
    ASSUME Base, NEW a \in Actors,
           \/ Apply(a) \/ PointAndApply(a) \/ Finish(a) \/ Collide(a) \/ RecordError(a)
           \/ Converge(a) \/ ApplyPurge(a)
    PROVE  AtWork(a)
<1>1. /\ TypeOK /\ actors[a] \in ActorType
      /\ actors[a].pc \in {"apply", "point", "finish", "collide", "try_later", "give_up",
                           "converge", "purged"}
  BY DEF Base, TypeOK, Apply, PointAndApply, Finish, Collide, RecordError, Converge, ApplyPurge, At
<1>2. OpOf(a) \in Op /\ ops[OpOf(a)] \in RowType /\ RowOf(a) = ops[OpOf(a)]
  BY <1>1, InHand DEF RowOf
<1>3. ASSUME NEW from, NEW state \in OperationState, NEW then \in ActorType,
             then = Idle \/ (then.op = OpOf(a) /\ then.pc # "plan"),
             \/ Transition(a, from, Moved(RowOf(a), state), then)
             \/ Transition(a, from, Parked(RowOf(a), FALSE), then)
      PROVE  AtWork(a)
  <2>1. CASE Transition(a, from, Moved(RowOf(a), state), then)
    <3> DEFINE row == Moved(RowOf(a), state)
    <3>1. row \in RowType /\ row.owner = RowOf(a).owner /\ row.live = RowOf(a).live
      BY <1>2, MovedFacts
    <3> QED
      BY <1>1, <1>3, <2>1, <3>1, TransitionAtWork
  <2>2. CASE Transition(a, from, Parked(RowOf(a), FALSE), then)
    <3> DEFINE row == Parked(RowOf(a), FALSE)
    <3>1. FALSE \in BOOLEAN
      OBVIOUS
    <3>2. row \in RowType /\ row.owner = RowOf(a).owner /\ row.live = RowOf(a).live
      BY <1>2, <3>1, ParkedFacts
    <3> QED
      BY <1>1, <1>3, <2>2, <3>2, TransitionAtWork
  <2> QED
    BY <1>3, <2>1, <2>2
<1>4. /\ {"fs_applied", "db_applied", "failed", "completed"} \subseteq OperationState
      /\ Idle \in ActorType
  BY IdleFacts DEF OperationState, Terminal
<1>5. CASE Finish(a) \/ Collide(a) \/ RecordError(a)
  BY <1>3, <1>4, <1>5 DEF Finish, Collide, RecordError
<1>6. CASE Apply(a)
  <2> DEFINE then == [actors[a] EXCEPT !.pc = "point", !.from = "fs_applied"]
  <2>1. then \in ActorType /\ then.op = OpOf(a) /\ then.pc # "plan"
    BY <1>1, <1>4 DEF ActorType, OpOf, ProgramPoint
  <2>2. Transition(a, "planned", Moved(RowOf(a), "fs_applied"), then)
    BY <1>6 DEF Apply
  <2> HIDE DEF then
  <2> QED
    BY <1>3, <1>4, <2>1, <2>2
<1>7. CASE PointAndApply(a)
  <2> DEFINE then == [actors[a] EXCEPT !.pc = "check", !.from = "db_applied"]
  <2>1. then \in ActorType /\ then.op = OpOf(a) /\ then.pc # "plan"
    BY <1>1, <1>4 DEF ActorType, OpOf, ProgramPoint
  <2>2. \/ Transition(a, actors[a].from, Moved(RowOf(a), "db_applied"), then)
        \/ Transition(a, actors[a].from, Moved(RowOf(a), "failed"), Idle)
    BY <1>7 DEF PointAndApply
  <2> HIDE DEF then
  <2> QED
    BY <1>3, <1>4, <2>1, <2>2
<1>8. CASE ApplyPurge(a)
  <2> DEFINE then == [actors[a] EXCEPT !.pc = "finish", !.from = "db_applied"]
  <2>1. then \in ActorType /\ then.op = OpOf(a) /\ then.pc # "plan"
    BY <1>1, <1>4 DEF ActorType, OpOf, ProgramPoint
  <2>2. Transition(a, "fs_applied", Moved(RowOf(a), "db_applied"), then)
    BY <1>8 DEF ApplyPurge
  <2> HIDE DEF then
  <2> QED
    BY <1>3, <1>4, <2>1, <2>2
<1>9. CASE Converge(a)
  <2> DEFINE then == [actors[a] EXCEPT !.pc = "purged", !.from = "fs_applied"]
             back == [actors[a] EXCEPT !.pc = "rescue"]
  <2>1. /\ then \in ActorType /\ then.op = OpOf(a) /\ then.pc # "plan"
        /\ back \in ActorType /\ back.op = OpOf(a) /\ back.pc # "plan"
    BY <1>1, <1>4, ZenonT(40) DEF ActorType, OpOf, ProgramPoint
  <2>2. \/ Transition(a, actors[a].from, Moved(RowOf(a), "fs_applied"), then)
        \/ Transition(a, actors[a].from, Parked(RowOf(a), FALSE), Idle)
        \/ Become(a, back) /\ UNCHANGED ops
    BY <1>9 DEF Converge, Goto
  <2> HIDE DEF then, back
  <2> QED
    BY <1>1, <1>3, <1>4, <2>1, <2>2, GoesAtWork
<1> QED
  BY <1>5, <1>6, <1>7, <1>8, <1>9

(* The steps of a purge between its commits.                               *)
LEMMA ChildAtWork ==
    ASSUME Base, NEW a \in Actors, BuildManifest(a) \/ AttemptChild(a) \/ EraseChild(a) \/ RecordChild(a)
    PROVE  AtWork(a)
<1>1. /\ TypeOK /\ actors[a] \in ActorType
      /\ actors[a].pc \in {"manifest", "children", "erase", "record"}
  BY DEF Base, TypeOK, BuildManifest, AttemptChild, EraseChild, RecordChild, At
<1>2. ASSUME NEW me \in ActorType, Become(a, me), me.op = OpOf(a), me.pc # "plan",
             UNCHANGED ops \/ Rollback(a)
      PROVE  AtWork(a)
  BY <1>1, <1>2, GoesAtWork
<1>3. CASE BuildManifest(a)
  <2> DEFINE built == IF manifest[OpOf(a)] = NoManifest THEN [p \in Part |-> "pending"]
                      ELSE manifest[OpOf(a)]
             left == {p \in Part : built[p] \in {"pending", "failed"}}
             me == [actors[a] EXCEPT !.pc = "children", !.todo = left]
  <2>1. Become(a, me) /\ Rollback(a)
    BY <1>3 DEF BuildManifest
  <2>2. left \in SUBSET Part
    OBVIOUS
  <2> HIDE DEF left
  <2>3. me \in ActorType /\ me.op = OpOf(a) /\ me.pc # "plan"
    BY <1>1, <2>2, Zenon DEF ActorType, OpOf, ProgramPoint
  <2> HIDE DEF me
  <2> QED
    BY <1>2, <2>1, <2>3
<1>4. CASE AttemptChild(a)
  <2>1. UNCHANGED ops
    BY <1>4 DEF AttemptChild
  <2>2. CASE Goto(a, "converge")
    <3> DEFINE me == [actors[a] EXCEPT !.pc = "converge"]
    <3>1. me \in ActorType /\ me.op = OpOf(a) /\ me.pc # "plan"
      BY <1>1 DEF ActorType, OpOf, ProgramPoint
    <3>2. Become(a, me)
      BY <2>2 DEF Goto
    <3> HIDE DEF me
    <3> QED
      BY <1>2, <2>1, <3>1, <3>2
  <2>3. CASE \E p \in Part :
                 Become(a, [actors[a] EXCEPT !.pc = "erase", !.part = p, !.todo = @ \ {p}])
    <3>1. PICK p \in Part :
                 Become(a, [actors[a] EXCEPT !.pc = "erase", !.part = p, !.todo = @ \ {p}])
      BY <2>3
    <3> DEFINE me == [actors[a] EXCEPT !.pc = "erase", !.part = p, !.todo = @ \ {p}]
    <3>2. me \in ActorType /\ me.op = OpOf(a) /\ me.pc # "plan"
      BY <1>1 DEF ActorType, OpOf, ProgramPoint
    <3>3. Become(a, me)
      BY <3>1
    <3> HIDE DEF me
    <3> QED
      BY <1>2, <2>1, <3>2, <3>3, Zenon
  <2>4. actors[a].todo \subseteq Part
    BY <1>1 DEF ActorType
  <2> QED
    BY <1>4, <2>2, <2>3, <2>4 DEF AttemptChild
<1>5. CASE EraseChild(a)
  <2>1. PICK outcome \in {"failed", "done", "missing"} :
            Become(a, [actors[a] EXCEPT !.pc = "record", !.outcome = outcome])
    BY <1>5 DEF EraseChild
  <2> DEFINE me == [actors[a] EXCEPT !.pc = "record", !.outcome = outcome]
  <2>2. outcome \in PartStatus
    BY DEF PartStatus
  <2>3. me \in ActorType /\ me.op = OpOf(a) /\ me.pc # "plan"
    BY <1>1, <2>2 DEF ActorType, OpOf, ProgramPoint
  <2>4. Become(a, me) /\ UNCHANGED ops
    BY <1>5, <2>1 DEF EraseChild
  <2> HIDE DEF me
  <2> QED
    BY <1>2, <2>3, <2>4
<1>6. CASE RecordChild(a)
  <2> DEFINE me == [actors[a] EXCEPT !.pc = "children", !.part = Idle.part,
                                     !.outcome = Idle.outcome]
  <2>1. Idle.part \in Part /\ Idle.outcome \in PartStatus
    BY IdleFacts DEF ActorType
  <2>2. me \in ActorType /\ me.op = OpOf(a) /\ me.pc # "plan"
    BY <1>1, <2>1 DEF ActorType, OpOf, ProgramPoint
  <2>3. Become(a, me) /\ UNCHANGED ops
    BY <1>6 DEF RecordChild
  <2> HIDE DEF me
  <2> QED
    BY <1>2, <2>2, <2>3
<1> QED
  BY <1>3, <1>4, <1>5, <1>6, Zenon

(* A pass: what it reads, and what it does by the table.                   *)
LEMMA PassAtWork ==
    ASSUME Base, NEW a \in Actors, Reconcile(a)
    PROVE  AtWork(a)
<1>1. TypeOK /\ actors[a] \in ActorType /\ actors[a].pc \in {"relock", "decide", "rescue"}
  BY DEF Base, TypeOK, Reconcile, Inspect, Act, GiveUp, Shelve, Scrap, LeaveTemp, SparesTemp,
         Restart, CleanUp, RelinkFails, RollForward, Rescue, Decided, At
<1>2. OpOf(a) \in Op /\ ops[OpOf(a)] \in RowType /\ RowOf(a) = ops[OpOf(a)]
      /\ ops[OpOf(a)].kind # "none"
  BY <1>1, InHand DEF RowOf
<1>3. ASSUME NEW me \in ActorType, Become(a, me), me.op = OpOf(a), me.pc # "plan",
             NEW row \in RowType, SetRow(OpOf(a), row),
             row.owner = ops[OpOf(a)].owner, row.live = ops[OpOf(a)].live
      PROVE  AtWork(a)
  <2>1. actors'[a] = me
    BY <1>1, <1>3, BecomeFacts
  <2> QED
    BY <1>1, <1>2, <1>3, <2>1, SetRowFacts DEF AtWork, OneRow, OwnRow, OpOf, At
<1>4. CASE Inspect(a)
  <2> DEFINE o == OpOf(a)
             row == [ops[o] EXCEPT !.held = a]
             purge == [actors[a] EXCEPT !.pc = PurgeEntry(ops[o].state), !.from = ops[o].state,
                                        !.role = "reconciler"]
             move == [actors[a] EXCEPT !.pc = "decide", !.view = ViewOf(o),
                                       !.from = Reentered(ops[o])]
  <2>1. CASE Leave(a) /\ UNCHANGED ops
    BY <2>1, LeavesAtWork
  <2>2. row \in RowType /\ row.owner = ops[o].owner /\ row.live = ops[o].live
    BY <1>2 DEF RowType
  <2>3. purge \in ActorType /\ purge.op = o /\ purge.pc # "plan"
    <3>1. PurgeEntry(ops[o].state) \in ProgramPoint \ {"plan"}
      BY DEF PurgeEntry, ProgramPoint
    <3>2. ops[o].state \in OperationState
      BY <1>2 DEF RowType
    <3> QED
      BY <1>1, <3>1, <3>2 DEF ActorType, OpOf
  <2>4. Move(o) => move \in ActorType /\ move.op = o /\ move.pc # "plan"
    <3>1. Move(o) => ViewOf(o) \in ViewType
      BY <1>2, ViewTyped
    <3>2. Reentered(ops[o]) \in OperationState
      BY <1>2 DEF Reentered, RowType, OperationState
    <3>3. "decide" \in ProgramPoint
      BY DEF ProgramPoint
    <3> QED
      BY <1>1, <3>1, <3>2, <3>3 DEF ActorType, OpOf
  <2>5. ops[o].kind = "purge" \/ Move(o)
    BY <1>2 DEF RowType, Kind, Move
  <2>6. CASE StillMine(a, o)
    <3>1. SetRow(o, row) /\ Become(a, IF ops[o].kind = "purge" THEN purge ELSE move)
      BY <1>4, <2>6 DEF Inspect
    <3> HIDE DEF row, purge, move
    <3>2. SetRow(o, row) /\ ((ops[o].kind = "purge" /\ Become(a, purge))
                              \/ (Move(o) /\ Become(a, move)))
      BY <2>5, <3>1 DEF Move
    <3> QED
      BY <1>3, <2>2, <2>3, <2>4, <3>2
  <2> QED
    BY <1>4, <2>1, <2>6 DEF Inspect
<1>5. CASE GiveUp(a) \/ Shelve(a) \/ Scrap(a) \/ LeaveTemp(a) \/ Rescue(a)
  <2>1. Leave(a)
    BY <1>5 DEF GiveUp, Shelve, Scrap, LeaveTemp, Rescue, Commit
  <2>2. UNCHANGED ops \/ \E row : SetRow(OpOf(a), row)
    BY <1>5 DEF GiveUp, Shelve, Scrap, LeaveTemp, Rescue, Commit, Rollback
  <2> QED
    BY <2>1, <2>2, LeavesAtWork
<1>6. CASE Restart(a)
  <2> DEFINE me == [actors[a] EXCEPT !.pc = "publish", !.view = NoView]
  <2>1. me \in ActorType /\ me.op = OpOf(a) /\ me.pc # "plan"
    BY <1>1, NoViewTyped DEF ActorType, OpOf, ProgramPoint
  <2>2. Become(a, me) /\ UNCHANGED ops
    BY <1>6 DEF Restart
  <2> HIDE DEF me
  <2> QED
    BY <1>1, <2>1, <2>2, GoesAtWork
<1>7. CASE CleanUp(a)
  <2>1. PICK pc \in {"finish", "check"} :
            Become(a, [actors[a] EXCEPT !.role = "reconciler", !.view = NoView, !.pc = pc])
    BY <1>7 DEF CleanUp
  <2> DEFINE me == [actors[a] EXCEPT !.role = "reconciler", !.view = NoView, !.pc = pc]
  <2>2. me \in ActorType /\ me.op = OpOf(a) /\ me.pc # "plan"
    BY <1>1, NoViewTyped DEF ActorType, OpOf, ProgramPoint
  <2>3. Become(a, me) /\ UNCHANGED ops
    BY <1>7, <2>1 DEF CleanUp
  <2> HIDE DEF me
  <2> QED
    BY <1>1, <2>2, <2>3, GoesAtWork
<1>8. CASE RollForward(a)
  <2> DEFINE row == Moved(RowOf(a), "db_applied")
             me == [actors[a] EXCEPT !.pc = "check", !.from = "db_applied",
                                     !.role = "reconciler", !.view = NoView]
  <2>1. "db_applied" \in OperationState
    BY DEF OperationState
  <2>2. row \in RowType /\ row.owner = ops[OpOf(a)].owner /\ row.live = ops[OpOf(a)].live
    BY <1>2, <2>1, MovedFacts
  <2>3. me \in ActorType /\ me.op = OpOf(a) /\ me.pc # "plan"
    BY <1>1, <2>1, NoViewTyped DEF ActorType, OpOf, ProgramPoint
  <2>4. \/ SetRow(OpOf(a), row) /\ Become(a, me)
        \/ Leave(a) /\ SetRow(OpOf(a), Moved(RowOf(a), "failed"))
    BY <1>8 DEF RollForward, Commit
  <2> HIDE DEF row, me
  <2> QED
    BY <1>3, <2>2, <2>3, <2>4, LeavesAtWork
<1>9. CASE RelinkFails(a)
  <2> DEFINE me == [actors[a] EXCEPT !.pc = "rescue"]
  <2>1. me \in ActorType /\ me.op = OpOf(a) /\ me.pc # "plan"
    BY <1>1 DEF ActorType, OpOf, ProgramPoint
  <2>2. Become(a, me) /\ Rollback(a)
    BY <1>9 DEF RelinkFails, Goto
  <2> HIDE DEF me
  <2> QED
    BY <1>1, <2>1, <2>2, GoesAtWork
<1> QED
  BY <1>4, <1>5, <1>6, <1>7, <1>8, <1>9 DEF Reconcile, Act

(* Errors and deaths.                                                      *)
LEMMA TroubleAtWork ==
    ASSUME Base, NEW a \in Actors, Stumble(a) \/ Crash(a)
    PROVE  AtWork(a)
<1>1. TypeOK
  BY DEF Base
<1>2. CASE Crash(a)
  <2>1. Leave(a) /\ (UNCHANGED ops \/ \E row : SetRow(OpOf(a), row))
    BY <1>2 DEF Crash, Rollback
  <2> QED
    BY <2>1, LeavesAtWork
<1>3. CASE Stumble(a)
  <2>1. actors[a].pc \notin {"idle", "choose", "plan", "admit"} /\ actors[a] \in ActorType
    BY <1>1, <1>3 DEF Stumble, At, TypeOK
  <2>2. PICK pc \in {"try_later", "give_up", "rescue"} :
            Goto(a, pc) /\ (UNCHANGED ops \/ Rollback(a))
    BY <1>3 DEF Stumble
  <2> DEFINE me == [actors[a] EXCEPT !.pc = pc]
  <2>3. me \in ActorType /\ me.op = OpOf(a) /\ me.pc # "plan"
    BY <2>1 DEF ActorType, OpOf, ProgramPoint
  <2>4. Become(a, me)
    BY <2>2 DEF Goto
  <2> HIDE DEF me
  <2> QED
    BY <2>1, <2>2, <2>3, <2>4, GoesAtWork
<1> QED
  BY <1>2, <1>3

(* So it is for everything an actor does with an operation in hand.        *)
LEMMA WorkingAtWork ==
    ASSUME Base, NEW a \in Actors, (Work(a) /\ ~ChooseTrash(a) /\ ~Plan(a) /\ ~Admit(a)) \/ Stumble(a) \/ Crash(a)
    PROVE  AtWork(a)
BY MoveAtWork, CommitAtWork, ChildAtWork, PassAtWork, TroubleAtWork DEF Work, Execute

(* Only a completed purge, or one past its pointer write, empties the      *)
(* media row, and nothing fills it again.                                  *)
LEMMA PurgedStays ==
    ASSUME TypeOK, [Next]_vars, media.purged
    PROVE  media'.purged
<1>1. /\ media \in [path : Path \cup {Nowhere}, trashed : BOOLEAN, purged : BOOLEAN]
  BY ZenonT(40) DEF TypeOK
<1>2. ASSUME NEW a \in Actors, \/ Request(a) \/ Stumble(a) \/ Crash(a)
             \/ ChooseTrash(a) \/ Plan(a) \/ Admit(a)
      PROVE  media'.purged
  BY <1>2 DEF Request, AskTrash, AskRestore, AskRun, Ask, ChooseTrash, PlanPurge, Stumble, Crash,
              Plan, Admit
<1>3. ASSUME NEW a \in Actors, Work(a), ~ChooseTrash(a), ~Plan(a), ~Admit(a) PROVE media'.purged
  <2>1. CASE \/ Publish(a) \/ CopyBegins(a) \/ CopyEnds(a) \/ LinkTemp(a) \/ UnlinkTemp(a)
             \/ Apply(a) \/ CheckLease(a) \/ UnlinkOrigin(a) \/ SweepTemp(a)
             \/ Collide(a) \/ RecordError(a) \/ Converge(a)
             \/ BuildManifest(a) \/ AttemptChild(a) \/ EraseChild(a) \/ RecordChild(a) \/ Inspect(a)
    BY <2>1
       DEF Publish, CopyBegins, CopyEnds, LinkTemp, UnlinkTemp, Apply, CheckLease, UnlinkOrigin,
           SweepTemp, Collide, RecordError, Converge, BuildManifest, AttemptChild, EraseChild, RecordChild,
           Inspect, Here
  <2>2. CASE PointAndApply(a)
    BY <1>1, <2>2 DEF PointAndApply, MoveTo
  <2>3. CASE Finish(a) \/ ApplyPurge(a)
    BY <1>1, <2>3 DEF Finish, ApplyPurge, FinalMetadata
  <2>4. CASE Act(a)
    BY <1>1, <2>4 DEF Act, RollForward, Rescue
  <2> QED
    BY <1>3, <2>1, <2>2, <2>3, <2>4, ZenonT(40) DEF Work, Execute, Reconcile
<1>4. ASSUME UNCHANGED media PROVE media'.purged
  BY <1>4
<1>5. CASE RunEnds \/ RunReopens \/ Outside \/ Rest \/ UNCHANGED vars
  BY <1>4, <1>5 DEF RunEnds, RunReopens, Outside, Rest, vars
<1>6. ASSUME NEW o \in Op, LeaseExpires(o) \/ RetryDue(o) PROVE media'.purged
  BY <1>4, <1>6 DEF LeaseExpires, RetryDue
<1>7. ASSUME NEW a \in Actors, NEW o \in Op, Claim(a, o) PROVE media'.purged
  BY <1>4, <1>7, Zenon DEF Claim
<1> QED
  BY <1>2, <1>3, <1>5, <1>6, <1>7 DEF Next

(* How the state of a purge changes.                                       *)
LEMMA PurgeRowChanges ==
    ASSUME Base, NEW a \in Actors, NEW o \in Op, OpOf(a) = o, ops[o].kind = "purge",
           (Work(a) /\ ~ChooseTrash(a) /\ ~Plan(a) /\ ~Admit(a)) \/ Stumble(a) \/ Crash(a)
    PROVE  \/ ops'[o].state = ops[o].state
           \/ ops'[o].state = "awaiting_retry"
           \/ Converge(a) /\ Unresolved(o) = {} /\ ops'[o].state = "fs_applied"
           \/ ApplyPurge(a) /\ media'.purged /\ ops'[o].state = "db_applied"
           \/ At(a, "finish") /\ ops'[o].state = "completed"
<1>1. TypeOK /\ ops[o] \in RowType /\ RowOf(a) = ops[o]
  BY DEF Base, TypeOK, RowOf
<1>2. actors[a].pc \notin MovePoint
  BY MoveInHand DEF Move
<1>3. ASSUME UNCHANGED ops \/ Rollback(a) PROVE ops'[o].state = ops[o].state
  <2>1. CASE Rollback(a)
    BY <1>1, <2>1, RollbackFacts, SetRowFacts
  <2> QED
    BY <1>3, <2>1
<1>4. ASSUME NEW row \in RowType, SetRow(o, row) PROVE ops'[o] = row
  BY <1>1, <1>4, SetRowFacts
<1>5. CASE Stumble(a) \/ Crash(a)
  BY <1>3, <1>5, Zenon DEF Stumble, Crash
<1>6. CASE BuildManifest(a) \/ AttemptChild(a) \/ EraseChild(a) \/ RecordChild(a)
  BY <1>3, <1>6 DEF BuildManifest, AttemptChild, EraseChild, RecordChild
<1>7. CASE Finish(a)
  <2>1. Moved(ops[o], "completed") \in RowType /\ Moved(ops[o], "completed").state = "completed"
    BY <1>1, MovedFacts DEF OperationState, Terminal
  <2> QED
    BY <1>1, <1>3, <1>4, <1>7, <2>1 DEF Finish, Transition
<1>8. CASE Converge(a)
  <2>1. /\ Moved(ops[o], "fs_applied") \in RowType
        /\ Moved(ops[o], "fs_applied").state = "fs_applied"
    BY <1>1, MovedFacts DEF OperationState
  <2>2. FALSE \in BOOLEAN
    OBVIOUS
  <2>3. /\ Parked(ops[o], FALSE) \in RowType
        /\ Parked(ops[o], FALSE).state = "awaiting_retry"
    BY <1>1, <2>2, ParkedFacts
  <2>4. \/ Unresolved(o) = {} /\ SetRow(o, Moved(ops[o], "fs_applied"))
        \/ SetRow(o, Parked(ops[o], FALSE))
        \/ UNCHANGED ops \/ Rollback(a)
    BY <1>1, <1>8 DEF Converge, Transition
  <2> QED
    BY <1>3, <1>4, <1>8, <2>1, <2>3, <2>4
<1>9. CASE ApplyPurge(a)
  <2>1. /\ Moved(ops[o], "db_applied") \in RowType
        /\ Moved(ops[o], "db_applied").state = "db_applied"
    BY <1>1, MovedFacts DEF OperationState
  <2>2. \/ Owns(a, o, "fs_applied") /\ SetRow(o, Moved(ops[o], "db_applied"))
        \/ Rollback(a)
    BY <1>1, <1>9 DEF ApplyPurge, Transition
  <2>3. Owns(a, o, "fs_applied") => media'.purged
    BY <1>1, <1>9 DEF ApplyPurge, TypeOK
  <2> QED
    BY <1>3, <1>4, <1>9, <2>1, <2>2, <2>3
<1>10. CASE Inspect(a)
  <2>1. [ops[o] EXCEPT !.held = a] \in RowType
        /\ [ops[o] EXCEPT !.held = a].state = ops[o].state
    BY <1>1 DEF RowType
  <2> QED
    BY <1>3, <1>4, <1>10, <2>1 DEF Inspect
<1>11. CASE Rescue(a)
  <2> DEFINE mine == [Parked(ops[o], FALSE) EXCEPT !.owner = a]
  <2>1. FALSE \in BOOLEAN /\ TRUE \in BOOLEAN
    OBVIOUS
  <2>2. /\ Parked(ops[o], FALSE) \in RowType
        /\ Parked(ops[o], FALSE).state = "awaiting_retry"
    BY <1>1, <2>1, ParkedFacts
  <2>3. mine \in RowType /\ mine.state = "awaiting_retry"
    BY <2>2 DEF RowType
  <2>4. [mine EXCEPT !.live = TRUE] \in RowType
        /\ [mine EXCEPT !.live = TRUE].state = "awaiting_retry"
    BY <2>1, <2>3 DEF RowType
  <2>5. UNCHANGED ops \/ SetRow(o, mine) \/ SetRow(o, [mine EXCEPT !.live = TRUE])
    BY <1>11 DEF Rescue
  <2> QED
    BY <1>3, <1>4, <2>3, <2>4, <2>5
<1> QED
  BY <1>2, <1>5, <1>6, <1>7, <1>8, <1>9, <1>10, <1>11
     DEF Work, Execute, Reconcile, Act, MovePoint, At, Publish, CopyBegins, CopyEnds, LinkTemp,
         UnlinkTemp, Apply, PointAndApply, CheckLease, UnlinkOrigin, SweepTemp, Collide,
         RecordError, GiveUp, Shelve, Scrap, LeaveTemp, SparesTemp, Restart, CleanUp,
         RelinkFails, RollForward, Decided

(* What a planned operation adds: one row, its planner at the start of the *)
(* executor or of the purge, on an item nobody else has taken.             *)
LEMMA PlanOpens ==
    ASSUME Base, NEW a \in Actors, Plan(a), ~(Leave(a) /\ UNCHANGED ops)
    PROVE  \E o \in Op :
               /\ ops[o].kind = "none" /\ \A p \in Op : p # o => ops'[p] = ops[p]
               /\ ops'[o].kind = actors[a].seen.kind /\ ops'[o].kind \in {"trash", "restore"}
               /\ ops'[o].origin = actors[a].seen.path
               /\ ops'[o].dest = IF ops'[o].kind = "trash" THEN Trash(o) ELSE actors[a].seen.dest
               /\ ops'[o].state = "planned" /\ ops'[o].owner = a /\ ops'[o].live
               /\ ops'[o].held = NoOne
               /\ actors'[a].pc = "publish" /\ actors'[a].op = o
               /\ \A b \in Actors : b # a => actors'[b] = actors[b]
               /\ ~HasActiveOperation /\ At(a, "plan") /\ OpOf(a) = 0
<1>1. TypeOK /\ At(a, "plan") /\ Idle \in ActorType
  BY IdleFacts DEF Base, Plan
<1>2. OpOf(a) = 0 /\ actors[a].seen.kind \in {"trash", "restore"}
  BY <1>1, ZenonT(40) DEF Base, ActorsFine, ActorFine, At, OpOf
<1> DEFINE seen == actors[a].seen
           dest(o) == IF seen.kind = "trash" THEN Trash(o) ELSE seen.dest
<1>3. PICK o \in Op : /\ Fresh(o) /\ SetRow(o, PlannedRow(a, seen.kind, seen.path, dest(o)))
                      /\ Become(a, [Idle EXCEPT !.pc = "publish", !.op = o])
                      /\ ~Refused(seen)
  BY DEF Plan
<1>4. ops'[o] = PlannedRow(a, seen.kind, seen.path, dest(o))
      /\ \A p \in Op : p # o => ops'[p] = ops[p]
  BY <1>1, <1>3 DEF SetRow, TypeOK
<1>5. /\ ops'[o].kind = seen.kind /\ ops'[o].origin = seen.path /\ ops'[o].dest = dest(o)
      /\ ops'[o].state = "planned" /\ ops'[o].owner = a /\ ops'[o].live /\ ops'[o].held = NoOne
  BY <1>4 DEF PlannedRow
<1>6. /\ actors'[a].pc = "publish" /\ actors'[a].op = o
      /\ \A b \in Actors : b # a => actors'[b] = actors[b]
  BY <1>1, <1>3 DEF Become, TypeOK, Idle
<1>7. ops[o].kind = "none" /\ ~HasActiveOperation
  BY <1>3 DEF Fresh, Refused
<1>8. /\ ops'[o].kind = actors[a].seen.kind /\ ops'[o].kind \in {"trash", "restore"}
      /\ ops'[o].origin = actors[a].seen.path
      /\ ops'[o].dest = IF ops'[o].kind = "trash" THEN Trash(o) ELSE actors[a].seen.dest
      /\ ops'[o].state = "planned" /\ ops'[o].owner = a /\ ops'[o].live
      /\ ops'[o].held = NoOne
  BY <1>2, <1>5
<1>9. \A p \in Op : p # o => ops'[p] = ops[p]
  BY <1>4
<1> QED
  BY <1>1, <1>2, <1>6, <1>7, <1>8, <1>9, Zenon

(* So does a planned purge.                                                *)
LEMMA PurgeOpens ==
    ASSUME Base, NEW a \in Actors, PlanPurge(a)
    PROVE  \E o \in Op :
               /\ ops[o].kind = "none" /\ \A p \in Op : p # o => ops'[p] = ops[p]
               /\ ops'[o].kind = "purge" /\ ops'[o].origin = media.path
               /\ ops'[o].state = "planned" /\ ops'[o].owner = a /\ ops'[o].live
               /\ ops'[o].held = NoOne
               /\ actors'[a].pc = "manifest" /\ actors'[a].op = o
               /\ \A b \in Actors : b # a => actors'[b] = actors[b]
               /\ ~HasActiveOperation /\ At(a, "idle") /\ OpOf(a) = 0
<1>1. TypeOK /\ At(a, "idle") /\ ~HasActiveOperation
  BY DEF Base, PlanPurge
<1>2. OpOf(a) = 0
  BY <1>1 DEF Base, ActorsFine, ActorFine, At, OpOf
<1>3. PICK o \in Op : /\ Fresh(o) /\ SetRow(o, PlannedRow(a, "purge", media.path, Nowhere))
                      /\ Become(a, [Idle EXCEPT !.pc = "manifest", !.op = o])
  BY DEF PlanPurge
<1>4. ops'[o] = PlannedRow(a, "purge", media.path, Nowhere)
      /\ \A p \in Op : p # o => ops'[p] = ops[p]
  BY <1>1, <1>3 DEF SetRow, TypeOK
<1>5. /\ ops'[o].kind = "purge" /\ ops'[o].origin = media.path
      /\ ops'[o].state = "planned" /\ ops'[o].owner = a /\ ops'[o].live /\ ops'[o].held = NoOne
  BY <1>4 DEF PlannedRow
<1>6. /\ actors'[a].pc = "manifest" /\ actors'[a].op = o
      /\ \A b \in Actors : b # a => actors'[b] = actors[b]
  BY <1>1, <1>3 DEF Become, TypeOK, Idle
<1>7. ops[o].kind = "none"
  BY <1>3 DEF Fresh
<1> QED
  BY <1>1, <1>2, <1>4, <1>5, <1>6, <1>7

(* Time changes neither who works on what nor the state of a row.          *)
LEMMA TimeKeeps ==
    ASSUME TypeOK, NEW o \in Op, LeaseExpires(o) \/ RetryDue(o)
    PROVE  /\ UNCHANGED <<media, files, manifest, stager, runs, actors>>
           /\ \A p \in Op : /\ ops'[p].kind = ops[p].kind /\ ops'[p].origin = ops[p].origin
                            /\ ops'[p].dest = ops[p].dest /\ ops'[p].state = ops[p].state
                            /\ ops'[p].owner = ops[p].owner
                            /\ p # o => ops'[p] = ops[p]
<1>1. ops[o] \in RowType
  BY DEF TypeOK
<1>2. \/ ops' = [ops EXCEPT ![o] = [ops[o] EXCEPT !.live = FALSE]]
      \/ ops' = [ops EXCEPT ![o] = [ops[o] EXCEPT !.due = TRUE]]
  BY DEF LeaseExpires, RetryDue, SetRow
<1> QED
  BY <1>1, <1>2 DEF TypeOK, RowType, LeaseExpires, RetryDue

(* A claim takes one row, whatever its state.                              *)
LEMMA ClaimTakes ==
    ASSUME Base, NEW a \in Actors, NEW o \in Op, Claim(a, o)
    PROVE  /\ UNCHANGED <<media, files, manifest, stager, runs, env>>
           /\ \A p \in Op : /\ ops'[p].kind = ops[p].kind /\ ops'[p].origin = ops[p].origin
                            /\ ops'[p].dest = ops[p].dest /\ ops'[p].state = ops[p].state
                            /\ p # o => ops'[p] = ops[p]
           /\ ops'[o].owner = a /\ ops'[o].live /\ Active(o) /\ Claimable(o) /\ OpOf(a) = 0
           /\ actors'[a].pc = "relock" /\ actors'[a].op = o
           /\ \A b \in Actors : b # a => actors'[b] = actors[b]
<1>1. TypeOK /\ At(a, "idle") /\ Active(o) /\ Claimable(o)
  BY DEF Base, Claim
<1>2. OpOf(a) = 0 /\ ops[o] \in RowType
  BY <1>1 DEF Base, ActorsFine, ActorFine, At, OpOf, TypeOK
<1>3. ops' = [ops EXCEPT ![o] = [ops[o] EXCEPT !.owner = a, !.live = TRUE]]
      /\ actors' = [actors EXCEPT ![a] = [Idle EXCEPT !.pc = "relock", !.op = o]]
  BY DEF Claim, SetRow, Become
<1>4. /\ \A p \in Op : /\ ops'[p].kind = ops[p].kind /\ ops'[p].origin = ops[p].origin
                       /\ ops'[p].dest = ops[p].dest /\ ops'[p].state = ops[p].state
                       /\ p # o => ops'[p] = ops[p]
      /\ ops'[o].owner = a /\ ops'[o].live
  BY <1>1, <1>2, <1>3 DEF TypeOK, RowType
<1>5. /\ actors'[a].pc = "relock" /\ actors'[a].op = o
      /\ \A b \in Actors : b # a => actors'[b] = actors[b]
  BY <1>1, <1>3 DEF TypeOK, Idle
<1> QED
  BY <1>1, <1>2, <1>4, <1>5 DEF Claim

(* A request that only looks.                                              *)
LEMMA AskLooks ==
    ASSUME Base, NEW a \in Actors,
           AskTrash(a) \/ AskRestore(a) \/ AskRun(a) \/ ChooseTrash(a)
    PROVE  /\ UNCHANGED <<media, ops, files, manifest, stager, runs>> /\ env'.met = env.met
           /\ actors'[a].pc \in {"idle", "choose", "plan", "admit"}
           /\ actors'[a].op = 0 /\ OpOf(a) = 0
           /\ At(a, "plan")' /\ actors'[a].seen.kind = "restore" =>
                  \E o \in Op : ops[o].kind = "trash" /\ ops[o].origin = actors'[a].seen.dest
           /\ \A b \in Actors : b # a => actors'[b] = actors[b]
<1>1. TypeOK
  BY DEF Base
<1>2. CASE ChooseTrash(a)
  <2>1. OpOf(a) = 0 /\ UNCHANGED <<media, ops, files, manifest, stager, runs, env>>
    BY <1>2, ChooseFacts
  <2>2. CASE Leave(a)
    BY <1>1, <2>1, <2>2, LeaveFacts, IdleFacts DEF At
  <2>3. CASE ~Leave(a)
    <3>1. PICK o \in Op : \E me \in ActorType :
              /\ ops[o].kind = "trash" /\ Become(a, me)
              /\ me.pc = "plan" /\ me.op = 0 /\ me.seen.dest = ops[o].origin
      BY <1>2, <2>3, ChooseFacts
    <3>2. PICK me \in ActorType :
              /\ Become(a, me) /\ me.pc = "plan" /\ me.op = 0 /\ me.seen.dest = ops[o].origin
      BY <3>1
    <3>3. actors'[a] = me /\ \A b \in Actors : b # a => actors'[b] = actors[b]
      BY <1>1, <3>2, BecomeFacts
    <3> QED
      BY <2>1, <3>1, <3>2, <3>3
  <2> QED
    BY <2>2, <2>3
<1>3. CASE AskTrash(a) \/ AskRestore(a) \/ AskRun(a)
  <2>1. At(a, "idle") /\ UNCHANGED <<media, ops, files, manifest, stager, runs>>
    BY <1>3 DEF AskTrash, AskRestore, AskRun, Ask
  <2>2. OpOf(a) = 0
    BY <2>1 DEF Base, ActorsFine, ActorFine, At, OpOf
  <2>3. env'.met = env.met
    <3>1. env' = [env EXCEPT !.requests = @ - 1]
      BY <1>3, SMTT(30) DEF AskTrash, AskRestore, AskRun, Ask
    <3> QED
      BY <1>1, <3>1 DEF TypeOK, EnvType
  <2>4. PICK pc \in {"choose", "plan", "admit"} : \E seen :
            /\ Become(a, [Idle EXCEPT !.pc = pc, !.seen = seen])
            /\ pc = "plan" => seen.kind # "restore"
    <3>1. CASE AskTrash(a)
      <4>1. SeenAs("trash", Nowhere).kind # "restore"
        BY DEF SeenAs
      <4>2. Become(a, [Idle EXCEPT !.pc = "plan", !.seen = SeenAs("trash", Nowhere)])
        BY <3>1 DEF AskTrash, Ask
      <4> QED
        BY <4>1, <4>2
    <3>2. CASE AskRestore(a)
      <4>1. Become(a, [Idle EXCEPT !.pc = "choose", !.seen = SeenAs("restore", Nowhere)])
        BY <3>2 DEF AskRestore, Ask
      <4> QED
        BY <4>1
    <3>3. CASE AskRun(a)
      <4>1. Become(a, [Idle EXCEPT !.pc = "admit", !.seen = SeenAs("none", Nowhere)])
        BY <3>3 DEF AskRun, Ask
      <4> QED
        BY <4>1
    <3> QED
      BY <1>3, <3>1, <3>2, <3>3
  <2>5. PICK seen : /\ Become(a, [Idle EXCEPT !.pc = pc, !.seen = seen])
                    /\ pc = "plan" => seen.kind # "restore"
    BY <2>4
  <2>6. /\ actors'[a].pc = pc /\ actors'[a].op = 0 /\ actors'[a].seen = seen
        /\ \A b \in Actors : b # a => actors'[b] = actors[b]
    BY <1>1, <2>5 DEF Become, TypeOK, Idle
  <2> QED
    BY <2>1, <2>2, <2>3, <2>5, <2>6 DEF At
<1> QED
  BY <1>2, <1>3

(* An actor's work: with an operation in hand, an error or its death.      *)
Working(a) == (Work(a) /\ ~ChooseTrash(a) /\ ~Plan(a) /\ ~Admit(a)) \/ Stumble(a) \/ Crash(a)

Looks(a) == AskTrash(a) \/ AskRestore(a) \/ AskRun(a) \/ ChooseTrash(a)

Opens(a) == (Plan(a) /\ ~(Leave(a) /\ UNCHANGED ops)) \/ PlanPurge(a)

Refuses(a) == (Plan(a) /\ Leave(a) /\ UNCHANGED ops) \/ Admit(a)

Elsewhere == RunEnds \/ RunReopens \/ Outside \/ Rest \/ UNCHANGED vars

(* What a step of the journal can be.                                      *)
LEMMA StepKinds ==
    ASSUME [Next]_vars
    PROVE  \/ \E a \in Actors : Working(a) \/ Looks(a) \/ Opens(a) \/ Refuses(a)
           \/ \E a \in Actors, o \in Op : Claim(a, o)
           \/ \E o \in Op : LeaseExpires(o) \/ RetryDue(o)
           \/ Elsewhere
BY Zenon DEF Next, Request, Working, Looks, Opens, Refuses, Elsewhere

(* Who is refused, or admitted, leaves the journal as it was.              *)
LEMMA RefusesNothing ==
    ASSUME TypeOK, NEW a \in Actors, Refuses(a)
    PROVE  /\ UNCHANGED <<media, ops, files, manifest, stager, env>>
           /\ actors'[a] = Idle /\ \A b \in Actors : b # a => actors'[b] = actors[b]
BY LeaveFacts DEF Refuses, Plan, Admit

(* Work is a step of the actor, on the row in hand.                        *)
LEMMA WorkingSteps == ASSUME Base, NEW a \in Actors, Working(a) PROVE Step(a) /\ AtWork(a)
BY WorkingStep, StumbleStep, CrashStep, WorkingAtWork DEF Working

(* Where the restores go is where some trash came from.                    *)
LEMMA RestoresFineNext ==
    ASSUME Base, RestoresFine, [Next]_vars PROVE RestoresFine'
<1>1. TypeOK
  BY DEF Base
<1>2. ASSUME NEW p, CameFrom(p) PROVE \E k \in Op : ops'[k].kind = "trash" /\ ops'[k].origin = p
  <2>1. PICK k \in Op : ops[k].kind = "trash" /\ ops[k].origin = p
    BY <1>2 DEF CameFrom
  <2> QED
    BY <2>1, RowsStand
<1>3. ASSUME NEW o \in Op, ops[o].kind # "none", ops'[o].kind = "restore"
      PROVE  CameFrom(ops[o].dest) /\ ops'[o].dest = ops[o].dest
  BY <1>3, RowsStand DEF RestoresFine
<1>4. ASSUME NEW a \in Actors, At(a, "plan"), actors[a].seen.kind = "restore"
      PROVE  CameFrom(actors[a].seen.dest)
  BY <1>4 DEF RestoresFine
<1>5. SUFFICES /\ \A o \in Op : ops'[o].kind = "restore" =>
                      ops[o].kind # "none" \/ CameFrom(ops'[o].dest)
               /\ \A a \in Actors : actors'[a].pc = "plan" /\ actors'[a].seen.kind = "restore" =>
                      \/ At(a, "plan") /\ actors'[a].seen = actors[a].seen
                      \/ CameFrom(actors'[a].seen.dest)
  <2> SUFFICES ASSUME /\ \A o \in Op : ops'[o].kind = "restore" =>
                             ops[o].kind # "none" \/ CameFrom(ops'[o].dest)
                      /\ \A a \in Actors : actors'[a].pc = "plan" /\ actors'[a].seen.kind = "restore" =>
                             \/ At(a, "plan") /\ actors'[a].seen = actors[a].seen
                             \/ CameFrom(actors'[a].seen.dest)
               PROVE  RestoresFine'
    OBVIOUS
  <2>1. ASSUME NEW o \in Op, ops'[o].kind = "restore"
        PROVE  \E k \in Op : ops'[k].kind = "trash" /\ ops'[k].origin = ops'[o].dest
    <3>1. CameFrom(ops'[o].dest)
      BY <1>3, <2>1 DEF CameFrom
    <3> QED
      BY <1>2, <3>1
  <2>2. ASSUME NEW a \in Actors, actors'[a].pc = "plan", actors'[a].seen.kind = "restore"
        PROVE  \E k \in Op : ops'[k].kind = "trash" /\ ops'[k].origin = actors'[a].seen.dest
    <3>1. CameFrom(actors'[a].seen.dest)
      BY <1>4, <2>2 DEF CameFrom
    <3> QED
      BY <1>2, <3>1
  <2> QED
    BY <2>1, <2>2 DEF RestoresFine, CameFrom, At
<1>6. CASE \E a \in Actors : Working(a)
  <2>1. PICK a \in Actors : Working(a)
    BY <1>6
  <2>2. Step(a) /\ AtWork(a)
    BY <2>1, WorkingSteps
  <2> QED
    BY <2>2 DEF Step, Frame, OldRows, OthersStay, AtWork, At
<1>7. CASE \E a \in Actors : Looks(a)
  BY <1>7, AskLooks DEF Looks, CameFrom, At
<1>8. CASE \E a \in Actors : Refuses(a)
  BY <1>1, <1>8, RefusesNothing, IdleFacts DEF At
<1>9. CASE \E a \in Actors : Opens(a)
  <2>1. PICK a \in Actors : Opens(a)
    BY <1>9
  <2>2. CASE PlanPurge(a)
    BY <2>2, PurgeOpens DEF At
  <2>3. CASE Plan(a) /\ ~(Leave(a) /\ UNCHANGED ops)
    BY <1>4, <2>3, PlanOpens DEF At, CameFrom
  <2> QED
    BY <2>1, <2>2, <2>3 DEF Opens
<1>10. CASE \E a \in Actors, o \in Op : Claim(a, o)
  BY <1>10, ClaimTakes DEF At
<1>11. CASE \E o \in Op : LeaseExpires(o) \/ RetryDue(o)
  BY <1>1, <1>11, TimeKeeps DEF At
<1>12. CASE Elsewhere
  BY <1>12 DEF Elsewhere, RunEnds, RunReopens, Outside, Rest, vars, At
<1> QED
  BY <1>6, <1>7, <1>8, <1>9, <1>10, <1>11, <1>12, StepKinds

(* Who comes to the last step of a purge finds the media row emptied.      *)
LEMMA PurgeFinishes ==
    ASSUME Base, PurgesFine, NEW a \in Actors, NEW o \in Op, OpOf(a) = o, ops[o].kind = "purge",
           Working(a), actors'[a].pc = "finish"
    PROVE  media.purged \/ media'.purged
<1>1. TypeOK /\ ops[o] \in RowType /\ RowOf(a) = ops[o] /\ actors[a] \in ActorType
  BY DEF Base, TypeOK, RowOf
<1>2. actors[a].pc \notin MovePoint
  BY MoveInHand DEF Move
<1>3. ~Leave(a)
  BY <1>1, LeaveFacts, IdleFacts
<1>4. ASSUME NEW me, Become(a, me) PROVE me.pc = "finish"
  <2>1. actors'[a] = me
    BY <1>1, <1>4 DEF Become, TypeOK
  <2> QED
    BY <2>1
<1>5. ASSUME NEW pc, NEW me, me = [actors[a] EXCEPT !.pc = pc] PROVE me.pc = pc
  BY <1>1, <1>5 DEF ActorType
<1>6. ASSUME NEW pc, Goto(a, pc) PROVE pc = "finish"
  BY <1>6, <1>4, <1>5 DEF Goto
<1>7. CASE Stumble(a) \/ Crash(a)
  BY <1>3, <1>6, <1>7 DEF Stumble, Crash
<1>8. CASE BuildManifest(a) \/ AttemptChild(a) \/ EraseChild(a) \/ RecordChild(a)
  <2>1. ~BuildManifest(a)
    <3>1. PICK left : BuildManifest(a) =>
              Become(a, [actors[a] EXCEPT !.pc = "children", !.todo = left])
      BY DEF BuildManifest
    <3>2. [actors[a] EXCEPT !.pc = "children", !.todo = left].pc = "children"
      BY <1>1 DEF ActorType
    <3> QED
      BY <1>4, <3>1, <3>2
  <2>2. ~AttemptChild(a)
    <3>1. PICK p : AttemptChild(a) =>
              \/ Goto(a, "converge")
              \/ Become(a, [actors[a] EXCEPT !.pc = "erase", !.part = p, !.todo = @ \ {p}])
      BY DEF AttemptChild
    <3>2. [actors[a] EXCEPT !.pc = "erase", !.part = p, !.todo = @ \ {p}].pc = "erase"
      BY <1>1 DEF ActorType
    <3> QED
      BY <1>6, <1>4, <3>1, <3>2
  <2>3. ~EraseChild(a)
    <3>1. PICK outcome : EraseChild(a) =>
              Become(a, [actors[a] EXCEPT !.pc = "record", !.outcome = outcome])
      BY DEF EraseChild
    <3>2. [actors[a] EXCEPT !.pc = "record", !.outcome = outcome].pc = "record"
      BY <1>1 DEF ActorType
    <3> QED
      BY <1>4, <3>1, <3>2
  <2>4. ~RecordChild(a)
    <3>1. PICK part, outcome : RecordChild(a) =>
              Become(a, [actors[a] EXCEPT !.pc = "children", !.part = part,
                                          !.outcome = outcome])
      BY DEF RecordChild
    <3>2. [actors[a] EXCEPT !.pc = "children", !.part = part, !.outcome = outcome].pc
              = "children"
      BY <1>1 DEF ActorType
    <3> QED
      BY <1>4, <3>1, <3>2
  <2> QED
    BY <1>8, <2>1, <2>2, <2>3, <2>4
<1>9. CASE Converge(a)
  <2>1. [actors[a] EXCEPT !.pc = "purged", !.from = "fs_applied"].pc = "purged"
    BY <1>1 DEF ActorType
  <2>2. \/ Become(a, [actors[a] EXCEPT !.pc = "purged", !.from = "fs_applied"])
        \/ Goto(a, "rescue") \/ Leave(a)
    BY <1>9 DEF Converge, Transition, Leave
  <2> QED
    BY <1>3, <1>6, <1>4, <2>1, <2>2
<1>10. CASE ApplyPurge(a)
  BY <1>1, <1>3, <1>10 DEF ApplyPurge, Transition, TypeOK
<1>11. CASE Finish(a)
  BY <1>3, <1>11 DEF Finish, Transition, Leave
<1>12. CASE Inspect(a)
  <2>1. PurgeEntry(ops[o].state) = "finish"
    <3>1. /\ [actors[a] EXCEPT !.pc = PurgeEntry(ops[o].state), !.from = ops[o].state,
                               !.role = "reconciler"].pc = PurgeEntry(ops[o].state)
      BY <1>1 DEF ActorType
    <3>2. Become(a, [actors[a] EXCEPT !.pc = PurgeEntry(ops[o].state), !.from = ops[o].state,
                                      !.role = "reconciler"])
      BY <1>3, <1>12 DEF Inspect
    <3> QED
      BY <1>4, <3>1, <3>2
  <2>2. ops[o].state = "db_applied"
    BY <2>1 DEF PurgeEntry
  <2> QED
    BY <2>2 DEF PurgesFine
<1>13. CASE Rescue(a)
  BY <1>3, <1>13 DEF Rescue
<1> QED
  BY <1>2, <1>7, <1>8, <1>9, <1>10, <1>11, <1>12, <1>13
     DEF Working, Work, Execute, Reconcile, Act, MovePoint, At, Publish, CopyBegins, CopyEnds,
         LinkTemp, UnlinkTemp, Apply, PointAndApply, CheckLease, UnlinkOrigin, SweepTemp, Collide,
         RecordError, GiveUp, Shelve, Scrap, LeaveTemp, SparesTemp, Restart, CleanUp,
         RelinkFails, RollForward, Decided

(* A purge past its pointer write has emptied the media row, whoever       *)
(* carried it on.                                                          *)
LEMMA PurgesFineNext ==
    ASSUME Base, PurgesFine, [Next]_vars PROVE PurgesFine'
<1> DEFINE Over == {"db_applied"} \cup Terminal
<1>1. TypeOK /\ (media.purged => media'.purged)
  BY PurgedStays DEF Base
<1>2. ASSUME NEW o \in Op, ops[o].kind = "purge", ops[o].state \in Over PROVE media.purged
  BY <1>2 DEF PurgesFine
<1>3. ASSUME NEW b \in Actors, actors[b].pc = "finish"
      PROVE  OpOf(b) \in Op /\ ops[OpOf(b)].kind # "none"
             /\ (ops[OpOf(b)].kind = "purge" => media.purged)
  BY <1>3, InHand DEF PurgesFine, At, RowOf
<1>4. SUFFICES /\ \A o \in Op : ops'[o].kind = "purge" /\ ops'[o].state \in Over =>
                      \/ ops[o].kind = "purge" /\ ops[o].state \in Over
                      \/ media.purged \/ media'.purged
               /\ \A b \in Actors : actors'[b].pc = "finish" =>
                      actors'[b] = actors[b] \/ ops'[actors'[b].op].kind # "purge"
                      \/ media.purged \/ media'.purged
  <2> SUFFICES ASSUME /\ \A o \in Op : ops'[o].kind = "purge" /\ ops'[o].state \in Over =>
                             \/ ops[o].kind = "purge" /\ ops[o].state \in Over
                             \/ media.purged \/ media'.purged
                      /\ \A b \in Actors : actors'[b].pc = "finish" =>
                             actors'[b] = actors[b] \/ ops'[actors'[b].op].kind # "purge"
                             \/ media.purged \/ media'.purged
               PROVE  PurgesFine'
    OBVIOUS
  <2>1. \A o \in Op : ops'[o].kind = "purge" /\ ops'[o].state \in Over => media'.purged
    BY <1>1, <1>2
  <2>2. ASSUME NEW b \in Actors, actors'[b].pc = "finish", ops'[actors'[b].op].kind = "purge"
        PROVE  media'.purged
    BY <1>1, <1>3, <2>2, RowsStand DEF OpOf
  <2> QED
    BY <2>1, <2>2 DEF PurgesFine, At, RowOf, OpOf
<1>5. CASE \E a \in Actors : Working(a)
  <2>1. PICK a \in Actors : Working(a)
    BY <1>5
  <2>2. /\ OneRow(a) /\ OwnRow(a)
        /\ \A p \in Op : ops'[p].kind = ops[p].kind
        /\ \A b \in Actors : b # a => actors'[b] = actors[b]
    BY <2>1, WorkingSteps DEF Step, Frame, OldRows, OthersStay, AtWork
  <2>3. ASSUME NEW o \in Op, OpOf(a) = o, ops[o].kind = "purge", ops'[o].state \in Over
        PROVE  ops[o].state \in Over \/ media.purged \/ media'.purged
    <3>1. At(a, "finish") => media.purged
      BY <1>3, <2>3 DEF At
    <3> QED
      BY <2>1, <2>3, <3>1, PurgeRowChanges DEF Working, Terminal
  <2>4. \A o \in Op : ops'[o].kind = "purge" /\ ops'[o].state \in Over =>
            \/ ops[o].kind = "purge" /\ ops[o].state \in Over
            \/ media.purged \/ media'.purged
    BY <2>2, <2>3 DEF OneRow
  <2>5. ASSUME actors'[a].pc = "finish", ops'[actors'[a].op].kind = "purge"
        PROVE  media.purged \/ media'.purged
    <3>1. actors'[a].op # 0
      BY <2>1, <2>5, WorkingSteps DEF Step, Frame, OwnFine, ActorFine
    <3>2. OpOf(a) = actors'[a].op /\ OpOf(a) \in Op
      BY <1>1, <2>2, <3>1, OpsAreNumbers DEF OwnRow, OpOf, TypeOK, ActorType
    <3> QED
      BY <2>1, <2>2, <2>5, <3>2, PurgeFinishes
  <2> QED
    BY <2>2, <2>4, <2>5
<1>6. CASE \E a \in Actors : Looks(a)
  BY <1>6, AskLooks DEF Looks
<1>7. CASE \E a \in Actors : Refuses(a)
  BY <1>1, <1>7, RefusesNothing, IdleFacts
<1>8. CASE \E a \in Actors : Opens(a)
  BY <1>8, PurgeOpens, PlanOpens DEF Opens, Terminal
<1>9. CASE \E a \in Actors, o \in Op : Claim(a, o)
  BY <1>9, ClaimTakes
<1>10. CASE \E o \in Op : LeaseExpires(o) \/ RetryDue(o)
  BY <1>1, <1>10, TimeKeeps
<1>11. CASE Elsewhere
  BY <1>11 DEF Elsewhere, RunEnds, RunReopens, Outside, Rest, vars
<1> QED
  BY <1>5, <1>6, <1>7, <1>8, <1>9, <1>10, <1>11, StepKinds
-----------------------------------------------------------------------------
(* The flag follows the pointer: either a step leaves media row and the    *)
(* operations past their pointer write alone, or its owner moves the       *)
(* pointer, or ends the operation with pointer and flag in step.           *)

QuietFlag(a) ==
    /\ media' = media
    /\ \A p \in Op : Applied(p)' <=> Applied(p)
    /\ FlagFine(a)'

MovedFlag(a) ==
    /\ Mine(a) /\ OpOf(a) \in Op /\ Active(OpOf(a))
    /\ \/ media'.path = RowOf(a).dest /\ ops'[OpOf(a)].state = "db_applied"
       \/ InStep' /\ ops'[OpOf(a)].state \in Terminal
    /\ FlagFine(a)'

FlagStep(a) == QuietFlag(a) \/ MovedFlag(a)

FlagPoint == BeforePoint \cup AfterPoint

(* They are places of a move.                                              *)
LEMMA FlagPoints == FlagPoint \subseteq MovePoint \cup {"finish"}
BY DEF FlagPoint, BeforePoint, AfterPoint, MovePoint

(* An actor that has left, or that moves nothing, owes nothing.            *)
LEMMA FlagRests ==
    ASSUME NEW a \in Actors, actors'[a].pc \notin FlagPoint \cup {"rescue"}
    PROVE  FlagFine(a)'
BY DEF FlagFine, FlagPoint, At

(* Nobody's place changes if the rows past their pointer write stay.       *)
LEMMA QuietKeeps ==
    ASSUME Base, Flagged, NEW a \in Actors, QuietFlag(a), OthersStay(a),
           \A p \in Op : ops[p].kind # "none" =>
               ops'[p].kind = ops[p].kind /\ ops'[p].dest = ops[p].dest,
           \A p \in Op : ops'[p].owner \in {ops[p].owner, a}
    PROVE  Flagged'
<1>1. ASSUME NEW b \in Actors, b # a PROVE FlagFine(b)'
  <2>1. actors'[b] = actors[b] /\ FlagFine(b)
    BY <1>1 DEF OthersStay, Flagged
  <2>2. CASE actors[b].pc \notin FlagPoint
    BY <2>1, <2>2 DEF FlagFine, FlagPoint, At
  <2>3. CASE actors[b].pc \in FlagPoint
    <3>1. PICK o \in Op : o = OpOf(b) /\ ops[o].kind # "none"
      BY <2>3, FlagPoints, InHand DEF MovePoint
    <3>2. /\ ops'[o].kind = ops[o].kind /\ ops'[o].dest = ops[o].dest
          /\ ops'[o].owner \in {ops[o].owner, a}
          /\ OpOf(b)' = o /\ RowOf(b)' = ops'[o] /\ RowOf(b) = ops[o]
      BY <2>1, <3>1 DEF OpOf, RowOf
    <3>3. Mine(b)' => Mine(b)
      BY <1>1, <3>2 DEF Mine
    <3>4. ops'[o].state = "db_applied" => ops[o].state = "db_applied"
      BY <3>1, <3>2 DEF QuietFlag, Applied, Active, Terminal
    <3>5. InStep' <=> InStep
      BY DEF QuietFlag, InStep
    <3> QED
      BY <2>1, <3>2, <3>3, <3>4, <3>5 DEF FlagFine, At, QuietFlag
  <2> QED
    BY <2>2, <2>3
<1>2. \A b \in Actors : FlagFine(b)'
  BY <1>1 DEF QuietFlag
<1>3. ~InStep' => \E o \in Op : Applied(o)'
  BY DEF QuietFlag, Flagged, InStep
<1>4. ASSUME NEW o \in Op, Applied(o)' PROVE media'.path = ops'[o].dest
  <2>1. Applied(o)
    BY <1>4 DEF QuietFlag
  <2> QED
    BY <2>1 DEF Applied, Active, Flagged, QuietFlag
<1> QED
  BY <1>2, <1>3, <1>4 DEF Flagged

(* While the owner moves the pointer or ends the operation, nobody else    *)
(* has any part in it.                                                     *)
LEMMA MovedKeeps ==
    ASSUME Base, Base', Flagged, NEW a \in Actors, MovedFlag(a), Frame(a), OneRow(a)
    PROVE  Flagged'
<1>1. PICK o \in Op : o = OpOf(a) /\ RowOf(a) = ops[o] /\ ops[o].owner = a /\ Active(o)
  BY DEF MovedFlag, Mine, RowOf
<1>2. /\ \A p \in Op : p # o => ops'[p] = ops[p]
      /\ ops'[o].kind = ops[o].kind /\ ops'[o].dest = ops[o].dest
  BY <1>1 DEF OneRow, Frame, OldRows
<1>3. \A p \in Op : Active(p) => p = o
  BY <1>1 DEF Base, ItemTakenOnce
<1>4. \A p \in Op : Applied(p)' => p = o
  BY <1>2, <1>3 DEF Applied, Active
<1>5. ASSUME NEW b \in Actors, b # a PROVE FlagFine(b)'
  <2>1. actors'[b] = actors[b] /\ FlagFine(b)
    BY <1>5 DEF Frame, OthersStay, Flagged
  <2>2. CASE actors[b].pc \notin FlagPoint
    BY <2>1, <2>2 DEF FlagFine, FlagPoint, At
  <2>3. CASE actors[b].pc \in FlagPoint
    <3>1. PICK p \in Op : p = OpOf(b) /\ ops[p].kind # "none"
      BY <2>3, FlagPoints, InHand DEF MovePoint
    <3>2. OpOf(b)' = p /\ RowOf(b)' = ops'[p] /\ p # 0
      BY <2>1, <3>1, OpsAreNumbers DEF OpOf, RowOf
    <3>3. ASSUME Mine(b)' PROVE FALSE
      <4>1. ops'[p].owner = b
        BY <3>2, <3>3 DEF Mine
      <4>2. ops[p].owner = b
        BY <1>5, <4>1 DEF Frame, RowsStep
      <4>3. Active(p)
        BY <3>1, <3>2, <4>2 DEF Base, OwnersBusy, Mine, RowOf
      <4> QED
        BY <1>1, <1>3, <1>5, <4>2, <4>3
    <3> QED
      BY <2>1, <3>3 DEF FlagFine, At
  <2> QED
    BY <2>2, <2>3
<1>6. \A b \in Actors : FlagFine(b)'
  BY <1>5 DEF MovedFlag
<1>7. CASE media'.path = RowOf(a).dest /\ ops'[OpOf(a)].state = "db_applied"
  <2>1. Applied(o)'
    BY <1>1, <1>2, <1>7 DEF Applied, Active, Terminal
  <2> QED
    BY <1>1, <1>2, <1>4, <1>6, <1>7, <2>1 DEF Flagged
<1>8. CASE InStep' /\ ops'[OpOf(a)].state \in Terminal
  <2>1. ~Applied(o)'
    BY <1>1, <1>8 DEF Applied, Active
  <2> QED
    BY <1>4, <1>6, <1>8, <2>1 DEF Flagged
<1> QED
  BY <1>7, <1>8 DEF MovedFlag

(* Between two places before the pointer write, or two after it.           *)
LEMMA FlagGoes ==
    ASSUME Base, Flagged, NEW a \in Actors, UNCHANGED <<media, ops>>,
           actors'[a].op = actors[a].op, actors'[a].role = actors[a].role,
           \/ actors[a].pc \in BeforePoint /\ actors'[a].pc \in BeforePoint
           \/ actors[a].pc \in AfterPoint /\ actors'[a].pc \in AfterPoint
    PROVE  QuietFlag(a)
<1>1. FlagFine(a)
  BY DEF Flagged
<1>2. OpOf(a)' = OpOf(a) /\ RowOf(a)' = RowOf(a) /\ (Mine(a)' <=> Mine(a)) /\ (InStep' <=> InStep)
  BY DEF OpOf, RowOf, Mine, InStep
<1>3. FlagFine(a)'
  BY <1>1, <1>2 DEF FlagFine, BeforePoint, AfterPoint, At
<1>4. \A p \in Op : Applied(p)' <=> Applied(p)
  BY DEF Applied, Active
<1> QED
  BY <1>3, <1>4 DEF QuietFlag

(* A commit that neither begins nor ends at the pointer write.             *)
LEMMA FlagRow ==
    ASSUME Base, NEW a \in Actors, OpOf(a) \in Op, Frame(a), OneRow(a), UNCHANGED media,
           \/ ops'[OpOf(a)].state = ops[OpOf(a)].state
           \/ ops[OpOf(a)].state # "db_applied" /\ ops'[OpOf(a)].state # "db_applied",
           FlagFine(a)'
    PROVE  QuietFlag(a)
BY DEF QuietFlag, Applied, Active, OneRow, Frame, OldRows

(* Where an undisturbed operation takes the recording.                     *)
LEMMA Destination ==
    ASSUME Base, RestoresFine, Undisturbed, NEW o \in Op, Move(o)
    PROVE  /\ ops[o].kind = "trash" => ops[o].dest # Home
           /\ ops[o].kind = "restore" => ops[o].dest = Home
           /\ \A trashed \in BOOLEAN :
                  Metadata(ops[o].kind, trashed) <=> ops[o].dest # Home
<1>1. ops[o].kind = "trash" => ops[o].dest # Home
  BY PathsDiffer DEF Base, RowsFine, RowFine
<1>2. ops[o].kind = "restore" => ops[o].dest = Home
  BY DEF RestoresFine, CameFrom, Undisturbed
<1> QED
  BY <1>1, <1>2 DEF Metadata, Move

(* An actor that leaves without bringing a row to its pointer write.       *)
LEMMA FlagLeaves ==
    ASSUME Base, NEW a \in Actors, OpOf(a) \in Op, Frame(a), OneRow(a), UNCHANGED media, Leave(a),
           \/ ops'[OpOf(a)].state = ops[OpOf(a)].state
           \/ ops[OpOf(a)].state # "db_applied" /\ ops'[OpOf(a)].state # "db_applied"
    PROVE  QuietFlag(a)
<1>1. actors'[a].pc \notin FlagPoint \cup {"rescue"}
  BY LeaveFacts, IdleFacts DEF Base, FlagPoint, BeforePoint, AfterPoint
<1> QED
  BY <1>1, FlagRests, FlagRow

(* The state of a row that a rollback leaves.                              *)
LEMMA SameState ==
    ASSUME TypeOK, NEW a \in Actors, OpOf(a) \in Op, UNCHANGED ops \/ Rollback(a)
    PROVE  ops'[OpOf(a)].state = ops[OpOf(a)].state
<1>1. CASE Rollback(a)
  BY <1>1, RollbackFacts, SetRowFacts
<1> QED
  BY <1>1

(* Publication, and the steps after the pointer write.                     *)
LEMMA FlagMoves ==
    ASSUME Base, Flagged, NEW a \in Actors, Frame(a), OneRow(a),
           \/ Publish(a) \/ CopyBegins(a) \/ CopyEnds(a) \/ LinkTemp(a) \/ UnlinkTemp(a)
           \/ CheckLease(a) \/ UnlinkOrigin(a) \/ SweepTemp(a)
    PROVE  QuietFlag(a)
<1>1. TypeOK /\ actors[a] \in ActorType
  BY DEF Base, TypeOK
<1>2. CASE Leave(a) /\ Rollback(a) /\ CheckLease(a)
  <2>1. OpOf(a) \in Op /\ UNCHANGED media
    BY <1>2, InHand, Zenon DEF CheckLease, At
  <2> QED
    BY <1>1, <1>2, <2>1, SameState, FlagLeaves
<1>3. CASE CheckLease(a) /\ ~(Leave(a) /\ Rollback(a))
  BY <1>1, <1>3, GotoFacts, FlagGoes DEF CheckLease, At, AfterPoint, ProgramPoint
<1>4. CASE UnlinkOrigin(a) \/ SweepTemp(a)
  BY <1>1, <1>4, GotoFacts, FlagGoes DEF UnlinkOrigin, SweepTemp, Here, At, AfterPoint, ProgramPoint
<1>5. CASE Publish(a) \/ CopyEnds(a) \/ LinkTemp(a) \/ UnlinkTemp(a)
  <2>1. UNCHANGED <<media, ops>> /\ actors[a].pc \in BeforePoint
    BY <1>5 DEF Publish, CopyEnds, LinkTemp, UnlinkTemp, Here, At, BeforePoint
  <2>2. PICK pc \in {"collide", "give_up", "copy", "point", "try_later", "link", "unstage",
                     "apply"} : Goto(a, pc)
    BY <1>5 DEF Publish, CopyEnds, LinkTemp, UnlinkTemp
  <2>3. pc \in BeforePoint /\ pc \in ProgramPoint
    BY DEF BeforePoint, ProgramPoint
  <2> QED
    BY <1>1, <2>1, <2>2, <2>3, GotoFacts, FlagGoes
<1>6. CASE CopyBegins(a)
  <2>1. UNCHANGED <<media, ops>> /\ actors[a].pc \in BeforePoint
    BY <1>6, Zenon DEF CopyBegins, At, BeforePoint
  <2>2. CASE Goto(a, "give_up") \/ Goto(a, "collide")
    BY <1>1, <2>1, <2>2, GotoFacts, FlagGoes DEF BeforePoint, ProgramPoint
  <2>3. CASE Become(a, [actors[a] EXCEPT !.pc = "stage", !.view.origin = files[RowOf(a).origin]])
    <3> DEFINE me == [actors[a] EXCEPT !.pc = "stage", !.view.origin = files[RowOf(a).origin]]
    <3>1. me.pc = "stage" /\ me.op = actors[a].op /\ me.role = actors[a].role
      BY <1>1 DEF ActorType
    <3>2. actors'[a] = me
      BY <1>1, <2>3 DEF Become, TypeOK
    <3> HIDE DEF me
    <3> QED
      BY <2>1, <3>1, <3>2, FlagGoes DEF BeforePoint
  <2> QED
    BY <1>6, <2>2, <2>3 DEF CopyBegins
<1> QED
  BY <1>2, <1>3, <1>4, <1>5, <1>6

(* A commit before the pointer write, if its owner gives up there.         *)
LEMMA FlagCommits ==
    ASSUME Base, Flagged, NEW a \in Actors, Frame(a), OneRow(a),
           Apply(a) \/ Collide(a) \/ RecordError(a)
    PROVE  QuietFlag(a)
<1>1. /\ TypeOK /\ actors[a].pc \in BeforePoint /\ UNCHANGED media
      /\ actors[a].from \notin Terminal
  BY InHand DEF Base, Apply, Collide, RecordError, At, BeforePoint
<1>2. /\ OpOf(a) \in Op /\ RowOf(a) = ops[OpOf(a)] /\ ops[OpOf(a)].kind # "none"
      /\ ops[OpOf(a)] \in RowType
  BY <1>1, FlagPoints, InHand DEF FlagPoint, MovePoint, RowOf
<1>3. ASSUME NEW from, Owns(a, OpOf(a), from) PROVE ops[OpOf(a)].state # "db_applied"
  BY <1>1, <1>2, <1>3 DEF Owns, Flagged, FlagFine, Mine
<1>4. ASSUME NEW state \in {"failed", "fs_applied"}, NEW row,
             row = Moved(RowOf(a), state) \/ row = Parked(RowOf(a), FALSE),
             SetRow(OpOf(a), row)
      PROVE  ops'[OpOf(a)].state # "db_applied"
  <2>1. state \in OperationState /\ FALSE \in BOOLEAN
    BY DEF OperationState, Terminal
  <2>2. row \in RowType /\ row.state # "db_applied"
    <3>1. CASE row = Moved(RowOf(a), state)
      BY <1>2, <2>1, <3>1, MovedFacts
    <3>2. CASE row = Parked(RowOf(a), FALSE)
      BY <1>2, <2>1, <3>2, ParkedFacts
    <3> QED
      BY <1>4, <3>1, <3>2
  <2> QED
    BY <1>1, <1>2, <1>4, <2>2, SetRowFacts
<1>5. CASE Leave(a) /\ Rollback(a)
  BY <1>1, <1>2, <1>5, SameState, FlagLeaves
<1>6. CASE (Collide(a) \/ RecordError(a)) /\ ~(Leave(a) /\ Rollback(a))
  <2>1. PICK from, row : /\ Owns(a, OpOf(a), from) /\ SetRow(OpOf(a), row) /\ Leave(a)
                         /\ row = Moved(RowOf(a), "failed") \/ row = Parked(RowOf(a), FALSE)
    BY <1>6 DEF Collide, RecordError, Transition, Leave
  <2>2. ops[OpOf(a)].state # "db_applied" /\ ops'[OpOf(a)].state # "db_applied"
    BY <1>3, <1>4, <2>1
  <2> QED
    BY <1>1, <1>2, <2>1, <2>2, FlagLeaves
<1>7. CASE Apply(a) /\ ~(Leave(a) /\ Rollback(a))
  <2> DEFINE then == [actors[a] EXCEPT !.pc = "point", !.from = "fs_applied"]
  <2>1. then.pc = "point" /\ then.op = OpOf(a)
    BY <1>1 DEF OpOf, TypeOK, ActorType
  <2>2. /\ Owns(a, OpOf(a), "planned") /\ SetRow(OpOf(a), Moved(RowOf(a), "fs_applied"))
        /\ Become(a, then)
    BY <1>7 DEF Apply, Transition
  <2> HIDE DEF then
  <2>3. ops[OpOf(a)].state # "db_applied" /\ ops'[OpOf(a)].state # "db_applied"
    BY <1>3, <1>4, <2>2
  <2>4. actors'[a] = then
    BY <1>1, <2>2 DEF Become, TypeOK
  <2>5. FlagFine(a)'
    BY <2>1, <2>3, <2>4 DEF FlagFine, At, AfterPoint, RowOf, OpOf
  <2> QED
    BY <1>1, <1>2, <2>3, <2>5, FlagRow
<1> QED
  BY <1>5, <1>6, <1>7

(* The pointer write of the executor.                                      *)
LEMMA PointFlag ==
    ASSUME Base, RestoresFine, Undisturbed, Flagged, NEW a \in Actors, Frame(a), OneRow(a),
           PointAndApply(a)
    PROVE  FlagStep(a)
<1> DEFINE o == OpOf(a)
           from == actors[a].from
           then == [actors[a] EXCEPT !.pc = "check", !.from = "db_applied"]
<1>1. /\ TypeOK /\ actors[a].pc = "point" /\ actors[a] \in ActorType
      /\ o \in Op /\ ops[o].kind # "none" /\ ops[o] \in RowType /\ RowOf(a) = ops[o]
      /\ from \notin Terminal /\ Move(o)
  BY MoveInHand DEF Base, PointAndApply, At, MovePoint, RowOf
<1>2. CASE ~Owns(a, o, from)
  <2>1. Leave(a) /\ Rollback(a) /\ media' = media
    BY <1>2 DEF PointAndApply, Transition
  <2> QED
    BY <1>1, <2>1, SameState, FlagLeaves DEF FlagStep
<1>3. CASE Owns(a, o, from) /\ media.path = ops[o].origin
  <2>1. Active(o) /\ ops[o].owner = a
    BY <1>1, <1>3, OwnsActive
  <2>2. media' = MoveTo(ops[o]) /\ SetRow(o, Moved(ops[o], "db_applied")) /\ Become(a, then)
    BY <1>1, <1>3 DEF PointAndApply, Transition
  <2>3. media'.path = ops[o].dest /\ media'.trashed = Metadata(ops[o].kind, media.trashed)
    BY <1>1, <2>2 DEF MoveTo, TypeOK
  <2>4. InStep'
    <3>1. media.trashed \in BOOLEAN
      BY <1>1 DEF TypeOK
    <3>2. Metadata(ops[o].kind, media.trashed) <=> ops[o].dest # Home
      BY <1>1, <3>1, Destination
    <3> QED
      BY <2>3, <3>2 DEF InStep
  <2>5. ops'[o].state = "db_applied" /\ ops'[o].dest = ops[o].dest
    <3>1. /\ Moved(ops[o], "db_applied") \in RowType
          /\ Moved(ops[o], "db_applied").state = "db_applied"
          /\ Moved(ops[o], "db_applied").dest = ops[o].dest
      BY <1>1, MovedFacts DEF OperationState
    <3> QED
      BY <1>1, <2>2, <3>1, SetRowFacts
  <2>6. actors'[a] = then /\ then.pc = "check" /\ then.op = o
    BY <1>1, <2>2 DEF Become, TypeOK, ActorType, OpOf
  <2>7. FlagFine(a)'
    BY <2>3, <2>4, <2>5, <2>6 DEF FlagFine, BeforePoint, At, RowOf, OpOf
  <2> QED
    BY <1>1, <2>1, <2>3, <2>5, <2>7 DEF FlagStep, MovedFlag, Mine
<1>4. CASE Owns(a, o, from) /\ media.path # ops[o].origin
  <2>1. media' = media /\ SetRow(o, Moved(ops[o], "failed")) /\ Leave(a)
    BY <1>1, <1>4 DEF PointAndApply, Transition, Leave
  <2>2. ops[o].state # "db_applied"
    BY <1>1, <1>4 DEF Owns, Flagged, FlagFine, BeforePoint, Mine
  <2>3. ops'[o].state = "failed"
    <3>1. Moved(ops[o], "failed") \in RowType /\ Moved(ops[o], "failed").state = "failed"
      BY <1>1, MovedFacts DEF OperationState, Terminal
    <3> QED
      BY <1>1, <2>1, <3>1, SetRowFacts
  <2> QED
    BY <1>1, <2>1, <2>2, <2>3, FlagLeaves DEF FlagStep
<1> QED
  BY <1>1, <1>2, <1>3, <1>4

(* The last commit, the executor's after its own pointer write or the      *)
(* reconciler's, which writes the flag.                                    *)
LEMMA FlagFinishes ==
    ASSUME Base, RestoresFine, Undisturbed, Flagged, NEW a \in Actors, Frame(a), OneRow(a),
           Finish(a)
    PROVE  FlagStep(a)
<1> DEFINE o == OpOf(a)
           from == actors[a].from
<1>1. /\ TypeOK /\ actors[a].pc = "finish" /\ actors[a] \in ActorType
      /\ o \in Op /\ ops[o].kind # "none" /\ ops[o] \in RowType /\ RowOf(a) = ops[o]
      /\ from \notin Terminal
  BY InHand DEF Base, Finish, At, RowOf
<1>2. Move(o)
  BY <1>1, FreeMoves DEF Undisturbed
<1>3. CASE ~Owns(a, o, from)
  <2>1. Leave(a) /\ Rollback(a) /\ media' = media
    BY <1>3 DEF Finish, Transition
  <2> QED
    BY <1>1, <2>1, SameState, FlagLeaves DEF FlagStep
<1>4. CASE Owns(a, o, from)
  <2>1. Active(o) /\ ops[o].owner = a
    BY <1>1, <1>4, OwnsActive
  <2>2. media' = FinalMetadata(a) /\ SetRow(o, Moved(ops[o], "completed")) /\ Leave(a)
    BY <1>1, <1>4 DEF Finish, Transition, Leave
  <2>3. ops'[o].state = "completed"
    <3>1. Moved(ops[o], "completed") \in RowType /\ Moved(ops[o], "completed").state = "completed"
      BY <1>1, MovedFacts DEF OperationState, Terminal
    <3> QED
      BY <1>1, <2>2, <3>1, SetRowFacts
  <2>4. media.path = ops[o].dest /\ (actors[a].role = "executor" => InStep)
    BY <1>1, <2>1 DEF Flagged, FlagFine, AfterPoint, Mine
  <2>5. InStep'
    <3>1. CASE actors[a].role = "reconciler"
      <4>1. media'.path = media.path /\ media'.trashed = Metadata(ops[o].kind, media.trashed)
        BY <1>1, <2>2, <3>1 DEF FinalMetadata, TypeOK
      <4>2. media.trashed \in BOOLEAN
        BY <1>1 DEF TypeOK
      <4>3. Metadata(ops[o].kind, media.trashed) <=> ops[o].dest # Home
        BY <1>1, <1>2, <4>2, Destination
      <4> QED
        BY <2>4, <4>1, <4>3 DEF InStep
    <3>2. CASE actors[a].role = "executor"
      BY <2>2, <2>4, <3>2 DEF FinalMetadata, InStep
    <3> QED
      BY <1>1, <3>1, <3>2 DEF ActorType
  <2>6. FlagFine(a)'
    <3>1. actors'[a].pc \notin FlagPoint \cup {"rescue"}
      BY <1>1, <2>2, LeaveFacts, IdleFacts DEF FlagPoint, BeforePoint, AfterPoint
    <3> QED
      BY <3>1, FlagRests
  <2> QED
    BY <1>1, <2>1, <2>3, <2>5, <2>6 DEF FlagStep, MovedFlag, Mine, Terminal
<1> QED
  BY <1>3, <1>4

(* The table neither fails nor parks an operation past its pointer write.  *)
LEMMA DbAppliedIsCleaned ==
    ASSUME Base, ~Freed, Copying, Flagged, NEW a \in Actors, At(a, "decide"),
           RowOf(a).state = "db_applied", NEW verdict, Decided(a, verdict)
    PROVE  verdict = "clean"
<1> DEFINE v == actors[a].view
<1>1. /\ OpOf(a) \in Op /\ RowOf(a) = ops[OpOf(a)] /\ Active(OpOf(a))
      /\ ops[OpOf(a)].kind # "none"
  BY DeciderOwns
<1>2. RowOf(a).origin # RowOf(a).dest
  BY <1>1, FreeMoves
<1>3. media.path = RowOf(a).dest
  BY <1>1 DEF Flagged, Applied
<1>4. DecideFine(a)
  BY DEF Copying
<1>5. v.pointer = "destination" /\ v.dest = "recording" /\ actors[a].from = "db_applied"
  BY <1>2, <1>3, <1>4 DEF DecideFine, PointerOf, Reentered
<1>6. VerdictDbApplied(v) = "clean"
  BY <1>5 DEF VerdictDbApplied, There
<1> QED
  BY <1>5, <1>6 DEF Decided, Verdict

(* A pass reads.                                                           *)
LEMMA FlagInspects ==
    ASSUME Base, ~Freed, Flagged, NEW a \in Actors, Frame(a), OneRow(a), Inspect(a)
    PROVE  QuietFlag(a)
<1>1. /\ TypeOK /\ OpOf(a) \in Op /\ ops[OpOf(a)] \in RowType /\ ops[OpOf(a)].kind # "none"
      /\ UNCHANGED media /\ actors[a] \in ActorType
  BY InHand DEF Base, Inspect, At
<1>2. ops[OpOf(a)].kind # "purge"
  BY <1>1 DEF Freed, PurgePlanned
<1>3. CASE Leave(a) /\ UNCHANGED ops
  BY <1>1, <1>3, SameState, FlagLeaves
<1>4. CASE ~(Leave(a) /\ UNCHANGED ops)
  <2> DEFINE row == [ops[OpOf(a)] EXCEPT !.held = a]
             me == [actors[a] EXCEPT !.pc = "decide", !.view = ViewOf(OpOf(a)),
                                     !.from = Reentered(ops[OpOf(a)])]
  <2>1. SetRow(OpOf(a), row) /\ Become(a, me)
    BY <1>2, <1>4 DEF Inspect
  <2>2. row \in RowType /\ row.state = ops[OpOf(a)].state /\ me.pc = "decide"
    BY <1>1 DEF RowType, ActorType
  <2> HIDE DEF row, me
  <2>3. ops'[OpOf(a)].state = ops[OpOf(a)].state
    BY <1>1, <2>1, <2>2, SetRowFacts
  <2>4. actors'[a].pc = "decide"
    BY <1>1, <2>1, <2>2 DEF Become, TypeOK
  <2>5. FlagFine(a)'
    BY <2>4, FlagRests DEF FlagPoint, BeforePoint, AfterPoint
  <2> QED
    BY <1>1, <2>3, <2>5, FlagRow
<1> QED
  BY <1>3, <1>4

(* What a pass decides: it fails and parks only operations that have not   *)
(* reached their pointer write, and moves the pointer onto a copy.         *)
LEMMA FlagDecides ==
    ASSUME Base, ~Freed, Copying, Flagged, NEW a \in Actors, Frame(a), OneRow(a), UNCHANGED media,
           GiveUp(a) \/ Shelve(a) \/ Scrap(a) \/ LeaveTemp(a) \/ Restart(a) \/ CleanUp(a)
    PROVE  QuietFlag(a)
<1> DEFINE o == OpOf(a)
<1>1. At(a, "decide") /\ TypeOK
  BY DEF Base, GiveUp, Shelve, Scrap, LeaveTemp, Restart, CleanUp, Decided
<1>2. /\ o \in Op /\ RowOf(a) = ops[o] /\ ops[o] \in RowType /\ actors[a] \in ActorType
  BY <1>1, DeciderOwns DEF TypeOK
<1>3. ASSUME NEW verdict, Decided(a, verdict), verdict # "clean"
      PROVE  ops[o].state # "db_applied"
  BY <1>1, <1>2, <1>3, DbAppliedIsCleaned
<1>4. ASSUME NEW row \in RowType, row.state # "db_applied", SetRow(o, row),
             NEW verdict, Decided(a, verdict), verdict # "clean", Leave(a)
      PROVE  QuietFlag(a)
  <2>1. ops'[o].state # "db_applied"
    BY <1>1, <1>2, <1>4, SetRowFacts
  <2> QED
    BY <1>1, <1>2, <1>3, <1>4, <2>1, FlagLeaves
<1>5. CASE GiveUp(a) \/ Scrap(a)
  <2>1. Moved(ops[o], "failed") \in RowType /\ Moved(ops[o], "failed").state = "failed"
    BY <1>2, MovedFacts DEF OperationState, Terminal
  <2> QED
    BY <1>2, <1>4, <1>5, <2>1 DEF GiveUp, Scrap, Commit
<1>6. CASE Shelve(a)
  <2>1. PICK lost \in BOOLEAN, verdict \in {"lost", "park"} :
            Decided(a, verdict) /\ Commit(a, Parked(RowOf(a), lost))
    BY <1>6 DEF Shelve
  <2>2. Parked(ops[o], lost) \in RowType /\ Parked(ops[o], lost).state = "awaiting_retry"
    BY <1>2, ParkedFacts
  <2> QED
    BY <1>2, <1>4, <2>1, <2>2 DEF Commit
<1>7. CASE LeaveTemp(a)
  BY <1>1, <1>2, <1>7, SameState, FlagLeaves DEF LeaveTemp
<1>8. CASE Restart(a)
  <2> DEFINE me == [actors[a] EXCEPT !.pc = "publish", !.view = NoView]
  <2>1. UNCHANGED ops /\ Become(a, me)
    BY <1>8 DEF Restart
  <2>2. ops[o].state # "db_applied"
    BY <1>3, <1>8, Zenon DEF Restart
  <2>3. actors'[a].pc = "publish" /\ actors'[a].op = o
    BY <1>1, <1>2, <2>1 DEF Become, TypeOK, ActorType, OpOf
  <2>4. FlagFine(a)'
    BY <1>2, <2>1, <2>2, <2>3 DEF FlagFine, AfterPoint, At, RowOf, OpOf
  <2> QED
    BY <1>2, <2>1, <2>4, FlagRow
<1>9. CASE CleanUp(a)
  <2>1. PICK pc \in {"finish", "check"} :
            Become(a, [actors[a] EXCEPT !.role = "reconciler", !.view = NoView, !.pc = pc])
    BY <1>9 DEF CleanUp
  <2> DEFINE me == [actors[a] EXCEPT !.role = "reconciler", !.view = NoView, !.pc = pc]
  <2>2. me.role = "reconciler" /\ me.pc = pc /\ me.op = o
    BY <1>2 DEF ActorType, OpOf
  <2>3. actors'[a] = me /\ UNCHANGED ops
    BY <1>1, <1>9, <2>1 DEF Become, TypeOK, CleanUp
  <2>4. media.path = RowOf(a).dest
    <3>1. CASE Decided(a, "clean")
      BY <1>1, <3>1, VerdictFacts
    <3>2. CASE Decided(a, "close")
      <4>1. actors[a].view.pointer = "destination"
        BY <3>2 DEF Decided, Verdict, VerdictPlanned, VerdictFsApplied, VerdictDbApplied
      <4>2. PointerOf(RowOf(a)) = "destination"
        BY <1>1, <4>1 DEF Copying, DecideFine
      <4> QED
        BY <4>2 DEF PointerOf
    <3> QED
      BY <1>9, <3>1, <3>2 DEF CleanUp
  <2> HIDE DEF me
  <2>5. FlagFine(a)'
    BY <1>2, <2>2, <2>3, <2>4 DEF FlagFine, BeforePoint, At, RowOf, OpOf
  <2> QED
    BY <1>2, <2>3, <2>5, FlagRow
<1> QED
  BY <1>5, <1>6, <1>7, <1>8, <1>9

(* A pass that moves the pointer leaves the flag to its last commit.       *)
LEMMA FlagForwards ==
    ASSUME Base, ~Freed, Copying, Flagged, NEW a \in Actors, Frame(a), OneRow(a), RollForward(a)
    PROVE  FlagStep(a)
<1> DEFINE o == OpOf(a)
           me == [actors[a] EXCEPT !.pc = "check", !.from = "db_applied", !.role = "reconciler",
                                   !.view = NoView]
<1>1. At(a, "decide") /\ TypeOK
  BY DEF Base, RollForward, Decided
<1>2. /\ o \in Op /\ RowOf(a) = ops[o] /\ ops[o] \in RowType /\ actors[a] \in ActorType
      /\ Mine(a) /\ Active(o)
  BY <1>1, DeciderOwns DEF TypeOK
<1>3. /\ Decided(a, "forward") /\ ~Decided(a, "relink")
      /\ media.path = ops[o].origin /\ files[ops[o].dest] = "recording"
  BY <1>1, <1>2, VerdictFacts DEF RollForward
<1>4. /\ media' = [media EXCEPT !.path = ops[o].dest]
      /\ SetRow(o, Moved(ops[o], "db_applied")) /\ Become(a, me)
  BY <1>2, <1>3 DEF RollForward, There
<1>5. /\ Moved(ops[o], "db_applied") \in RowType
      /\ Moved(ops[o], "db_applied").state = "db_applied"
      /\ Moved(ops[o], "db_applied").dest = ops[o].dest
  BY <1>2, MovedFacts DEF OperationState
<1>6. ops'[o].state = "db_applied" /\ ops'[o].dest = ops[o].dest
  BY <1>1, <1>2, <1>4, <1>5, SetRowFacts
<1>7. media'.path = ops[o].dest
  BY <1>1, <1>4 DEF TypeOK
<1>8. actors'[a] = me /\ me.pc = "check" /\ me.op = o /\ me.role = "reconciler"
  BY <1>1, <1>2, <1>4 DEF Become, TypeOK, ActorType, OpOf
<1>9. FlagFine(a)'
  BY <1>6, <1>7, <1>8 DEF FlagFine, BeforePoint, At, RowOf, OpOf
<1> QED
  BY <1>2, <1>6, <1>7, <1>9 DEF FlagStep, MovedFlag

(* While there is no purge, nobody works on one.                           *)
LEMMA NoPurgePoint ==
    ASSUME Base, ~Freed, NEW a \in Actors
    PROVE  actors[a].pc \notin PurgePoint
<1> SUFFICES ASSUME actors[a].pc \in PurgePoint PROVE FALSE
  OBVIOUS
<1>1. OpOf(a) \in Op /\ ops[OpOf(a)].kind = "purge"
  BY PurgeInHand
<1> QED
  BY <1>1 DEF Freed, PurgePlanned

(* Every step of an actor with an operation in hand, while nothing fails.  *)
LEMMA FlagWorks ==
    ASSUME Base, RestoresFine, Undisturbed, Undisturbed', Copying, Flagged,
           NEW a \in Actors, Frame(a), OneRow(a), Working(a)
    PROVE  FlagStep(a)
<1>1. TypeOK /\ ~Freed /\ ~At(a, "rescue") /\ actors[a].pc \notin PurgePoint
  BY NoPurgePoint DEF Base, Undisturbed, Flagged, FlagFine
<1>2. CASE Stumble(a)
  <2>1. "fault" \in env'.met
    BY <1>1, <1>2, TroubleSpent DEF Stumble
  <2> QED
    BY <2>1 DEF Undisturbed, Spared
<1>3. CASE Crash(a)
  <2>1. Leave(a) /\ UNCHANGED media /\ (UNCHANGED ops \/ Rollback(a))
    BY <1>3 DEF Crash
  <2>2. CASE OpOf(a) \in Op
    BY <1>1, <2>1, <2>2, SameState, FlagLeaves DEF FlagStep
  <2>3. CASE OpOf(a) \notin Op
    <3>1. OpOf(a) = 0
      BY <1>1, <2>3 DEF TypeOK, ActorType, OpOf
    <3>2. UNCHANGED ops
      BY <1>3, <3>1 DEF Crash
    <3>3. actors'[a].pc \notin FlagPoint \cup {"rescue"}
      BY <1>1, <2>1, LeaveFacts, IdleFacts DEF FlagPoint, BeforePoint, AfterPoint
    <3> QED
      BY <2>1, <3>2, <3>3, FlagRests DEF FlagStep, QuietFlag, Applied, Active
  <2> QED
    BY <2>2, <2>3
<1>4. CASE \/ Publish(a) \/ CopyBegins(a) \/ CopyEnds(a) \/ LinkTemp(a) \/ UnlinkTemp(a)
           \/ CheckLease(a) \/ UnlinkOrigin(a) \/ SweepTemp(a)
  BY <1>4, FlagMoves DEF FlagStep
<1>5. CASE Apply(a) \/ Collide(a) \/ RecordError(a)
  BY <1>5, FlagCommits DEF FlagStep
<1>6. CASE PointAndApply(a) \/ Finish(a)
  BY <1>6, PointFlag, FlagFinishes, Zenon
<1>7. CASE BuildManifest(a) \/ AttemptChild(a) \/ EraseChild(a) \/ RecordChild(a) \/ Converge(a) \/ ApplyPurge(a)
  BY <1>1, <1>7
     DEF BuildManifest, AttemptChild, EraseChild, RecordChild, Converge, ApplyPurge, At, PurgePoint
<1>8. CASE Inspect(a)
  BY <1>1, <1>8, FlagInspects DEF FlagStep
<1>9. CASE Act(a)
  <2>1. ~RelinkFails(a)
    <3>1. At(a, "decide") => ~Decided(a, "relink")
      BY <1>1, VerdictFacts
    <3> QED
      BY <3>1 DEF RelinkFails, Decided
  <2> QED
    BY <1>1, <1>9, <2>1, FlagDecides, FlagForwards DEF FlagStep, Act, Rescue
<1> QED
  BY <1>2, <1>3, <1>4, <1>5, <1>6, <1>7, <1>8, <1>9 DEF Working, Work, Execute, Reconcile

(* A trouble is not undone.                                                *)
LEMMA UndisturbedBefore ==
    ASSUME Base, [Next]_vars, Undisturbed' PROVE Undisturbed
<1>1. TypeOK
  BY DEF Base
<1>2. ~Freed
  BY FreedStays DEF Undisturbed
<1>3. Spared("fault")
  BY <1>1, TroublesStand DEF Undisturbed, Spared
<1>4. ASSUME NEW o \in Op, ops[o].kind = "trash" PROVE ops[o].origin = Home
  BY <1>4, RowsStand DEF Undisturbed
<1> QED
  BY <1>2, <1>3, <1>4 DEF Undisturbed

(* A planned purge is one of the things that free an item.                 *)
LEMMA PurgeFrees == ASSUME Base, NEW a \in Actors, PlanPurge(a) PROVE Freed'
<1>1. \E o \in Op : ops'[o].kind = "purge"
  BY PurgeOpens, SMTT(15)
<1> QED
  BY <1>1 DEF Freed, PurgePlanned

(* A new operation begins with pointer and flag in step.                   *)
LEMMA FlagOpens ==
    ASSUME Base, ~Freed', Flagged, NEW a \in Actors, Opens(a)
    PROVE  Flagged'
<1>1. ASSUME PlanPurge(a) PROVE FALSE
  BY <1>1, PurgeFrees, Zenon
<1>2. Plan(a) /\ UNCHANGED media
  BY <1>1, Zenon DEF Opens, Plan
<1>3. PICK o \in Op :
          /\ ops[o].kind = "none" /\ \A p \in Op : p # o => ops'[p] = ops[p]
          /\ ops'[o].state = "planned" /\ ops'[o].owner = a
          /\ actors'[a].pc = "publish" /\ actors'[a].op = o
          /\ \A b \in Actors : b # a => actors'[b] = actors[b]
  BY <1>1, PlanOpens DEF Opens
<1>4. \A p \in Op : Applied(p)' <=> Applied(p)
  BY <1>3 DEF Applied, Active
<1>5. FlagFine(a)'
  BY <1>3 DEF FlagFine, AfterPoint, At, RowOf, OpOf
<1> QED
  BY <1>2, <1>3, <1>4, <1>5, QuietKeeps DEF QuietFlag, OthersStay

(* Every step keeps the invariant.                                         *)
LEMMA FlagInvNext ==
    ASSUME Base, CopiesInv, FlagInv, [Next]_vars PROVE FlagInv'
<1>1. TypeOK /\ Base'
  BY BaseNext DEF Base
<1>2. RestoresFine' /\ PurgesFine'
  BY RestoresFineNext, PurgesFineNext DEF FlagInv
<1> SUFFICES ASSUME Undisturbed' PROVE Flagged'
  BY <1>2 DEF FlagInv
<1>3. Undisturbed /\ ~Freed /\ Copying /\ Flagged /\ RestoresFine
  BY UndisturbedBefore DEF FlagInv, CopiesInv, Undisturbed
<1>4. CASE \E a \in Actors : Working(a)
  <2>1. PICK a \in Actors : Working(a)
    BY <1>4
  <2>2. Frame(a) /\ OneRow(a)
    BY <2>1, WorkingSteps DEF Step, AtWork
  <2>3. FlagStep(a)
    BY <1>3, <2>1, <2>2, FlagWorks
  <2>4. CASE MovedFlag(a)
    BY <1>1, <1>3, <2>2, <2>4, MovedKeeps
  <2>5. CASE QuietFlag(a)
    BY <1>3, <2>2, <2>5, QuietKeeps DEF Frame, OldRows, RowsStep
  <2> QED
    BY <2>3, <2>4, <2>5 DEF FlagStep
<1>5. ASSUME NEW a \in Actors, UNCHANGED media, OthersStay(a),
             actors'[a].pc \notin FlagPoint \cup {"rescue"},
             \A p \in Op : /\ ops'[p].kind = ops[p].kind /\ ops'[p].dest = ops[p].dest
                           /\ ops'[p].state = ops[p].state
                           /\ ops'[p].owner \in {ops[p].owner, a}
      PROVE  Flagged'
  <2>1. QuietFlag(a)
    BY <1>5, FlagRests DEF QuietFlag, Applied, Active
  <2> QED
    BY <1>3, <1>5, <2>1, QuietKeeps
<1>6. CASE \E a \in Actors : Looks(a)
  BY <1>5, <1>6, AskLooks DEF Looks, OthersStay, FlagPoint, BeforePoint, AfterPoint
<1>7. CASE \E a \in Actors : Refuses(a)
  BY <1>1, <1>5, <1>7, RefusesNothing, IdleFacts
     DEF OthersStay, FlagPoint, BeforePoint, AfterPoint
<1>8. CASE \E a \in Actors : Opens(a)
  BY <1>3, <1>8, FlagOpens DEF Undisturbed
<1>9. CASE \E a \in Actors, o \in Op : Claim(a, o)
  BY <1>5, <1>9, ClaimTakes DEF OthersStay, FlagPoint, BeforePoint, AfterPoint
<1>10. CASE \E o \in Op : LeaseExpires(o) \/ RetryDue(o)
  <2>1. /\ UNCHANGED <<media, actors>>
        /\ \A p \in Op : /\ ops'[p].kind = ops[p].kind /\ ops'[p].dest = ops[p].dest
                         /\ ops'[p].state = ops[p].state /\ ops'[p].owner = ops[p].owner
    BY <1>1, <1>10, TimeKeeps
  <2>2. ASSUME NEW b \in Actors PROVE FlagFine(b)'
    <3>1. CASE actors[b].pc \notin FlagPoint
      BY <1>3, <2>1, <3>1 DEF Flagged, FlagFine, FlagPoint, At
    <3>2. CASE actors[b].pc \in FlagPoint
      <4>1. OpOf(b) \in Op
        BY <3>2, FlagPoints, InHand DEF MovePoint
      <4> QED
        BY <1>3, <2>1, <4>1 DEF Flagged, FlagFine, At, Mine, RowOf, OpOf, InStep
    <3> QED
      BY <3>1, <3>2
  <2>3. \A p \in Op : Applied(p)' <=> Applied(p)
    BY <2>1 DEF Applied, Active
  <2> QED
    BY <1>3, <2>1, <2>2, <2>3 DEF Flagged, InStep
<1>11. CASE Elsewhere
  <2>1. ~Outside
    BY <1>1, TroubleSpent DEF Outside, Undisturbed, Freed, Untouched, Spared
  <2>2. UNCHANGED <<media, actors, ops>>
    BY <1>11, <2>1 DEF Elsewhere, RunEnds, RunReopens, Rest, vars
  <2> QED
    BY <1>3, <2>2 DEF Flagged, FlagFine, At, Mine, RowOf, OpOf, InStep, Applied, Active
<1> QED
  BY <1>4, <1>6, <1>7, <1>8, <1>9, <1>10, <1>11, StepKinds

(* At first nothing is in hand and the recording is at home.               *)
LEMMA FlagInvInit == Init => FlagInv
<1> SUFFICES ASSUME Init PROVE FlagInv
  OBVIOUS
<1>1. /\ \A o \in Op : ops[o].kind = "none"
      /\ \A a \in Actors : actors[a].pc = "idle"
      /\ media.path = Home /\ media.trashed = FALSE
  BY IdleFacts DEF Init, NoRow
<1>2. RestoresFine /\ PurgesFine
  BY <1>1 DEF RestoresFine, PurgesFine, At
<1>3. Flagged
  BY <1>1 DEF Flagged, FlagFine, BeforePoint, AfterPoint, At, InStep, Applied, Active
<1> QED
  BY <1>2, <1>3 DEF FlagInv

(* While no filesystem call fails and nobody else touches the files, the   *)
(* flag is out of step with the pointer only while an operation is past    *)
(* its pointer write, and a purge past it has emptied the media row.       *)
THEOREM FlagInvariant == ASSUME Prompt PROVE Spec => [](Base /\ CopiesInv /\ FlagInv)
<1>1. Init => FlagInv
  BY FlagInvInit
<1>2. Base /\ CopiesInv /\ FlagInv /\ [Next]_vars => FlagInv'
  BY FlagInvNext
<1>3. Spec => [](Base /\ CopiesInv)
  BY CopiesInvariant
<1> QED
  BY <1>1, <1>2, <1>3, PTL DEF Spec

(* Between operations the trash flag says where the recording is.          *)
THEOREM FlagIsWhereThePointerIs == ASSUME Prompt PROVE Spec => []FlagFollowsPointer
<1>1. Base /\ CopiesInv /\ FlagInv => FlagFollowsPointer
  <2> SUFFICES ASSUME Base, CopiesInv, FlagInv,
                      Spared("fault"), Untouched, ~InPlace, ~HasActiveOperation, ~media.purged,
                      \A o \in Op : ops[o].kind = "trash" => ops[o].origin = Home
               PROVE  media.trashed <=> media.path # Home
    BY DEF FlagFollowsPointer
  <2>1. ~PurgePlanned
    <3> SUFFICES ASSUME NEW o \in Op, ops[o].kind = "purge" PROVE FALSE
      BY DEF PurgePlanned
    <3>1. ops[o].state \in Terminal
      BY DEF HasActiveOperation, Active
    <3> QED
      BY <3>1 DEF FlagInv, PurgesFine
  <2>2. Undisturbed
    BY <2>1 DEF Undisturbed, Freed
  <2>3. \A o \in Op : ~Applied(o)
    BY ZenonT(40) DEF HasActiveOperation, Applied
  <2> QED
    BY <2>2, <2>3 DEF FlagInv, Flagged, InStep
<1> QED
  BY <1>1, FlagInvariant, PTL

-----------------------------------------------------------------------------
(* The purge.                                                              *)

(* The files an actor makes are those of its own move: the destination and *)
(* the temporary file.                                                     *)
LEMMA FilesMade ==
    ASSUME Base, NEW a \in Actors, Working(a), NEW p \in Path, files[p] = "none",
           files'[p] # "none"
    PROVE  actors[a].pc \in MovePoint /\ p \in {RowOf(a).dest, Temp(OpOf(a))}
<1>1. TypeOK
  BY DEF Base
<1>2. ASSUME NEW q, files' = FilePut(q, "none") PROVE FALSE
  BY <1>1, <1>2 DEF FilePut, TypeOK
<1>3. ASSUME NEW q, NEW content, files' = FilePut(q, content) PROVE p = q
  BY <1>1, <1>3 DEF FilePut, TypeOK
<1>4. ~UNCHANGED files
  OBVIOUS
<1>5. CASE Publish(a) \/ CopyBegins(a) \/ LinkTemp(a) \/ UnlinkTemp(a)
  <2>1. p \in {RowOf(a).dest, Temp(OpOf(a))}
    BY <1>2, <1>3, <1>4, <1>5 DEF Publish, CopyBegins, LinkTemp, UnlinkTemp
  <2> QED
    BY <1>5, <2>1 DEF Publish, CopyBegins, LinkTemp, UnlinkTemp, At, MovePoint
<1>6. CASE CopyEnds(a)
  BY <1>6 DEF CopyEnds, At, MovePoint
<1>7. CASE UnlinkOrigin(a) \/ SweepTemp(a)
  BY <1>2, <1>7, Zenon DEF UnlinkOrigin, SweepTemp
<1>8. CASE EraseChild(a)
  BY <1>2, <1>4, <1>8 DEF EraseChild
<1>9. CASE GiveUp(a) \/ Shelve(a) \/ Scrap(a) \/ LeaveTemp(a) \/ Restart(a) \/ CleanUp(a)
           \/ RelinkFails(a)
  BY <1>2, <1>4, <1>9 DEF GiveUp, Shelve, Scrap, LeaveTemp, Restart, CleanUp, RelinkFails,
         WithoutTemp
<1>10. CASE RollForward(a)
  <2>1. UNCHANGED files \/ \E content : files' = FilePut(RowOf(a).dest, content)
    BY <1>10, Zenon DEF RollForward
  <2>2. p = RowOf(a).dest
    BY <1>3, <1>4, <2>1
  <2> QED
    BY <1>10, <2>2 DEF RollForward, Decided, At, MovePoint
<1> QED
  BY <1>4, <1>5, <1>6, <1>7, <1>8, <1>9, <1>10
     DEF Working, Work, Execute, Reconcile, Act, Apply, PointAndApply, CheckLease, Finish, Collide,
         RecordError, BuildManifest, AttemptChild, RecordChild, Converge, ApplyPurge, Inspect, Rescue, Stumble,
         Crash, Quietly

(* No work writes over a whole file: links and exclusive creates find the  *)
(* name free, and the end of a copy completes what is partial.             *)
Clobbers(p) == Whole(files[p]) /\ files'[p] \notin {files[p], "none"}

LEMMA WorkClobbersNothing ==
    ASSUME TypeOK, NEW a \in Actors, Working(a), NEW p \in Path
    PROVE  ~Clobbers(p)
<1> SUFFICES ASSUME Clobbers(p) PROVE FALSE
  OBVIOUS
<1>1. files[p] # "none" /\ files[p] # "partial" /\ files'[p] # files[p] /\ files'[p] # "none"
  BY DEF Clobbers, Whole
<1>2. ASSUME NEW q, files' = FilePut(q, "none") PROVE FALSE
  BY <1>1, <1>2 DEF FilePut, TypeOK
<1>3. ASSUME NEW q, NEW content, files' = FilePut(q, content) PROVE files[q] # "none"
  BY <1>1, <1>3 DEF FilePut, TypeOK
<1>4. ~UNCHANGED files
  BY <1>1
<1>5. CASE Publish(a) \/ LinkTemp(a) \/ UnlinkTemp(a)
  BY <1>2, <1>3, <1>4, <1>5 DEF Publish, LinkTemp, UnlinkTemp
<1>6. CASE CopyBegins(a)
  BY <1>2, <1>3, <1>4, <1>6 DEF CopyBegins
<1>7. CASE CopyEnds(a)
  BY <1>1, <1>7 DEF CopyEnds
<1>8. CASE UnlinkOrigin(a) \/ SweepTemp(a)
  BY <1>2, <1>8, Zenon DEF UnlinkOrigin, SweepTemp
<1>9. CASE EraseChild(a)
  <2>1. UNCHANGED files \/ \E q : files' = FilePut(q, "none")
    BY <1>9, Zenon DEF EraseChild
  <2> QED
    BY <1>2, <1>4, <2>1, Zenon
<1>10. CASE GiveUp(a) \/ Shelve(a) \/ Scrap(a) \/ LeaveTemp(a) \/ Restart(a) \/ CleanUp(a)
           \/ RelinkFails(a)
  BY <1>2, <1>4, <1>10, Zenon DEF GiveUp, Shelve, Scrap, LeaveTemp, Restart, CleanUp, RelinkFails,
         WithoutTemp
<1>11. CASE RollForward(a)
  <2>1. \/ UNCHANGED files
        \/ \E q, content : files[q] = "none" /\ files' = FilePut(q, content)
    BY <1>11, ZenonT(40) DEF RollForward
  <2> QED
    BY <1>3, <1>4, <2>1, Zenon
<1> QED
  BY <1>4, <1>5, <1>6, <1>7, <1>8, <1>9, <1>10, <1>11
     DEF Working, Work, Execute, Reconcile, Act, Apply, PointAndApply, CheckLease, Finish, Collide,
         RecordError, BuildManifest, AttemptChild, RecordChild, Converge, ApplyPurge, Inspect, Rescue, Stumble,
         Crash, Quietly

(* A manifest is built and filled in by the purge in hand.                 *)
LEMMA ManifestInHand ==
    ASSUME Base, NEW a \in Actors, Working(a)
    PROVE  /\ \A o \in Op : o # OpOf(a) => manifest'[o] = manifest[o]
           /\ actors[a].pc \notin PurgePoint => UNCHANGED manifest
<1>1. TypeOK
  BY DEF Base
<1>2. CASE BuildManifest(a) \/ RecordChild(a)
  <2>1. actors[a].pc \in PurgePoint
    BY <1>2 DEF BuildManifest, RecordChild, At, PurgePoint
  <2>2. \/ \E built : manifest' = [manifest EXCEPT ![OpOf(a)] = built]
        \/ manifest' = [manifest EXCEPT ![OpOf(a)][actors[a].part] = actors[a].outcome]
    BY <1>2 DEF BuildManifest, RecordChild
  <2> QED
    BY <1>1, <2>1, <2>2 DEF TypeOK
<1>3. CASE UNCHANGED manifest
  BY <1>3
<1> QED
  BY <1>2, <1>3
     DEF Working, Work, Execute, Reconcile, Act, Publish, CopyBegins, CopyEnds, LinkTemp,
         UnlinkTemp, Apply, PointAndApply, CheckLease, UnlinkOrigin, SweepTemp, Finish, Collide,
         RecordError, AttemptChild, EraseChild, Converge, ApplyPurge, Inspect, Stumble, Crash, Here, Quietly

(* Where a purge erases: in the trash tree, or the derived files.          *)
LEMMA ErasedPaths ==
    ASSUME Base, NEW o \in Op, ops[o].kind = "purge", OfTrash(o), NEW p \in Part
    PROVE  /\ PartPath(o, p) \in Path /\ PartPath(o, p) # Home
           /\ PartPath(o, p) = Derived
              \/ \E k \in Op : /\ ops[k].kind # "none" /\ ops[o].origin = Trash(k)
                               /\ PartPath(o, p) = Trash(k)
<1>1. Placed(ops[o].origin)
  BY DEF Base, RowsFine, RowFine
<1>2. \E k \in Op : ops[o].origin = Trash(k) /\ ops[k].kind # "none"
  BY <1>1 DEF OfTrash, Placed
<1> QED
  BY <1>2, PathsDiffer DEF PartPath

(* What a purge erased stays gone: whoever still works has an operation of *)
(* its own in flight, which goes elsewhere.                                *)
LEMMA GoneStays ==
    ASSUME Base, Erasing, NEW o \in Op, ops[o].kind = "purge", OfTrash(o), NEW p \in Part,
           files[PartPath(o, p)] = "none",
           (\E a \in Actors : Working(a)) \/ Outside
    PROVE  files'[PartPath(o, p)] = "none"
<1> DEFINE q == PartPath(o, p)
<1>1. q \in Path /\ q # Home /\ TypeOK
  BY ErasedPaths DEF Base
<1>2. q = Derived \/ \E k \in Op : /\ ops[k].kind # "none" /\ ops[o].origin = Trash(k)
                                   /\ q = Trash(k)
  BY ErasedPaths
<1> HIDE DEF q
<1>3. files[q] = "none"
  BY DEF q
<1>4. CASE Outside
  BY <1>1, <1>3, <1>4 DEF Outside, FilePut, TypeOK, q
<1>5. CASE \E a \in Actors : Working(a)
  <2>1. PICK a \in Actors : Working(a)
    BY <1>5
  <2> SUFFICES ASSUME files'[q] # "none" PROVE FALSE
    BY DEF q
  <2>2. actors[a].pc \in MovePoint /\ q \in {RowOf(a).dest, Temp(OpOf(a))}
    BY <1>1, <1>3, <2>1, FilesMade
  <2>3. PICK m \in Op : m = OpOf(a) /\ Move(m) /\ Placed(ops[m].dest) /\ RowOf(a) = ops[m]
    BY <2>2, MoveInHand, MovePaths DEF RowOf
  <2>4. q = ops[m].dest
    BY <1>2, <2>2, <2>3, PathsDiffer
  <2>5. PICK k \in Op : ops[o].origin = Trash(k) /\ q = Trash(k)
    BY <1>2, <2>3, <2>4, PlacedIsPath
  <2>6. ops[k].state \in Terminal
    BY <2>5 DEF Erasing, EraseRow
  <2>7. Active(m)
    BY <2>1, <2>3, OpsAreNumbers DEF Erasing, HandsOn
  <2>8. ops[m].dest = Trash(m)
    BY <1>1, <2>3, <2>4 DEF Base, RowsFine, RowFine, Move, OfTrash, RestoreReturnsHome
  <2>9. k = m
    BY <2>4, <2>5, <2>8, PathsDiffer
  <2> QED
    BY <2>6, <2>7, <2>9 DEF Active
<1> QED
  BY <1>4, <1>5

(* A restore that returns home did so before: rows stay.                   *)
LEMMA ReturnedBefore ==
    ASSUME Base, [Next]_vars, RestoreReturnsHome' PROVE RestoreReturnsHome
<1> SUFFICES ASSUME NEW o \in Op, ops[o].kind = "restore" PROVE ops[o].dest = Home
  BY DEF RestoreReturnsHome
<1>1. ops'[o].kind = "restore" /\ ops'[o].dest = ops[o].dest
  BY RowsStand
<1> QED
  BY <1>1 DEF RestoreReturnsHome

(* One actor and at most one row change: the others' hands, and what the   *)
(* other purges erased, are as they were.                                  *)
LEMMA EraseKeeps ==
    ASSUME Base, Erasing, NEW a \in Actors, NEW t \in Op \cup {0}, OthersStay(a),
           \A p \in Op : p # t => ops'[p] = ops[p] /\ manifest'[p] = manifest[p],
           \A p \in Op : ops[p].kind # "none" =>
               /\ ops'[p].kind = ops[p].kind /\ ops'[p].origin = ops[p].origin
               /\ ops'[p].dest = ops[p].dest,
           \A o \in Op, p \in Part :
               ops[o].kind = "purge" /\ OfTrash(o) /\ files[PartPath(o, p)] = "none" =>
                   files'[PartPath(o, p)] = "none",
           RestoreReturnsHome' => RestoreReturnsHome,
           \A b \in Actors : b # a /\ OpOf(b) # 0 => OpOf(b) # t,
           t \in Op => Active(t) \/ ops[t].kind = "none",
           HandsOn(a)', EraseFine(a)', t \in Op => EraseRow(t)'
    PROVE  Erasing'
<1>1. ASSUME NEW b \in Actors, b # a PROVE HandsOn(b)' /\ EraseFine(b)'
  <2>1. actors'[b] = actors[b] /\ HandsOn(b) /\ EraseFine(b) /\ TypeOK
    BY <1>1 DEF OthersStay, Erasing, Base
  <2>2. CASE OpOf(b) = 0
    <3>1. actors[b].pc \in {"idle", "choose", "plan", "admit"}
      BY <2>2 DEF Base, ActorsFine, ActorFine, OpOf
    <3> QED
      BY <2>1, <2>2, <3>1 DEF HandsOn, EraseFine, At, OpOf
  <2>3. CASE OpOf(b) # 0
    <3>1. PICK o \in Op : o = OpOf(b) /\ o # t
      BY <1>1, <2>1, <2>3 DEF TypeOK, ActorType, OpOf
    <3>2. ops'[o] = ops[o] /\ manifest'[o] = manifest[o]
      BY <3>1
    <3>3. OpOf(b)' = o /\ RowOf(b)' = RowOf(b) /\ RowOf(b) = ops[o]
      BY <2>1, <3>1, <3>2 DEF OpOf, RowOf
    <3>4. HandsOn(b)'
      BY <2>1, <3>1, <3>2, <3>3 DEF HandsOn, Mine, Active
    <3>5. Resolved(OpOf(b))' <=> Resolved(OpOf(b))
      BY <3>1, <3>2, <3>3 DEF Resolved
    <3>6. At(b, "record") => ops[o].kind = "purge" /\ actors[b].part \in Part
      BY <2>1, <3>1 DEF Base, ActorsFine, ActorFine, PurgePoint, At, OpOf, TypeOK, ActorType
    <3>7. OfTrash(OpOf(b))' => OfTrash(o)
      BY <3>2, <3>3 DEF OfTrash
    <3>8. PartPath(OpOf(b), actors[b].part)' = PartPath(o, actors[b].part)
      BY <2>1, <3>2, <3>3 DEF PartPath
    <3>9. /\ At(b, "record") /\ actors[b].outcome \in Dealt /\ OfTrash(o) =>
                 files'[PartPath(o, actors[b].part)] = "none"
      BY <2>1, <3>1, <3>6 DEF EraseFine
    <3>10. EraseFine(b)'
      BY <2>1, <3>1, <3>2, <3>3, <3>5, <3>7, <3>8, <3>9 DEF EraseFine, At
    <3> QED
      BY <3>4, <3>10
  <2> QED
    BY <2>2, <2>3
<1>2. ASSUME NEW o \in Op, o # t PROVE EraseRow(o)'
  <2>1. EraseRow(o) /\ ops'[o] = ops[o] /\ manifest'[o] = manifest[o]
    BY <1>2 DEF Erasing
  <2>2. Resolved(o)' <=> Resolved(o)
    BY <2>1 DEF Resolved
  <2>3. ASSUME ops[o].kind = "purge", NEW k \in Op, ops[o].origin = Trash(k)
        PROVE  ops'[k].state \in Terminal
    <3>1. ops[k].state \in Terminal
      BY <2>1, <2>3 DEF EraseRow
    <3>2. ops[k].kind # "none"
      BY <2>3, PathsDiffer DEF Base, RowsFine, RowFine, Placed
    <3>3. k # t
      BY <3>1, <3>2 DEF Active
    <3> QED
      BY <3>1, <3>3
  <2>4. OfTrash(o)' => OfTrash(o)
    BY <2>1 DEF OfTrash
  <2>5. \A p \in Part : PartPath(o, p)' = PartPath(o, p)
    BY <2>1 DEF PartPath
  <2>6. ASSUME ops[o].kind = "purge", OfTrash(o)', NEW p \in Part, manifest'[o][p] \in Dealt
        PROVE  files'[PartPath(o, p)] = "none"
    BY <2>1, <2>4, <2>6 DEF EraseRow
  <2> QED
    BY <2>1, <2>2, <2>3, <2>5, <2>6 DEF EraseRow
<1> QED
  BY <1>1, <1>2 DEF Erasing

(* A move leaves the manifests alone and stays clear of what was erased.   *)
LEMMA EraseMoves ==
    ASSUME Base, Base', Erasing, [Next]_vars, NEW a \in Actors, Working(a), NEW o \in Op,
           OpOf(a) = o, Move(o), Step(a), AtWork(a)
    PROVE  EraseFine(a)' /\ EraseRow(o)'
<1>1. /\ actors[a].pc \notin PurgePoint /\ ops'[o].kind = ops[o].kind
  BY PurgeInHand DEF Move, Step, Frame, OldRows
<1>2. UNCHANGED manifest
  BY <1>1, ManifestInHand
<1>3. EraseRow(o)'
  BY <1>1, <1>2 DEF Erasing, EraseRow, Move
<1>4. actors'[a].op = 0 \/ actors'[a].op = o
  BY DEF AtWork, OwnRow, OpOf
<1>5. actors'[a].pc \notin PurgePoint
  <2>1. ActorFine(actors[a])'
    BY DEF Base, ActorsFine
  <2> QED
    BY <1>1, <1>4, <2>1, OpsAreNumbers DEF ActorFine, PurgePoint, Move
<1>6. ~(At(a, "finish")' /\ RowOf(a)'.kind = "purge")
  <2>1. At(a, "finish")' => actors'[a].op # 0
    BY DEF Base, ActorsFine, ActorFine, At
  <2> QED
    BY <1>1, <1>4, <2>1 DEF RowOf, OpOf, Move
<1> QED
  BY <1>3, <1>5, <1>6 DEF EraseFine, PurgePoint, At

(* The row of the purge in hand: it is past its manifest only when every   *)
(* child is dealt with, and what the manifest calls gone is gone.          *)
LEMMA PurgeRowKept ==
    ASSUME Base, Erasing, [Next]_vars, NEW a \in Actors, Working(a), NEW o \in Op,
           OpOf(a) = o, ops[o].kind = "purge", Step(a), AtWork(a),
           manifest'[o] = NoManifest \/ \A p \in Part : manifest'[o][p] # "none",
           UNCHANGED manifest \/ actors[a].pc \in {"manifest", "record"},
           \A p \in Part : OfTrash(o) /\ manifest'[o][p] \in Dealt =>
               files[PartPath(o, p)] = "none"
    PROVE  EraseRow(o)'
<1>1. ops'[o].kind = "purge" /\ ops'[o].origin = ops[o].origin
  BY DEF Step, Frame, OldRows
<1>2. OfTrash(o)' => OfTrash(o)
  BY <1>1, ReturnedBefore DEF OfTrash
<1>3. ASSUME NEW p \in Part, OfTrash(o)', manifest'[o][p] \in Dealt
      PROVE  files'[PartPath(o, p)'] = "none"
  <2>1. files'[PartPath(o, p)] = "none"
    BY <1>2, <1>3, GoneStays
  <2>2. PartPath(o, p)' = PartPath(o, p)
    BY <1>1 DEF PartPath
  <2> QED
    BY <2>1, <2>2
<1>4. ASSUME NEW k \in Op, ops[o].origin = Trash(k) PROVE ops'[k].state \in Terminal
  <2>1. ops[k].state \in Terminal
    BY <1>4 DEF Erasing, EraseRow
  <2>2. Active(o)
    BY OpsAreNumbers DEF Erasing, HandsOn
  <2> QED
    BY <2>1, <2>2 DEF Active, AtWork, OneRow
<1>5. ASSUME ops'[o].state \in {"fs_applied", "db_applied"} \cup Terminal PROVE Resolved(o)'
  <2>1. EraseRow(o) /\ EraseFine(a) /\ RowOf(a) = ops[o] /\ TypeOK
    BY DEF Erasing, RowOf, Base
  <2>2. CASE actors[a].pc \in {"manifest", "record"}
    <3>1. ops[o].state \in {"planned", "awaiting_retry"}
      BY <2>1, <2>2 DEF EraseFine
    <3>2. ops'[o].state \in {"planned", "awaiting_retry"}
      BY <2>2, <3>1, PurgeRowChanges DEF Working, Converge, ApplyPurge, At
    <3> QED
      BY <1>5, <3>2 DEF Terminal
  <2>3. CASE UNCHANGED manifest
    <3>1. Resolved(o)
      <4>1. CASE ops'[o].state = ops[o].state
        BY <1>5, <2>1, <4>1 DEF EraseRow
      <4>2. CASE Converge(a) /\ Unresolved(o) = {}
        <5>1. \A p \in Part : manifest[o][p] # "none" /\ manifest[o][p] \in PartStatus
          BY <2>1, <4>2 DEF Converge, At, EraseFine, TypeOK
        <5> QED
          BY <4>2, <5>1 DEF Unresolved, PartStatus, Resolved, Dealt
      <4>3. CASE ApplyPurge(a) \/ At(a, "finish")
        BY <2>1, <4>3 DEF ApplyPurge, EraseFine
      <4> QED
        BY <1>5, <4>1, <4>2, <4>3, PurgeRowChanges DEF Working, Terminal
    <3> QED
      BY <2>3, <3>1 DEF Resolved
  <2> QED
    BY <2>2, <2>3
<1> QED
  BY <1>1, <1>3, <1>4, <1>5 DEF EraseRow

(* An actor away from the steps of a purge owes it nothing.                *)
LEMMA EraseRests ==
    ASSUME NEW a \in Actors, actors'[a].pc \notin PurgePoint \cup {"finish"}
    PROVE  EraseFine(a)'
BY Zenon DEF EraseFine, PurgePoint, At

(* A purge at work.                                                        *)
LEMMA ErasePurges ==
    ASSUME Base, Base', Erasing, [Next]_vars, NEW a \in Actors, Working(a), NEW o \in Op,
           OpOf(a) = o, ops[o].kind = "purge", Step(a), AtWork(a)
    PROVE  EraseFine(a)' /\ EraseRow(o)'
<1>1. /\ TypeOK /\ EraseRow(o) /\ EraseFine(a) /\ RowOf(a) = ops[o] /\ ops[o] \in RowType
      /\ actors[a] \in ActorType /\ actors[a].pc \notin MovePoint /\ Active(o)
      /\ ops'[o].kind = "purge" /\ ops'[o].origin = ops[o].origin
  <2>1. actors[a].pc \notin MovePoint
    BY MoveInHand DEF Move
  <2>2. Active(o)
    BY OpsAreNumbers DEF Erasing, HandsOn
  <2> QED
    BY <2>1, <2>2 DEF Base, TypeOK, Erasing, RowOf, Step, Frame, OldRows
<1>2. ASSUME UNCHANGED manifest PROVE EraseRow(o)'
  <2>1. manifest'[o] = NoManifest \/ \A p \in Part : manifest'[o][p] # "none"
    BY <1>1, <1>2 DEF EraseRow
  <2>2. \A p \in Part : OfTrash(o) /\ manifest'[o][p] \in Dealt => files[PartPath(o, p)] = "none"
    BY <1>1, <1>2 DEF EraseRow
  <2> QED
    BY <1>2, <2>1, <2>2, PurgeRowKept
<1>3. ASSUME Leave(a) PROVE EraseFine(a)'
  BY <1>1, <1>3, LeaveFacts, IdleFacts, EraseRests DEF PurgePoint
<1>4. ASSUME NEW me, Become(a, me) PROVE actors'[a] = me
  BY <1>1, <1>4 DEF Become, TypeOK
<1>5. ASSUME UNCHANGED ops \/ Rollback(a) PROVE ops'[o].state = ops[o].state
  BY <1>1, <1>5, SameState
<1>6. OfTrash(o)' => OfTrash(o)
  BY <1>1, ReturnedBefore DEF OfTrash
<1>7. \A p \in Part : PartPath(o, p)' = PartPath(o, p)
  BY <1>1 DEF PartPath
<1>8. CASE Crash(a)
  BY <1>2, <1>3, <1>8 DEF Crash
<1>9. CASE BuildManifest(a)
  <2> DEFINE built == IF manifest[o] = NoManifest THEN [p \in Part |-> "pending"] ELSE manifest[o]
             left == {p \in Part : built[p] \in {"pending", "failed"}}
             me == [actors[a] EXCEPT !.pc = "children", !.todo = left]
  <2>1. /\ manifest' = [manifest EXCEPT ![o] = built] /\ Become(a, me) /\ Rollback(a)
        /\ actors[a].pc = "manifest"
    BY <1>9 DEF BuildManifest, At
  <2>2. me.pc = "children" /\ me.op = o
    BY <1>1 DEF ActorType, OpOf
  <2>3. actors'[a] = me
    BY <1>4, <2>1
  <2>4. manifest'[o] = built
    BY <1>1, <2>1 DEF TypeOK
  <2>5. \A p \in Part : built[p] # "none" /\ (built[p] \in Dealt => manifest[o][p] = built[p])
    BY <1>1 DEF EraseRow, Dealt
  <2>6. ops[o].state \in {"planned", "awaiting_retry"}
    BY <1>1, <2>1 DEF EraseFine
  <2> HIDE DEF me, built
  <2>7. EraseFine(a)'
    BY <1>5, <2>1, <2>2, <2>3, <2>4, <2>5, <2>6 DEF EraseFine, At, RowOf, OpOf
  <2>8. \A p \in Part : OfTrash(o) /\ manifest'[o][p] \in Dealt => files[PartPath(o, p)] = "none"
    BY <1>1, <2>4, <2>5 DEF EraseRow
  <2>9. EraseRow(o)'
    BY <2>1, <2>4, <2>5, <2>8, PurgeRowKept
  <2> QED
    BY <2>7, <2>9
<1>10. CASE AttemptChild(a)
  <2>1. UNCHANGED <<manifest, ops>> /\ actors[a].pc = "children"
    BY <1>10 DEF AttemptChild, At
  <2>2. /\ ops[o].state \in {"planned", "awaiting_retry"}
        /\ \A p \in Part : manifest[o][p] # "none"
    BY <1>1, <2>1 DEF EraseFine
  <2>3. actors'[a].pc \in {"erase", "converge"} /\ actors'[a].op = o
    <3>1. CASE Goto(a, "converge")
      BY <1>1, <3>1, GotoFacts DEF ProgramPoint, OpOf
    <3>2. CASE ~Goto(a, "converge")
      <4>1. PICK p : Become(a, [actors[a] EXCEPT !.pc = "erase", !.part = p, !.todo = @ \ {p}])
        BY <1>10, <3>2 DEF AttemptChild
      <4> DEFINE me == [actors[a] EXCEPT !.pc = "erase", !.part = p, !.todo = @ \ {p}]
      <4>2. me.pc = "erase" /\ me.op = o
        BY <1>1 DEF ActorType, OpOf
      <4>3. actors'[a] = me
        BY <1>4, <4>1
      <4> HIDE DEF me
      <4> QED
        BY <4>2, <4>3
    <3> QED
      BY <3>1, <3>2, ZenonT(40)
  <2>4. EraseFine(a)'
    BY <2>1, <2>2, <2>3, Zenon DEF EraseFine, At, RowOf, OpOf
  <2> QED
    BY <1>2, <2>1, <2>4
<1>17. CASE EraseChild(a)
  <2> DEFINE p == actors[a].part
  <2>1. UNCHANGED <<manifest, ops>> /\ actors[a].pc = "erase" /\ p \in Part
    BY <1>1, <1>17 DEF EraseChild, At, ActorType
  <2>2. /\ ops[o].state \in {"planned", "awaiting_retry"}
        /\ \A q \in Part : manifest[o][q] # "none"
    BY <1>1, <2>1 DEF EraseFine
  <2>3. PICK outcome \in Dealt \cup {"failed"} :
            /\ Become(a, [actors[a] EXCEPT !.pc = "record", !.outcome = outcome])
            /\ outcome \in Dealt => files' = FilePut(PartPath(o, p), "none")
    <3> DEFINE gone == IF files[PartPath(o, p)] # "none" THEN "done" ELSE "missing"
               ends(outcome) == [actors[a] EXCEPT !.pc = "record", !.outcome = outcome]
    <3>1. gone \in Dealt /\ "failed" \notin Dealt
      BY DEF Dealt
    <3>2. \/ files' = FilePut(PartPath(o, p), "none") /\ Become(a, ends(gone))
          \/ Become(a, ends("failed"))
      BY <1>17 DEF EraseChild
    <3> HIDE DEF gone, ends
    <3>3. PICK outcome \in Dealt \cup {"failed"} :
              /\ Become(a, ends(outcome))
              /\ outcome \in Dealt => files' = FilePut(PartPath(o, p), "none")
      BY <3>1, <3>2
    <3> USE DEF ends
    <3> QED
      BY <3>3, Zenon
  <2> DEFINE me == [actors[a] EXCEPT !.pc = "record", !.outcome = outcome]
  <2>4. /\ me.pc = "record" /\ me.op = o /\ me.part = p /\ me.outcome = outcome
    BY <1>1 DEF ActorType, OpOf
  <2>5. actors'[a] = me
    BY <1>4, <2>3
  <2>6. OfTrash(o) => PartPath(o, p) \in Path
    BY <1>1, <2>1, ErasedPaths
  <2>7. outcome \in Dealt /\ OfTrash(o) => files'[PartPath(o, p)] = "none"
    BY <1>1, <2>3, <2>6 DEF FilePut, TypeOK
  <2> HIDE DEF me, p
  <2>8. EraseFine(a)'
    BY <1>6, <1>7, <2>1, <2>2, <2>4, <2>5, <2>7 DEF EraseFine, At, RowOf, OpOf
  <2> QED
    BY <1>2, <2>1, <2>8
<1>11. CASE RecordChild(a)
  <2> DEFINE part == actors[a].part
             outcome == actors[a].outcome
             me == [actors[a] EXCEPT !.pc = "children", !.part = Idle.part,
                                     !.outcome = Idle.outcome]
  <2>1. /\ manifest' = [manifest EXCEPT ![o][part] = outcome] /\ UNCHANGED <<ops, files>>
        /\ actors[a].pc = "record" /\ Become(a, me)
    BY <1>11, Zenon DEF RecordChild, At
  <2>2. actors'[a].pc = "children" /\ actors'[a].op = o
    <3>1. me.pc = "children" /\ me.op = o
      BY <1>1 DEF ActorType, OpOf
    <3>2. actors'[a] = me
      BY <1>4, <2>1
    <3> QED
      BY <3>1, <3>2
  <2> HIDE DEF me
  <2>3. /\ ops[o].state \in {"planned", "awaiting_retry"}
        /\ \A p \in Part : manifest[o][p] # "none"
        /\ outcome # "none"
        /\ outcome \in Dealt /\ OfTrash(o) => files[PartPath(o, part)] = "none"
    BY <1>1, <2>1 DEF EraseFine, At, Dealt
  <2>4. part \in Part /\ manifest[o] \in [Part -> PartStatus]
    BY <1>1 DEF ActorType, TypeOK
  <2>5. \A p \in Part : manifest'[o][p] = IF p = part THEN outcome ELSE manifest[o][p]
    BY <1>1, <2>1, <2>4 DEF TypeOK
  <2>6. EraseFine(a)'
    BY <2>1, <2>2, <2>3, <2>5 DEF EraseFine, At, RowOf, OpOf
  <2>7. \A p \in Part : OfTrash(o) /\ manifest'[o][p] \in Dealt => files[PartPath(o, p)] = "none"
    BY <1>1, <2>3, <2>5 DEF EraseRow
  <2>8. EraseRow(o)'
    BY <2>1, <2>3, <2>5, <2>7, PurgeRowKept
  <2> QED
    BY <2>6, <2>8
<1>12. CASE Converge(a)
  <2>1. UNCHANGED manifest /\ actors[a].pc = "converge"
    BY <1>12 DEF Converge, Quietly, At
  <2>2. CASE Leave(a)
    BY <1>2, <1>3, <2>1, <2>2
  <2>3. CASE Goto(a, "rescue")
    <3>1. actors'[a].pc = "rescue"
      BY <1>1, <2>3, GotoFacts DEF ProgramPoint
    <3>2. EraseFine(a)'
      BY <3>1, EraseRests DEF PurgePoint
    <3> QED
      BY <1>2, <2>1, <3>2, Zenon
  <2>4. CASE /\ Unresolved(o) = {}
             /\ Become(a, [actors[a] EXCEPT !.pc = "purged", !.from = "fs_applied"])
    <3>1. /\ [actors[a] EXCEPT !.pc = "purged", !.from = "fs_applied"].pc = "purged"
          /\ [actors[a] EXCEPT !.pc = "purged", !.from = "fs_applied"].op = o
      BY <1>1 DEF ActorType, OpOf
    <3>2. actors'[a].pc = "purged" /\ actors'[a].op = o
      BY <1>4, <2>4, <3>1
    <3>3. \A p \in Part : manifest[o][p] # "none" /\ manifest[o][p] \in PartStatus
      BY <1>1, <2>1 DEF EraseFine, TypeOK
    <3>4. Resolved(o)
      BY <2>4, <3>3 DEF Unresolved, PartStatus, Resolved, Dealt
    <3> QED
      BY <1>2, <2>1, <3>2, <3>4 DEF EraseFine, At, OpOf, Resolved
  <2> QED
    BY <1>12, <2>2, <2>3, <2>4 DEF Converge, Transition, Leave
<1>13. CASE ApplyPurge(a)
  <2>1. UNCHANGED manifest /\ Resolved(o)
    BY <1>1, <1>13 DEF ApplyPurge, Quietly, EraseFine
  <2>2. CASE Leave(a)
    BY <1>2, <1>3, <2>1, <2>2
  <2>3. CASE Become(a, [actors[a] EXCEPT !.pc = "finish", !.from = "db_applied"])
    <3>1. /\ [actors[a] EXCEPT !.pc = "finish", !.from = "db_applied"].pc = "finish"
          /\ [actors[a] EXCEPT !.pc = "finish", !.from = "db_applied"].op = o
      BY <1>1 DEF ActorType, OpOf
    <3>2. actors'[a].pc = "finish" /\ actors'[a].op = o
      BY <1>4, <2>3, <3>1
    <3> QED
      BY <1>2, <2>1, <3>2 DEF EraseFine, At, OpOf, Resolved
  <2> QED
    BY <1>13, <2>2, <2>3 DEF ApplyPurge, Transition
<1>14. CASE Finish(a)
  BY <1>2, <1>3, <1>14 DEF Finish, Transition, Leave, Quietly
<1>15. CASE Inspect(a)
  <2>1. UNCHANGED manifest
    BY <1>15 DEF Inspect
  <2>2. CASE Leave(a)
    BY <1>2, <1>3, <2>1, <2>2
  <2>3. CASE ~Leave(a)
    <3> DEFINE me == [actors[a] EXCEPT !.pc = PurgeEntry(ops[o].state), !.from = ops[o].state,
                                       !.role = "reconciler"]
               row == [ops[o] EXCEPT !.held = a]
    <3>1. Become(a, me) /\ SetRow(o, row)
      BY <1>15, <2>3 DEF Inspect
    <3>2. /\ me.pc = PurgeEntry(ops[o].state) /\ me.op = o
          /\ row \in RowType /\ row.state = ops[o].state
      BY <1>1 DEF ActorType, OpOf, RowType
    <3>3. actors'[a] = me
      BY <1>4, <3>1
    <3> HIDE DEF me, row
    <3>4. ops'[o].state = ops[o].state
      BY <1>1, <3>1, <3>2, SetRowFacts
    <3>5. ops[o].state \in {"planned", "awaiting_retry", "fs_applied", "db_applied"}
      BY <1>1 DEF RowType, OperationState, Active
    <3>6. EraseFine(a)'
      BY <1>1, <2>1, <3>2, <3>3, <3>4, <3>5
         DEF EraseFine, EraseRow, PurgeEntry, At, RowOf, OpOf, Resolved
    <3> QED
      BY <1>2, <2>1, <3>6
  <2> QED
    BY <2>2, <2>3
<1>16. CASE Rescue(a) /\ UNCHANGED manifest
  BY <1>2, <1>3, <1>16 DEF Rescue
<1> QED
  BY <1>1, <1>8, <1>9, <1>10, <1>11, <1>12, <1>13, <1>14, <1>15, <1>16, <1>17
     DEF Working, Work, Execute, Reconcile, Act, MovePoint, At, Publish, CopyBegins, CopyEnds,
         LinkTemp, UnlinkTemp, Apply, PointAndApply, CheckLease, UnlinkOrigin, SweepTemp, Collide,
         RecordError, GiveUp, Shelve, Scrap, LeaveTemp, SparesTemp, Restart, CleanUp,
         RelinkFails, RollForward, Decided, Stumble

(* A row whose state, kind and paths stay, with its files.                 *)
LEMMA SameRowErased ==
    ASSUME Base, Erasing, [Next]_vars, UNCHANGED <<files, manifest>>, NEW o \in Op,
           \A p \in Op : /\ ops'[p].kind = ops[p].kind /\ ops'[p].origin = ops[p].origin
                         /\ ops'[p].dest = ops[p].dest /\ ops'[p].state = ops[p].state
    PROVE  EraseRow(o)'
<1>1. EraseRow(o)
  BY DEF Erasing
<1>2. OfTrash(o)' => OfTrash(o)
  BY ReturnedBefore DEF OfTrash
<1>3. \A p \in Part : PartPath(o, p)' = PartPath(o, p)
  BY DEF PartPath
<1>4. Resolved(o)' <=> Resolved(o)
  BY DEF Resolved
<1> QED
  BY <1>1, <1>2, <1>3, <1>4 DEF EraseRow

(* A manifest begins with nothing dealt with.                              *)
LEMMA NothingDealt == \A p \in Part : NoManifest[p] \notin Dealt
BY DEF NoManifest, Dealt

(* An operation in hand is in Op.                                          *)
LEMMA HandIsOp ==
    ASSUME TypeOK, NEW a \in Actors, OpOf(a) # 0 PROVE OpOf(a) \in Op
<1>1. actors[a] \in ActorType
  BY DEF TypeOK
<1> QED
  BY <1>1 DEF ActorType, OpOf

(* Nobody else has the operation an actor has in hand.                     *)
LEMMA HandsApart ==
    ASSUME TypeOK, Erasing, NEW a \in Actors, NEW b \in Actors, a # b, OpOf(a) # 0
    PROVE  OpOf(b) # OpOf(a)
BY DEF Erasing, HandsOn, Mine, RowOf

(* The actor's own work.                                                   *)
LEMMA EraseWorks ==
    ASSUME Base, Base', Erasing, [Next]_vars, NEW a \in Actors, Working(a)
    PROVE  Erasing'
<1>1. /\ Step(a) /\ AtWork(a) /\ OthersStay(a) /\ OldRows /\ TypeOK
      /\ actors'[a] \in ActorType /\ ActorFine(actors[a])'
  BY WorkingSteps DEF Step, Frame, OwnFine, Base, TypeOK
<1>2. ASSUME NEW o \in Op, NEW p \in Part, ops[o].kind = "purge", OfTrash(o),
             files[PartPath(o, p)] = "none"
      PROVE  files'[PartPath(o, p)] = "none"
  BY <1>2, GoneStays
<1>3. RestoreReturnsHome' => RestoreReturnsHome
  BY ReturnedBefore
<1>4. \A p \in Op : p # OpOf(a) => ops'[p] = ops[p] /\ manifest'[p] = manifest[p]
  BY <1>1, ManifestInHand DEF AtWork, OneRow
<1>5. \A p \in Op : /\ ops'[p].kind = ops[p].kind /\ ops'[p].origin = ops[p].origin
                    /\ ops'[p].dest = ops[p].dest
  BY <1>1 DEF OldRows
<1>6. HandsOn(a)'
  <2> SUFFICES ASSUME OpOf(a)' # 0 PROVE Mine(a)' /\ RowOf(a)'.live /\ Active(OpOf(a))'
    BY DEF HandsOn
  <2>1. /\ OpOf(a)' = OpOf(a) /\ ops'[OpOf(a)].owner = ops[OpOf(a)].owner
        /\ ops'[OpOf(a)].live = ops[OpOf(a)].live
    BY <1>1 DEF AtWork, OwnRow
  <2>2. OpOf(a) # 0 /\ HandsOn(a)
    BY <2>1 DEF Erasing
  <2>3. Mine(a)' /\ RowOf(a)'.live
    BY <2>1, <2>2 DEF HandsOn, Mine, RowOf
  <2> QED
    BY <2>3 DEF Base, OwnersBusy
<1>7. CASE OpOf(a) = 0
  <2>1. actors'[a].op = 0
    BY <1>1, <1>7 DEF AtWork, OwnRow, OpOf
  <2>2. actors'[a].pc \in {"idle", "choose", "plan", "admit"}
    BY <1>1, <2>1 DEF ActorFine
  <2>3. EraseFine(a)'
    BY <2>2, EraseRests DEF PurgePoint
  <2>4. 0 \notin Op
    BY OpsAreNumbers
  <2> QED
    BY <1>1, <1>2, <1>3, <1>4, <1>5, <1>6, <1>7, <2>3, <2>4, EraseKeeps
<1>8. CASE OpOf(a) # 0
  <2>1. PICK o \in Op : o = OpOf(a)
    BY <1>1, <1>8, HandIsOp
  <2>2. Active(o)
    BY <1>8, <2>1 DEF Erasing, HandsOn
  <2>3. ops[o] \in RowType
    BY <1>1 DEF TypeOK
  <2>4. Move(o) \/ ops[o].kind = "purge"
    BY <2>2, <2>3 DEF Active, Move, RowType, Kind
  <2>5. EraseFine(a)' /\ EraseRow(o)'
    BY <1>1, <2>1, <2>4, EraseMoves, ErasePurges
  <2>6. \A b \in Actors : b # a => OpOf(b) # o
    BY <1>1, <1>8, <2>1, HandsApart
  <2> QED
    BY <1>1, <1>2, <1>3, <1>4, <1>5, <1>6, <2>1, <2>2, <2>5, <2>6, EraseKeeps
<1> QED
  BY <1>7, <1>8

(* An actor that does nothing to the journal and takes nothing in hand.    *)
LEMMA EraseIdles ==
    ASSUME Base, Erasing, [Next]_vars, NEW a \in Actors, OthersStay(a),
           UNCHANGED <<ops, files, manifest>>,
           actors'[a].op = 0, actors'[a].pc \notin PurgePoint \cup {"finish"}
    PROVE  Erasing'
<1>1. HandsOn(a)' /\ EraseFine(a)'
  BY EraseRests DEF HandsOn, OpOf
<1>2. RestoreReturnsHome' => RestoreReturnsHome
  BY ReturnedBefore
<1>3. 0 \notin Op
  BY OpsAreNumbers
<1>4. \A b \in Actors : b # a /\ OpOf(b) # 0 => OpOf(b) # 0
  OBVIOUS
<1> QED
  BY <1>1, <1>2, <1>3, <1>4, EraseKeeps

(* A new operation: its item has no other, and its manifest is not built.  *)
LEMMA EraseOpens ==
    ASSUME Base, Base', Erasing, [Next]_vars, NEW a \in Actors, Opens(a)
    PROVE  Erasing'
<1>1. \E o \in Op :
          /\ ops[o].kind = "none" /\ \A p \in Op : p # o => ops'[p] = ops[p]
          /\ ops'[o].kind = "purge" => ops'[o].origin = media.path /\ media.path # Nowhere
          /\ ops'[o].kind # "none"
          /\ ops'[o].state = "planned" /\ ops'[o].owner = a /\ ops'[o].live
          /\ actors'[a].pc \in {"publish", "manifest"} /\ actors'[a].op = o
          /\ OthersStay(a) /\ ~HasActiveOperation
  <2>1. CASE Plan(a) /\ ~(Leave(a) /\ UNCHANGED ops)
    BY <2>1, PlanOpens DEF OthersStay
  <2>2. CASE PlanPurge(a)
    <3>1. media.path # Nowhere
      BY <2>2 DEF PlanPurge, Base, PointerFine
    <3> QED
      BY <2>2, <3>1, PurgeOpens DEF OthersStay
  <2> QED
    BY <2>1, <2>2 DEF Opens
<1>2. PICK o \in Op :
          /\ ops[o].kind = "none" /\ \A p \in Op : p # o => ops'[p] = ops[p]
          /\ ops'[o].kind = "purge" => ops'[o].origin = media.path /\ media.path # Nowhere
          /\ ops'[o].kind # "none"
          /\ ops'[o].state = "planned" /\ ops'[o].owner = a /\ ops'[o].live
          /\ actors'[a].pc \in {"publish", "manifest"} /\ actors'[a].op = o
          /\ OthersStay(a) /\ ~HasActiveOperation
  BY <1>1, ZenonT(40)
<1>3. UNCHANGED <<files, manifest>> /\ manifest[o] = NoManifest
  BY <1>2 DEF Opens, Plan, PlanPurge, Erasing, EraseRow
<1>4. HandsOn(a)'
  BY <1>2 DEF HandsOn, Mine, RowOf, OpOf, Active, Terminal
<1>5. EraseFine(a)'
  BY <1>2 DEF EraseFine, At, RowOf, OpOf
<1>6. ASSUME ops'[o].kind = "purge", NEW k \in Op, ops'[o].origin = Trash(k)
      PROVE  ops'[k].state \in Terminal
  <2>1. Placed(Trash(k))
    BY <1>2, <1>6 DEF Base, PointerFine
  <2>2. ops[k].kind # "none"
    BY <2>1, PathsDiffer DEF Placed
  <2>3. k # o /\ ops[k].state \in Terminal
    BY <1>2, <2>2 DEF HasActiveOperation, Active
  <2> QED
    BY <1>2, <2>3
<1>7. EraseRow(o)'
  BY <1>2, <1>3, <1>6, NothingDealt DEF EraseRow, Terminal
<1>8. ASSUME NEW b \in Actors, b # a, OpOf(b) # 0 PROVE OpOf(b) # o
  BY <1>2, <1>8 DEF Base, ActorsFine, ActorFine, OpOf
<1>9. \A p \in Op : ops[p].kind # "none" =>
          /\ ops'[p].kind = ops[p].kind /\ ops'[p].origin = ops[p].origin
          /\ ops'[p].dest = ops[p].dest
  BY <1>2
<1>10. RestoreReturnsHome' => RestoreReturnsHome
  BY ReturnedBefore
<1> QED
  BY <1>2, <1>3, <1>4, <1>5, <1>7, <1>8, <1>9, <1>10, EraseKeeps

(* A pass takes a row nobody has in hand.                                  *)
LEMMA EraseClaims ==
    ASSUME Base, Base', Erasing, [Next]_vars, NEW a \in Actors, NEW o \in Op, Claim(a, o)
    PROVE  Erasing'
<1>1. /\ UNCHANGED <<files, manifest>> /\ OthersStay(a)
      /\ \A p \in Op : /\ ops'[p].kind = ops[p].kind /\ ops'[p].origin = ops[p].origin
                       /\ ops'[p].dest = ops[p].dest /\ ops'[p].state = ops[p].state
                       /\ p # o => ops'[p] = ops[p]
      /\ ops'[o].owner = a /\ ops'[o].live /\ Active(o) /\ Claimable(o)
      /\ actors'[a].pc = "relock" /\ actors'[a].op = o
  BY ClaimTakes DEF OthersStay
<1>2. HandsOn(a)'
  BY <1>1 DEF HandsOn, Mine, RowOf, OpOf, Active
<1>3. EraseFine(a)'
  BY <1>1, EraseRests DEF PurgePoint
<1>4. ASSUME NEW b \in Actors, OpOf(b) # 0 PROVE OpOf(b) # o
  <2>1. HandsOn(b) /\ b # NoOne
    BY MediaAssumption DEF Erasing
  <2> QED
    BY <1>1, <1>4, <2>1 DEF HandsOn, Mine, RowOf, Claimable
<1>5. EraseRow(o)'
  BY <1>1, SameRowErased
<1>6. RestoreReturnsHome' => RestoreReturnsHome
  BY ReturnedBefore
<1> QED
  BY <1>1, <1>2, <1>3, <1>4, <1>5, <1>6, EraseKeeps

(* Time: a lease runs out only under an actor that is gone.                *)
LEMMA EraseTime ==
    ASSUME Base, Erasing, [Next]_vars, Spared("slow")', NEW o \in Op,
           LeaseExpires(o) \/ RetryDue(o)
    PROVE  Erasing'
<1>1. /\ UNCHANGED <<files, manifest, actors>> /\ TypeOK
      /\ \A p \in Op : /\ ops'[p].kind = ops[p].kind /\ ops'[p].origin = ops[p].origin
                       /\ ops'[p].dest = ops[p].dest /\ ops'[p].state = ops[p].state
                       /\ ops'[p].owner = ops[p].owner
                       /\ p # o => ops'[p] = ops[p]
  BY TimeKeeps DEF Base
<1>2. ASSUME NEW a \in Actors, OpOf(a) = o PROVE ops'[o].live = ops[o].live
  <2>1. CASE LeaseExpires(o)
    <3>1. Busy(o)
      BY <1>2 DEF Erasing, HandsOn, Mine, RowOf, Busy, Op
    <3>2. "slow" \in env'.met
      BY <1>1, <2>1, <3>1, TroubleSpent DEF LeaseExpires
    <3> QED
      BY <3>2 DEF Spared
  <2>2. CASE RetryDue(o)
    <3>1. ops[o] \in RowType /\ ops' = [ops EXCEPT ![o] = [ops[o] EXCEPT !.due = TRUE]]
      BY <1>1, <2>2 DEF TypeOK, RetryDue, SetRow
    <3> QED
      BY <1>1, <3>1 DEF TypeOK, RowType
  <2> QED
    BY <2>1, <2>2
<1>3. ASSUME NEW a \in Actors PROVE HandsOn(a)' /\ EraseFine(a)'
  <2>1. HandsOn(a) /\ EraseFine(a)
    BY DEF Erasing
  <2>2. CASE OpOf(a) = 0
    <3>1. actors[a].pc \in {"idle", "choose", "plan", "admit"}
      BY <2>2 DEF Base, ActorsFine, ActorFine, OpOf
    <3> QED
      BY <1>1, <2>2, <3>1, EraseRests DEF HandsOn, OpOf, PurgePoint
  <2>3. CASE OpOf(a) # 0
    <3>1. PICK k \in Op : k = OpOf(a)
      BY <1>1, <2>3, HandIsOp
    <3>2. /\ OpOf(a)' = k /\ ops'[k].owner = ops[k].owner /\ ops'[k].live = ops[k].live
          /\ ops'[k].state = ops[k].state /\ ops'[k].kind = ops[k].kind
          /\ ops'[k].origin = ops[k].origin
      BY <1>1, <1>2, <3>1 DEF OpOf
    <3>3. HandsOn(a)'
      BY <1>1, <2>1, <3>1, <3>2 DEF HandsOn, Mine, RowOf, Active
    <3>4. OfTrash(k)' => OfTrash(k)
      BY <3>2, ReturnedBefore DEF OfTrash
    <3>5. \A p \in Part : PartPath(k, p)' = PartPath(k, p)
      BY <3>2 DEF PartPath
    <3>6. Resolved(k)' <=> Resolved(k)
      BY <1>1 DEF Resolved
    <3>7. actors[a].part \in Part
      <4>1. actors[a] \in ActorType
        BY <1>1 DEF TypeOK
      <4> QED
        BY <4>1 DEF ActorType
    <3>8. PartPath(OpOf(a), actors[a].part)' = PartPath(k, actors[a].part)
      BY <1>1, <3>2, <3>5, <3>7 DEF PartPath
    <3>9. (OfTrash(OpOf(a))' => OfTrash(k)) /\ (Resolved(OpOf(a))' <=> Resolved(k))
      BY <3>2, <3>4, <3>6 DEF OfTrash, Resolved
    <3>10. RowOf(a)'.state = RowOf(a).state /\ RowOf(a)'.kind = RowOf(a).kind
      BY <3>1, <3>2 DEF RowOf
    <3>11. EraseFine(a)'
      BY <1>1, <2>1, <3>1, <3>2, <3>8, <3>9, <3>10 DEF EraseFine, At
    <3> QED
      BY <3>3, <3>11
  <2> QED
    BY <2>2, <2>3
<1>4. ASSUME NEW p \in Op PROVE EraseRow(p)'
  BY <1>1, SameRowErased
<1> QED
  BY <1>3, <1>4 DEF Erasing

(* Somebody else's hand on the files brings nothing back that was erased.  *)
LEMMA EraseElsewhere ==
    ASSUME Base, Erasing, [Next]_vars, Elsewhere PROVE Erasing'
<1>1. UNCHANGED <<ops, manifest, actors>>
  BY DEF Elsewhere, RunEnds, RunReopens, Outside, Rest, vars
<1>2. ASSUME NEW o \in Op, NEW p \in Part, ops[o].kind = "purge", OfTrash(o),
             files[PartPath(o, p)] = "none"
      PROVE  files'[PartPath(o, p)] = "none"
  <2>1. CASE Outside
    BY <1>2, <2>1, GoneStays
  <2>2. CASE UNCHANGED files
    BY <1>2, <2>2
  <2> QED
    BY <2>1, <2>2 DEF Elsewhere, RunEnds, RunReopens, Rest, vars
<1>3. ASSUME NEW a \in Actors PROVE HandsOn(a)' /\ EraseFine(a)'
  <2>1. HandsOn(a) /\ EraseFine(a) /\ TypeOK /\ actors[a] \in ActorType
    BY DEF Erasing, Base, TypeOK
  <2>2. HandsOn(a)'
    BY <1>1, <2>1 DEF HandsOn, Mine, RowOf, OpOf, Active
  <2>3. ASSUME At(a, "record"), OfTrash(OpOf(a)),
               files[PartPath(OpOf(a), actors[a].part)] = "none"
        PROVE  files'[PartPath(OpOf(a), actors[a].part)] = "none"
    <3>1. OpOf(a) \in Op /\ ops[OpOf(a)].kind = "purge" /\ actors[a].part \in Part
      BY <2>1, <2>3, InHand, PurgeInHand DEF At, PurgePoint, ActorType
    <3> QED
      BY <1>2, <2>3, <3>1
  <2>4. EraseFine(a)'
    BY <1>1, <2>1, <2>3
       DEF EraseFine, At, RowOf, OpOf, Resolved, OfTrash, RestoreReturnsHome, PartPath
  <2> QED
    BY <2>2, <2>4
<1>4. ASSUME NEW o \in Op PROVE EraseRow(o)'
  <2>1. EraseRow(o)
    BY DEF Erasing
  <2>2. /\ OfTrash(o)' <=> OfTrash(o)
        /\ Resolved(o)' <=> Resolved(o)
        /\ \A p \in Part : PartPath(o, p)' = PartPath(o, p)
    BY <1>1 DEF OfTrash, RestoreReturnsHome, Resolved, PartPath
  <2> QED
    BY <1>1, <1>2, <2>1, <2>2 DEF EraseRow
<1> QED
  BY <1>3, <1>4 DEF Erasing

(* Every step keeps them.                                                  *)
LEMMA EraseInvNext == ASSUME Base, EraseInv, [Next]_vars PROVE EraseInv'
<1>1. Base' /\ TypeOK
  BY BaseNext DEF Base
<1> SUFFICES ASSUME Spared("slow")' PROVE Erasing'
  BY DEF EraseInv
<1>2. Erasing
  BY <1>1, TroublesStand DEF EraseInv, Spared
<1>3. CASE \E a \in Actors : Working(a)
  BY <1>1, <1>2, <1>3, EraseWorks
<1>4. CASE \E a \in Actors : Looks(a)
  BY <1>2, <1>4, AskLooks, EraseIdles DEF Looks, OthersStay, PurgePoint
<1>5. CASE \E a \in Actors : Refuses(a)
  BY <1>1, <1>2, <1>5, RefusesNothing, IdleFacts, EraseIdles DEF OthersStay, PurgePoint
<1>6. CASE \E a \in Actors : Opens(a)
  BY <1>1, <1>2, <1>6, EraseOpens
<1>7. CASE \E a \in Actors, o \in Op : Claim(a, o)
  BY <1>1, <1>2, <1>7, EraseClaims
<1>8. CASE \E o \in Op : LeaseExpires(o) \/ RetryDue(o)
  BY <1>2, <1>8, EraseTime
<1>9. CASE Elsewhere
  BY <1>2, <1>9, EraseElsewhere
<1> QED
  BY <1>3, <1>4, <1>5, <1>6, <1>7, <1>8, <1>9, StepKinds

(* At first there is no purge and nothing is in hand.                      *)
LEMMA EraseInvInit == Init => EraseInv
<1> SUFFICES ASSUME Init PROVE Erasing
  BY DEF EraseInv
<1>1. /\ \A o \in Op : ops[o].kind = "none" /\ manifest[o] = NoManifest
      /\ \A a \in Actors : actors[a].pc = "idle" /\ actors[a].op = 0
  BY IdleFacts DEF Init, NoRow
<1>2. \A a \in Actors : HandsOn(a) /\ EraseFine(a)
  BY <1>1 DEF HandsOn, EraseFine, At, OpOf
<1>3. \A o \in Op : EraseRow(o)
  BY <1>1 DEF EraseRow
<1> QED
  BY <1>2, <1>3 DEF Erasing

(* While no lease runs out under a living actor, every operation in flight *)
(* is in the hands of the one actor that owns it or in nobody's, a purge   *)
(* passes its manifest only when every child is dealt with, and what a     *)
(* manifest calls gone is gone and stays gone.                             *)
THEOREM PurgeInvariant == Spec => [](Base /\ EraseInv)
<1>1. Init => Base /\ EraseInv
  BY BaseInit, EraseInvInit
<1>2. Base /\ EraseInv /\ [Next]_vars => (Base /\ EraseInv)'
  BY BaseNext, EraseInvNext
<1> QED
  BY <1>1, <1>2, PTL DEF Spec

(* A purge of a trash path that is over leaves no file of its manifest.    *)
THEOREM PurgeLeavesNothing == Spec => []PurgedLeavesNothing
<1>1. EraseInv => PurgedLeavesNothing
  <2> SUFFICES ASSUME Erasing, RestoreReturnsHome, NEW o \in Op, ops[o].kind = "purge",
                      ops[o].origin # Home, ops[o].state \in {"db_applied", "completed"},
                      NEW p \in Part
               PROVE  files[PartPath(o, p)] = "none"
    BY DEF PurgedLeavesNothing, EraseInv
  <2> QED
    BY DEF Erasing, EraseRow, OfTrash, Resolved, Terminal
<1> QED
  BY <1>1, PurgeInvariant, PTL

-----------------------------------------------------------------------------
(* Publication.                                                            *)

(* Nobody writes over a whole file, an outside hand included.              *)
LEMMA ClobbersStep ==
    ASSUME Base, [Next]_vars, NEW p \in Path
    PROVE  ~Clobbers(p)
<1>1. TypeOK
  BY DEF Base
<1>2. CASE UNCHANGED files
  BY <1>2 DEF Clobbers
<1>3. CASE \E a \in Actors : Working(a)
  BY <1>1, <1>3, WorkClobbersNothing
<1>4. CASE Outside
  <2> SUFFICES ASSUME Whole(files[p]), files'[p] # files[p] PROVE files'[p] = "none"
    BY DEF Clobbers
  <2>1. PICK q \in Path : \/ files' = FilePut(q, "none")
                          \/ files[q] = "none" /\ files' = FilePut(q, "foreign")
    BY <1>4, PathsDiffer DEF Outside
  <2> QED
    BY <1>1, <2>1 DEF FilePut, TypeOK, Whole
<1>5. ASSUME NEW a \in Actors, Looks(a) \/ Opens(a) \/ Refuses(a) PROVE UNCHANGED files
  BY <1>5, Zenon DEF Looks, AskTrash, AskRestore, AskRun, Ask, ChooseTrash, Opens, Refuses,
                       Plan, PlanPurge, Admit
<1>6. ASSUME \/ \E a \in Actors, o \in Op : Claim(a, o)
             \/ \E o \in Op : LeaseExpires(o) \/ RetryDue(o)
      PROVE  UNCHANGED files
  BY <1>6, Zenon DEF Claim, LeaseExpires, RetryDue
<1>7. CASE Elsewhere
  BY <1>2, <1>4, <1>7 DEF Elsewhere, Rest, RunEnds, RunReopens, vars
<1> QED
  BY <1>2, <1>3, <1>5, <1>6, <1>7, StepKinds, Zenon

(* A recording, or a file of somebody else, is never written over.         *)
THEOREM PublicationClobbersNothing == Spec => NothingClobbered
<1>1. Base /\ [Next]_vars
      => [\A p \in Path : Whole(files[p]) => files'[p] \in {files[p], "none"}]_vars
  BY ClobbersStep DEF Clobbers
<1> QED
  BY <1>1, MediaInvariant, PTL DEF Spec, NothingClobbered

=============================================================================
