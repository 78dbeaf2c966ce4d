----------------------------- MODULE ReviewProofs ------------------------------
(***************************************************************************)
(* Proofs about Review, for any runs, speakers, reviewers, requests and    *)
(* bounds.                                                                 *)
(***************************************************************************)
EXTENDS ReviewInv, TLAPS

SlotRec == {Idle} \cup Begun \cup Reading \cup Holder

-------------------------------------------------------------------------------
(* Kinds of slots. *)

LEMMA SlotKinds ==
    ASSUME NEW m \in SlotRec
    PROVE  /\ m.at = "holding" => m \in Holder
           /\ m.at = "begun" => m \in Begun
           /\ m.at = "read" => m \in Reading
           /\ m.at \in {"idle", "begun", "read", "holding"}
<1>1. CASE m = Idle
    BY <1>1 DEF Idle
<1>2. CASE m \in Begun
    BY <1>2 DEF Begun
<1>3. CASE m \in Reading
    BY <1>3 DEF Reading
<1>4. CASE m \in Holder
    BY <1>4 DEF Holder
<1> QED
    BY <1>1, <1>2, <1>3, <1>4 DEF SlotRec

\* Writing one slot.
LEMMA SlotWrite ==
    ASSUME SlotsTyped, NEW q \in Slot, NEW s \in SlotRec, slot' = [slot EXCEPT ![q] = s]
    PROVE  /\ SlotsTyped'
           /\ slot'[q] = s
           /\ \A p \in Slot : p # q => slot'[p] = slot[p]
           /\ \A p \in Slot : slot'[p] \in SlotRec /\ slot[p] \in SlotRec
           /\ \A m \in Requests' : m = s \/ \E p \in Slot : p # q /\ m = slot[p]
BY DEF SlotsTyped, SlotRec, Requests

-------------------------------------------------------------------------------
(* What a change leaves alone. *)

\* The rows of a run read the same while its segments are.
LEMMA ShownFrame ==
    ASSUME NEW r \in Run, NEW L \in SUBSET Row, NEW scope,
           run'[r].generation = run[r].generation
    PROVE  Shown(scope, r, L)' = Shown(scope, r, L)
<1>1. \A x \in L : x.run = r => (Detached(x)' <=> Detached(x))
    BY DEF Detached
<1>2. LabelRows(r, L)' = LabelRows(r, L)
    BY <1>1 DEF LabelRows, Voided
<1>3. SegmentRows(r, L)' = SegmentRows(r, L)
    BY <1>1 DEF SegmentRows
<1> QED
    BY <1>2, <1>3 DEF Shown, Effective, Newest

\* Rows of other runs are not shown, and void nothing of this one.
Foreign(N, r, L) ==
    /\ \A x \in N : x.run # r
    /\ \A x \in N, y \in L : x.verdict = "revoke" /\ y.run = r => x.voids # y.stamp

LEMMA ShownOther ==
    ASSUME NEW r, NEW L, NEW N, NEW scope, Foreign(N, r, L)
    PROVE  Shown(scope, r, L \cup N) = Shown(scope, r, L)
<1>1. \A x \in L : x.run = r => (Voided(x, L \cup N) <=> Voided(x, L))
    BY DEF Voided, Foreign
<1>2. LabelRows(r, L \cup N) = LabelRows(r, L)
    BY <1>1 DEF LabelRows, Foreign
<1>3. SegmentRows(r, L \cup N) = SegmentRows(r, L)
    BY DEF SegmentRows, Foreign
<1> QED
    BY <1>2, <1>3 DEF Shown, Effective

LEMMA LedgerFrame ==
    ASSUME IInv, UNCHANGED <<ledger, voices>>,
           \A r \in Run : run'[r].generation = run[r].generation
    PROVE  /\ RowsFine' /\ SameStampSameRow(ledger)'
           /\ RuledAndUndoneOnce' /\ NoRemnants'
<1>0. ledger \subseteq Row
    BY DEF IInv, TypeOK
<1>1. RowsFine'
    BY DEF IInv, RowsFine, RowFine, RefersTo
<1>2. SameStampSameRow(ledger)'
    BY DEF IInv, SameStampSameRow
<1>3. RuledAndUndoneOnce'
    BY DEF IInv, RuledAndUndoneOnce
<1>4. \A x \in ledger : Detached(x)' <=> Detached(x)
    BY <1>0 DEF Detached, Row
<1>5. NoRemnants'
    BY <1>4 DEF IInv, NoRemnants, Voided
<1> QED
    BY <1>1, <1>2, <1>3, <1>5

LEMMA HolderStays ==
    ASSUME IInv, NEW m \in Holder, HolderFine(m), UNCHANGED <<ledger, voices>>,
           \A r \in Run : run'[r].generation = run[r].generation,
           \A s \in Speaker : speaker[s] = "unborn" <=> speaker'[s] = "unborn",
           TokenFine(m)', NamesFine(m)'
    PROVE  HolderFine(m)'
<1>0. ledger \subseteq Row /\ m.write \subseteq Row
    BY DEF IInv, TypeOK, Holder
<1>1. WritesFine(m)'
    BY DEF HolderFine, WritesFine, SameStampSameRow, RowFine, RefersTo
<1>2. RevokesFine(m)'
    BY DEF HolderFine, RevokesFine, Voided
<1>3. BirthsFine(m)'
    BY DEF HolderFine, BirthsFine, Holder, Voice
<1>5. Fresh(m)'
    BY <1>0 DEF HolderFine, Fresh, Row
<1>6. UndoFine(m)'
    <2>1. SUFFICES ASSUME m.op # "wipe", NEW x \in ledger, NEW y \in m.write,
                          y.undoes = x.stamp \/ y.voids = x.stamp, x.verdict # "revoke",
                          NEW without \in {ledger \ {x}}, NEW undone \in {ledger \cup m.write}
                   PROVE  Shown(x.scope, x.run, undone)' = Shown(x.scope, x.run, without)'
        BY DEF UndoFine
    <2>2. Shown(x.scope, x.run, undone) = Shown(x.scope, x.run, without)
        BY <2>1 DEF HolderFine, UndoFine
    <2>3. x.run \in Run /\ without \in SUBSET Row /\ undone \in SUBSET Row
        BY <1>0 DEF Row
    <2>4. Shown(x.scope, x.run, undone)' = Shown(x.scope, x.run, undone)
        BY <2>3, ShownFrame
    <2>5. Shown(x.scope, x.run, without)' = Shown(x.scope, x.run, without)
        BY <2>3, ShownFrame
    <2> QED
        BY <2>2, <2>4, <2>5
<1> QED
    BY <1>1, <1>2, <1>3, <1>5, <1>6 DEF HolderFine

LEMMA HolderFrame ==
    ASSUME IInv, NEW m \in Holder, HolderFine(m), UNCHANGED <<run, speaker, ledger, voices>>
    PROVE  HolderFine(m)'
<1>1. TokenFine(m)' /\ NamesFine(m)'
    BY DEF HolderFine, TokenFine, Open, NamesFine
<1> QED
    BY <1>1, HolderStays

-------------------------------------------------------------------------------
(* Steps that write one slot and nothing a holder relies on. *)

\* A slot becomes idle, takes a stamp, or reads a run.
LEMMA SlotStep ==
    ASSUME IInv, NEW q \in Slot, NEW s \in {Idle} \cup Begun \cup Reading,
           slot' = [slot EXCEPT ![q] = s],
           UNCHANGED <<run, speaker, ledger, voices>>,
           clock' \in 0 .. MaxStamp, minted' \in 0 .. MaxTokens, trouble' \in 0 .. MaxTrouble,
           trouble' <= trouble, clock <= clock',
           s.at = "begun" => /\ s.stamp = clock' /\ clock' = clock + 1
                             /\ \A n \in s.knew : n < s.stamp
    PROVE  IInv'
<1>0. s \in SlotRec /\ s.at # "holding" /\ s.at \in {"idle", "begun", "read"}
    BY DEF SlotRec, Idle, Begun, Reading
<1>1. /\ SlotsTyped'
      /\ slot'[q] = s
      /\ \A p \in Slot : p # q => slot'[p] = slot[p]
      /\ \A m \in Requests' : m = s \/ \E p \in Slot : p # q /\ m = slot[p]
    BY <1>0, SlotWrite DEF IInv
<1>2. TypeOK'
    <2>1. \A p \in Slot : slot'[p].at \in {"idle", "begun", "read", "holding"}
        BY <1>0, <1>1 DEF IInv, TypeOK
    <2>2. \A o, p \in Slot, r \in Run : Holding(o, r)' /\ Holding(p, r)' => o = p
        BY <1>0, <1>1 DEF IInv, TypeOK, Holding
    <2> QED
        BY <2>1, <2>2 DEF IInv, TypeOK
<1>3. GenerationsPaid'
    <2>1. \A r \in Run : run[r].generation \in Nat
        BY DEF IInv, TypeOK
    <2>2. MaxTrouble \in Nat /\ trouble \in Nat /\ trouble' \in Nat
        BY ReviewAssumption DEF IInv, TypeOK
    <2>3. \A r \in Run, p \in Slot : Holding(p, r)' /\ slot'[p].op = "wipe"
                                        => Holding(p, r) /\ slot[p].op = "wipe"
        BY <1>0, <1>1 DEF Holding
    <2> QED
        BY <2>1, <2>2, <2>3 DEF IInv, GenerationsPaid
<1>4. /\ RowsFine' /\ SameStampSameRow(ledger)'
      /\ RuledAndUndoneOnce' /\ NoRemnants'
    BY LedgerFrame
<1>5. StampsTaken'
    <2>1. clock \in Nat /\ clock' \in Nat /\ \A x \in ledger : x.stamp <= clock /\ x.stamp \in Nat
        BY ReviewAssumption DEF IInv, TypeOK, StampsTaken, Row, Stamp
    <2>2. SUFFICES ASSUME NEW p \in Slot, NEW n \in Stamp, Uses(slot'[p], n)
                   PROVE  /\ n <= clock'
                          /\ \A x \in ledger : x.stamp # n
                          /\ \A o \in Slot : Uses(slot'[o], n) => o = p
        BY <2>1 DEF StampsTaken, Uses
    <2>3. \A o \in Slot : o # q /\ Uses(slot'[o], n) => Uses(slot[o], n)
        BY <1>1
    <2>4. \A o \in Slot : Uses(slot[o], n) => n <= clock
        BY DEF IInv, StampsTaken
    <2>5. Uses(slot'[q], n) => n = clock' /\ clock' = clock + 1
        BY <1>0, <1>1 DEF Uses
    <2>6. CASE p = q
        BY <2>1, <2>2, <2>3, <2>4, <2>5, <2>6 DEF Stamp
    <2>7. CASE p # q
        <3>1. n <= clock /\ \A x \in ledger : x.stamp # n
            BY <2>2, <2>3, <2>7 DEF IInv, StampsTaken
        <3>2. \A o \in Slot : Uses(slot'[o], n) => o # q
            BY <2>1, <2>5, <3>1
        <3> QED
            BY <2>1, <2>2, <2>3, <2>7, <3>1, <3>2 DEF IInv, StampsTaken, Stamp
    <2> QED
        BY <2>6, <2>7
<1>6. KnewEarlier'
    BY <1>0, <1>1 DEF IInv, KnewEarlier
<1>7. HoldersFine'
    <2>1. SUFFICES ASSUME NEW m \in Requests', m.at = "holding"
                   PROVE  HolderFine(m)'
        BY DEF HoldersFine
    <2>2. m \in Requests /\ m \in SlotRec
        BY <1>0, <1>1, <2>1 DEF Requests, IInv, SlotsTyped, SlotRec
    <2>3. m \in Holder /\ HolderFine(m)
        BY <2>1, <2>2, SlotKinds DEF IInv, HoldersFine
    <2> QED
        BY <2>3, HolderFrame
<1>8. NamesDiffer'
    BY <1>0, <1>1 DEF IInv, NamesDiffer
<1>9. RosterKnows'
    BY DEF IInv, RosterKnows
<1> QED
    BY <1>1, <1>2, <1>3, <1>4, <1>5, <1>6, <1>7, <1>8, <1>9 DEF IInv

-------------------------------------------------------------------------------
(* A request takes the lock of its run. *)

\* What an Admit action has to show of the request it lets in.
LEMMA HoldStep ==
    ASSUME IInv, NEW q \in Slot, NEW m \in Holder,
           slot' = [slot EXCEPT ![q] = m], RunFree(m.run),
           UNCHANGED <<run, speaker, ledger, voices, clock, minted>>,
           trouble' \in 0 .. MaxTrouble, trouble' <= trouble,
           m.op = "wipe" => trouble' < trouble,
           HolderFine(m),
           \A x \in m.write : x.stamp # 0 =>
               slot[q].at = "begun" /\ x.stamp = slot[q].stamp,
           \A v \in m.born : NameFree(v.speaker)
    PROVE  IInv'
<1>0. m \in SlotRec /\ m.at = "holding" /\ m.run \in Run
    BY DEF SlotRec, Holder
<1>1. /\ SlotsTyped'
      /\ slot'[q] = m
      /\ \A p \in Slot : p # q => slot'[p] = slot[p]
      /\ \A n \in Requests' : n = m \/ \E p \in Slot : p # q /\ n = slot[p]
    BY <1>0, SlotWrite DEF IInv
<1>2. TypeOK'
    <2>1. \A p \in Slot : slot'[p].at \in {"idle", "begun", "read", "holding"}
        BY <1>0, <1>1 DEF IInv, TypeOK
    <2>2. \A o, p \in Slot, r \in Run : Holding(o, r)' /\ Holding(p, r)' => o = p
        BY <1>0, <1>1 DEF IInv, TypeOK, Holding, RunFree
    <2> QED
        BY <2>1, <2>2 DEF IInv, TypeOK
<1>3. GenerationsPaid'
    <2>1. \A r \in Run : run[r].generation \in Nat
        BY DEF IInv, TypeOK
    <2>2. MaxTrouble \in Nat /\ trouble \in Nat /\ trouble' \in Nat
        BY ReviewAssumption DEF IInv, TypeOK
    <2>3. \A r \in Run, p \in Slot : p # q /\ Holding(p, r)' /\ slot'[p].op = "wipe"
                                        => Holding(p, r) /\ slot[p].op = "wipe"
        BY <1>1 DEF Holding
    <2>4. \A r \in Run : run[r].generation + trouble' <= MaxTrouble
        BY <2>1, <2>2 DEF IInv, GenerationsPaid
    <2>5. ASSUME NEW r \in Run, NEW p \in Slot, Holding(p, r)', slot'[p].op = "wipe"
          PROVE  run[r].generation + trouble' < MaxTrouble
        <3>1. CASE p = q
            <4>1. trouble' < trouble /\ run[r].generation + trouble <= MaxTrouble
                BY <1>1, <2>5, <3>1 DEF IInv, GenerationsPaid
            <4> QED
                BY <2>1, <2>2, <4>1
        <3>2. CASE p # q
            <4>1. run[r].generation + trouble < MaxTrouble
                BY <2>3, <2>5, <3>2 DEF IInv, GenerationsPaid
            <4> QED
                BY <2>1, <2>2, <4>1
        <3> QED
            BY <3>1, <3>2
    <2> QED
        BY <2>4, <2>5 DEF GenerationsPaid
<1>4. /\ RowsFine' /\ SameStampSameRow(ledger)'
      /\ RuledAndUndoneOnce' /\ NoRemnants'
    BY LedgerFrame
<1>5. StampsTaken'
    <2>1. \A n \in Stamp : Uses(m, n) => Uses(slot[q], n)
        BY <1>0 DEF Uses, Stamp
    <2>2. \A p \in Slot, n \in Stamp : Uses(slot'[p], n) => Uses(slot[p], n)
        BY <1>1, <2>1
    <2> QED
        BY <2>2 DEF IInv, StampsTaken, Uses
<1>6. KnewEarlier'
    BY <1>0, <1>1 DEF IInv, KnewEarlier
<1>7. HoldersFine'
    <2>1. SUFFICES ASSUME NEW n \in Requests', n.at = "holding"
                   PROVE  HolderFine(n)'
        BY DEF HoldersFine
    <2>2. n \in Holder /\ HolderFine(n)
        <3>1. CASE n = m
            BY <3>1
        <3>2. CASE n # m
            <4>1. n \in Requests /\ n \in SlotRec
                BY <1>1, <2>1, <3>2 DEF Requests, IInv, SlotsTyped, SlotRec
            <4> QED
                BY <2>1, <4>1, SlotKinds DEF IInv, HoldersFine
        <3> QED
            BY <3>1, <3>2
    <2> QED
        BY <2>2, HolderFrame
<1>8. NamesDiffer'
    BY <1>0, <1>1 DEF IInv, NamesDiffer, NameFree
<1>9. RosterKnows'
    BY DEF IInv, RosterKnows
<1> QED
    BY <1>1, <1>2, <1>3, <1>4, <1>5, <1>6, <1>7, <1>8, <1>9 DEF IInv

-------------------------------------------------------------------------------
(* Claims, expiries and the roster page. *)

ClaimRec == [token : Token \cup {0}, by : Reviewer \cup {None}, live : BOOLEAN]
RunRec == [status : {"completed", "processing", "ended"}, revision : Nat,
           generation : 0 .. MaxTrouble, claim : ClaimRec]

\* Slots go idle, a run or the roster changes, and every holder can bear it.
LEMMA SideStep ==
    ASSUME IInv, SlotsTyped', \A p \in Slot : slot'[p] = slot[p] \/ slot'[p] = Idle,
           run' \in [Run -> RunRec], speaker' \in [Speaker -> {"unborn", "active", "archived"}],
           \A r \in Run : run'[r].generation = run[r].generation,
           \A s \in Speaker : speaker[s] = "unborn" <=> speaker'[s] = "unborn",
           UNCHANGED <<ledger, voices, clock, minted>>,
           trouble' \in 0 .. MaxTrouble, trouble' <= trouble,
           \A m \in Requests : m.at = "holding" => TokenFine(m)' /\ NamesFine(m)'
    PROVE  IInv'
<1>0. Idle.at = "idle"
    BY DEF Idle
<1>1. \A m \in Requests' : m = Idle \/ m \in Requests
    BY DEF Requests
<1>2. TypeOK'
    <2>1. \A p \in Slot : slot'[p].at \in {"idle", "begun", "read", "holding"}
        BY <1>0 DEF IInv, TypeOK
    <2>2. \A o, p \in Slot, r \in Run : Holding(o, r)' /\ Holding(p, r)' => o = p
        BY <1>0 DEF IInv, TypeOK, Holding
    <2> QED
        BY <2>1, <2>2 DEF IInv, TypeOK, RunRec, ClaimRec
<1>3. GenerationsPaid'
    <2>1. \A r \in Run : run[r].generation \in Nat
        BY DEF IInv, TypeOK
    <2>2. MaxTrouble \in Nat /\ trouble \in Nat /\ trouble' \in Nat
        BY ReviewAssumption DEF IInv, TypeOK
    <2>3. \A r \in Run, p \in Slot : Holding(p, r)' /\ slot'[p].op = "wipe"
                                        => Holding(p, r) /\ slot[p].op = "wipe"
        BY <1>0 DEF Holding
    <2> QED
        BY <2>1, <2>2, <2>3 DEF IInv, GenerationsPaid
<1>4. /\ RowsFine' /\ SameStampSameRow(ledger)'
      /\ RuledAndUndoneOnce' /\ NoRemnants'
    BY LedgerFrame
<1>5. StampsTaken'
    <2>1. \A p \in Slot, n \in Stamp : Uses(slot'[p], n) => Uses(slot[p], n)
        BY <1>0 DEF Uses
    <2> QED
        BY <2>1 DEF IInv, StampsTaken, Uses
<1>6. KnewEarlier'
    BY <1>0 DEF IInv, KnewEarlier
<1>7. HoldersFine'
    <2>1. SUFFICES ASSUME NEW m \in Requests', m.at = "holding"
                   PROVE  HolderFine(m)'
        BY DEF HoldersFine
    <2>2. m \in Requests /\ m \in SlotRec
        BY <1>0, <1>1, <2>1 DEF Requests, IInv, SlotsTyped, SlotRec
    <2>3. m \in Holder /\ HolderFine(m) /\ TokenFine(m)' /\ NamesFine(m)'
        BY <2>1, <2>2, SlotKinds DEF IInv, HoldersFine
    <2> QED
        BY <2>3, HolderStays
<1>8. NamesDiffer'
    BY <1>0 DEF IInv, NamesDiffer
<1>9. RosterKnows'
    <2>1. ledger \subseteq Row /\ voices \subseteq Voice
        BY DEF IInv, TypeOK
    <2> QED
        BY <2>1 DEF IInv, RosterKnows, Row, Voice
<1> QED
    BY <1>2, <1>3, <1>4, <1>5, <1>6, <1>7, <1>8, <1>9 DEF IInv

LEMMA BeginStep ==
    ASSUME IInv, NEW q \in Slot, Begin(q)
    PROVE  IInv'
<1> DEFINE s == [at |-> "begun", stamp |-> clock + 1, tokens |-> minted,
                 knew |-> {x.stamp : x \in ledger} \ {0}]
<1>1. clock + 1 \in Stamp /\ clock \in Nat /\ minted \in 0 .. MaxTokens
    BY ReviewAssumption DEF Begin, Stamp, IInv, TypeOK
<1>2. \A x \in ledger : x.stamp \in Stamp \cup {0} /\ x.stamp <= clock
    BY DEF IInv, TypeOK, Row, StampsTaken
<1>3. s.knew \subseteq Stamp /\ \A n \in s.knew : n < s.stamp
    BY <1>1, <1>2 DEF Stamp
<1>4. s \in Begun /\ s.at = "begun" /\ s.stamp = clock + 1
    BY <1>1, <1>3 DEF Begun
<1>5. slot' = [slot EXCEPT ![q] = s] /\ clock' = clock + 1
      /\ UNCHANGED <<run, speaker, ledger, voices, minted, trouble>>
    BY DEF Begin
<1>6. clock' \in 0 .. MaxStamp /\ trouble' \in 0 .. MaxTrouble /\ minted' \in 0 .. MaxTokens
      /\ trouble' <= trouble /\ clock <= clock'
    BY <1>1, <1>5 DEF Begin, Stamp, IInv, TypeOK
<1> HIDE DEF s
<1> QED
    BY <1>3, <1>4, <1>5, <1>6, SlotStep

LEMMA SpendFine ==
    ASSUME IInv, NEW op, Spend(op)
    PROVE  /\ trouble' \in 0 .. MaxTrouble /\ trouble' <= trouble
           /\ op = "wipe" => trouble' < trouble
<1>1. MaxTrouble \in Nat /\ trouble \in 0 .. MaxTrouble
    BY ReviewAssumption DEF IInv, TypeOK
<1> QED
    BY <1>1 DEF Spend

LEMMA AbortStep ==
    ASSUME IInv, NEW q \in Slot, Abort(q)
    PROVE  IInv'
<1>1. /\ slot' = [slot EXCEPT ![q] = Idle]
      /\ UNCHANGED <<run, speaker, ledger, voices, clock, minted>>
      /\ Spend("abort") /\ Idle.at # "begun"
    BY DEF Abort, Leave, Idle
<1>2. clock' \in 0 .. MaxStamp /\ minted' \in 0 .. MaxTokens /\ clock <= clock'
    BY <1>1, ReviewAssumption DEF IInv, TypeOK
<1> QED
    BY <1>1, <1>2, SpendFine, SlotStep

LEMMA ReadStep ==
    ASSUME IInv, NEW q \in Slot, ReadClaim(q) \/ ReadRefresh(q) \/ ReadRelease(q)
    PROVE  IInv'
<1>1. PICK op \in {"claim", "refresh", "release"}, r \in Run, token \in Token \cup {0},
           by \in Reviewer \cup {None} :
              Read(q, op, r, token, by) /\ minted' \in 0 .. MaxTokens
    <2>0. \A r \in Run : /\ run[r].claim.token \in Token \cup {0}
                         /\ run[r].claim.by \in Reviewer \cup {None}
        BY DEF IInv, TypeOK
    <2>1. MaxTokens \in Nat /\ minted \in 0 .. MaxTokens
        BY ReviewAssumption DEF IInv, TypeOK
    <2>2. CASE ReadClaim(q)
        BY <2>1, <2>2 DEF ReadClaim, Token
    <2>3. CASE ReadRefresh(q)
        BY <2>0, <2>1, <2>3 DEF ReadRefresh
    <2>4. CASE ReadRelease(q)
        BY <2>0, <2>1, <2>4 DEF ReadRelease
    <2> QED
        BY <2>2, <2>3, <2>4
<1> DEFINE s == [at |-> "read", op |-> op, run |-> r, token |-> token, by |-> by,
                 seen |-> run[r].revision]
<1>2. s \in Reading /\ s.at # "begun"
    BY DEF Reading, IInv, TypeOK
<1>3. slot' = [slot EXCEPT ![q] = s] /\ Spend(op)
      /\ UNCHANGED <<run, speaker, ledger, voices, clock>>
    BY <1>1 DEF Read
<1>4. clock' \in 0 .. MaxStamp /\ clock <= clock'
    BY <1>3, ReviewAssumption DEF IInv, TypeOK
<1> HIDE DEF s
<1> QED
    BY <1>1, <1>2, <1>3, <1>4, SpendFine, SlotStep

LEMMA WriteClaimStep ==
    ASSUME IInv, NEW q \in Slot, WriteClaim(q)
    PROVE  IInv'
<1> DEFINE r == slot[q].run
           held == [token |-> slot[q].token, by |-> slot[q].by, live |-> TRUE]
<1>1. slot[q] \in Reading
    <2>1. slot[q] \in SlotRec /\ slot[q].at = "read"
        BY DEF IInv, SlotsTyped, SlotRec, WriteClaim
    <2> QED
        BY <2>1, SlotKinds
<1>2. r \in Run /\ held \in ClaimRec /\ NoClaim \in ClaimRec
    BY <1>1 DEF Reading, ClaimRec, NoClaim
<1>3. PICK claim \in ClaimRec, revision \in Nat :
          run' = [run EXCEPT ![r].claim = claim, ![r].revision = revision]
    <2>1. run[r].revision \in Nat
        BY <1>2 DEF IInv, TypeOK
    <2> HIDE DEF held
    <2>2. PICK claim \in {held, NoClaim}, revision \in {run[r].revision, run[r].revision + 1} :
             run' = [run EXCEPT ![r].claim = claim, ![r].revision = revision]
        BY DEF WriteClaim, held
    <2>3. claim \in ClaimRec /\ revision \in Nat
        BY <1>2, <2>1
    <2> HIDE DEF r
    <2> QED
        BY <2>2, <2>3
<1>4. RunFree(r) /\ slot' = [slot EXCEPT ![q] = Idle]
      /\ UNCHANGED <<speaker, ledger, voices, clock, minted, trouble>>
    BY DEF WriteClaim, Leave
<1> HIDE DEF r, held
<1>5. run \in [Run -> RunRec]
    BY DEF IInv, TypeOK, RunRec, ClaimRec
<1>6. /\ run' \in [Run -> RunRec]
      /\ \A o \in Run : run'[o].generation = run[o].generation
      /\ \A o \in Run : o # r => run'[o] = run[o]
    BY <1>2, <1>3, <1>5 DEF RunRec
<1>7. SlotsTyped' /\ \A p \in Slot : slot'[p] = slot[p] \/ slot'[p] = Idle
    BY <1>4 DEF IInv, SlotsTyped
<1>8. ASSUME NEW m \in Requests, m.at = "holding"
      PROVE  TokenFine(m)' /\ NamesFine(m)'
    <2>1. m \in SlotRec /\ HolderFine(m) /\ m.run # r
        BY <1>4, <1>8 DEF IInv, HoldersFine, Requests, SlotsTyped, SlotRec, RunFree, Holding
    <2>2. m.run \in Run
        BY <1>8, <2>1, SlotKinds DEF Holder
    <2>3. TokenFine(m)'
        BY <1>6, <2>1, <2>2 DEF HolderFine, TokenFine, Open
    <2>4. NamesFine(m)'
        BY <1>4, <2>1 DEF HolderFine, NamesFine
    <2> QED
        BY <2>3, <2>4
<1>9. trouble' \in 0 .. MaxTrouble /\ trouble' <= trouble
      /\ speaker' \in [Speaker -> {"unborn", "active", "archived"}]
    BY <1>4, ReviewAssumption DEF IInv, TypeOK
<1> QED
    BY <1>4, <1>6, <1>7, <1>8, <1>9, SideStep

LEMMA ExpireStep ==
    ASSUME IInv, NEW r \in Run, Expire(r) \/ Finish(r)
    PROVE  IInv'
<1>1. PICK next \in RunRec :
          /\ run' = [run EXCEPT ![r] = next]
          /\ next.generation = run[r].generation
          /\ \/ run[r].status = "processing"
             \/ /\ next.status = run[r].status
                /\ next.claim.token = run[r].claim.token
                /\ ~next.claim.live
    <2>1. run[r] \in RunRec /\ run[r].claim \in ClaimRec /\ run[r].revision \in Nat
        BY DEF IInv, TypeOK, RunRec, ClaimRec
    <2>2. CASE Expire(r)
        <3> DEFINE claim == [run[r].claim EXCEPT !.live = FALSE]
                   next == [run[r] EXCEPT !.claim = claim]
        <3>1. claim \in ClaimRec /\ claim.token = run[r].claim.token /\ ~claim.live
            BY <2>1 DEF ClaimRec
        <3>2. run' = [run EXCEPT ![r] = next]
            BY <2>2 DEF Expire
        <3> HIDE DEF claim
        <3>3. next \in RunRec /\ next.claim = claim /\ next.status = run[r].status
              /\ next.generation = run[r].generation
            BY <2>1, <3>1 DEF RunRec
        <3> HIDE DEF next
        <3> QED
            BY <3>1, <3>2, <3>3
    <2>3. CASE Finish(r)
        <3>1. PICK status \in {"completed", "ended"} :
                  run' = [run EXCEPT ![r].status = status, ![r].revision = @ + 1]
            BY <2>3 DEF Finish
        <3> DEFINE later == run[r].revision + 1
                   next == [run[r] EXCEPT !.status = status, !.revision = later]
        <3>2. run' = [run EXCEPT ![r] = next]
            BY <3>1
        <3>4. later \in Nat
            BY <2>1
        <3> HIDE DEF later
        <3>3. next \in RunRec /\ next.generation = run[r].generation
            BY <2>1, <3>4 DEF RunRec
        <3> HIDE DEF next
        <3> QED
            BY <2>3, <3>2, <3>3 DEF Finish
    <2> QED
        BY <2>2, <2>3
<1>2. /\ UNCHANGED <<speaker, ledger, voices, slot, clock, minted>>
      /\ trouble' \in 0 .. MaxTrouble /\ trouble' <= trouble
    <2>1. trouble \in 0 .. MaxTrouble /\ MaxTrouble \in Nat
        BY ReviewAssumption DEF IInv, TypeOK
    <2> QED
        BY <2>1, SpendFine DEF Expire, Finish
<1>3. run \in [Run -> RunRec] /\ speaker' \in [Speaker -> {"unborn", "active", "archived"}]
    BY <1>2 DEF IInv, TypeOK, RunRec, ClaimRec
<1>4. /\ run' \in [Run -> RunRec]
      /\ \A o \in Run : run'[o].generation = run[o].generation
      /\ \A o \in Run : o # r => run'[o] = run[o]
      /\ run'[r] = next
    BY <1>1, <1>3
<1>5. SlotsTyped' /\ \A p \in Slot : slot'[p] = slot[p] \/ slot'[p] = Idle
    BY <1>2 DEF IInv, SlotsTyped
<1>6. ASSUME NEW m \in Requests, m.at = "holding"
      PROVE  TokenFine(m)' /\ NamesFine(m)'
    <2>1. m \in SlotRec /\ HolderFine(m)
        BY <1>6 DEF IInv, HoldersFine, Requests, SlotsTyped, SlotRec
    <2>2. m.run \in Run
        BY <1>6, <2>1, SlotKinds DEF Holder
    <2>3. TokenFine(m)'
        BY <1>1, <1>4, <2>1, <2>2 DEF HolderFine, TokenFine, Open
    <2>4. NamesFine(m)'
        BY <1>2, <2>1 DEF HolderFine, NamesFine
    <2> QED
        BY <2>3, <2>4
<1> QED
    BY <1>2, <1>3, <1>4, <1>5, <1>6, SideStep

LEMMA CurateStep ==
    ASSUME IInv, NEW s \in Speaker, ArchiveSpeaker(s) \/ RestoreSpeaker(s)
    PROVE  IInv'
<1>1. PICK to \in {"active", "archived"} :
          /\ speaker' = [speaker EXCEPT ![s] = to]
          /\ speaker[s] \in {"active", "archived"} /\ SpeakerFree(s)
    BY DEF ArchiveSpeaker, RestoreSpeaker, Curate
<1>2. /\ UNCHANGED <<run, ledger, voices, slot, clock, minted>>
      /\ trouble' \in 0 .. MaxTrouble /\ trouble' <= trouble
    BY SpendFine DEF ArchiveSpeaker, RestoreSpeaker, Curate
<1>3. run' \in [Run -> RunRec] /\ speaker \in [Speaker -> {"unborn", "active", "archived"}]
    BY <1>2 DEF IInv, TypeOK, RunRec, ClaimRec
<1>4. SlotsTyped' /\ \A p \in Slot : slot'[p] = slot[p] \/ slot'[p] = Idle
    BY <1>2 DEF IInv, SlotsTyped
<1>5. ASSUME NEW m \in Requests, m.at = "holding"
      PROVE  TokenFine(m)' /\ NamesFine(m)'
    <2>1. m \in SlotRec /\ HolderFine(m) /\ s \notin m.shared
        BY <1>1, <1>5 DEF IInv, HoldersFine, Requests, SlotsTyped, SlotRec, SpeakerFree, Sharing
    <2>2. m \in Holder
        BY <1>5, <2>1, SlotKinds
    <2>3. TokenFine(m)'
        BY <1>2, <2>1 DEF HolderFine, TokenFine, Open
    <2>4. NamesFine(m)'
        BY <1>1, <1>3, <2>1, <2>2 DEF HolderFine, NamesFine, Holder, Row
    <2> QED
        BY <2>3, <2>4
<1> QED
    BY <1>1, <1>2, <1>3, <1>4, <1>5, SideStep

-------------------------------------------------------------------------------
(* Rulings. *)

\* One new ruling of a run, or none, keeps the ledger's laws.
LEMMA RulingFine ==
    ASSUME IInv, NEW m \in Holder, NEW row \in Row, m.write \subseteq {row},
           m.op \notin {"wipe", "undo_rule", "undo_enroll", "undo_relabel"},
           row.run = m.run, row.stamp # 0, row.key = row.stamp,
           row.voids = 0, row.undoes = 0, row.verdict # "revoke",
           row.verdict = "assign" <=> row.speaker # None,
           row.verdict = "exclude" => row.scope = "label",
           row.generation = run[row.run].generation
    PROVE  WritesFine(m) /\ RevokesFine(m) /\ Fresh(m) /\ UndoFine(m)
<1>1. RowFine(row, ledger)
    BY DEF RowFine
<1>2. \A x \in m.write : x = row
    OBVIOUS
<1>3. WritesFine(m)
    BY <1>1, <1>2 DEF WritesFine, SameStampSameRow
<1>4. RevokesFine(m) /\ Fresh(m)
    BY <1>2 DEF RevokesFine, Fresh
<1>5. \A x \in ledger : x.verdict # "revoke" => x.stamp # 0
    BY DEF IInv, RowsFine, RowFine
<1>6. UndoFine(m)
    BY <1>2, <1>5 DEF UndoFine
<1> QED
    BY <1>3, <1>4, <1>6

\* A nonce that is not in the ledger is the request's own.
LEMMA NonceFine ==
    ASSUME IInv, NEW q \in Slot, slot[q].at = "begun", NEW r, NEW scope, NEW s,
           NEW verdict, verdict # "revoke", NEW key \in Nonces(q, r, scope, verdict, s)
    PROVE  /\ slot[q].stamp \in Stamp /\ slot[q].stamp # 0 /\ key \in Stamp \cup {0}
           /\ ~Recorded(key) => key = slot[q].stamp
<1>1. slot[q] \in Begun
    BY SlotKinds DEF IInv, SlotsTyped, SlotRec
<1>2. slot[q].stamp \in Stamp /\ slot[q].stamp # 0
    BY <1>1, ReviewAssumption DEF Begun, Stamp
<1>3. \A y \in ledger : y.key \in Stamp \cup {0}
    BY DEF IInv, TypeOK, Row
<1> QED
    BY <1>2, <1>3 DEF Nonces, Recorded

LEMMA AdmitRulingStep ==
    ASSUME IInv, NEW q \in Slot, AdmitRuling(q)
    PROVE  IInv'
<1>1. PICK op \in {"rule", "relabel", "name"}, r \in Run, token \in 0 .. MaxTokens :
          \E verdict \in Forms(op), s \in Speaker \cup {None} :
              \E key \in Nonces(q, r, Scope(op), verdict, s) : Rule(q, op, r, token, verdict, s, key)
    BY DEF AdmitRuling
<1>2. PICK verdict \in Forms(op), s \in Speaker \cup {None} :
          \E key \in Nonces(q, r, Scope(op), verdict, s) : Rule(q, op, r, token, verdict, s, key)
    BY <1>1
<1> DEFINE scope == Scope(op)
<1>3. PICK key \in Nonces(q, r, scope, verdict, s) : Rule(q, op, r, token, verdict, s, key)
    BY <1>2
<1>4. PICK write \in SUBSET {NewRow(slot[q].stamp, r, scope, verdict, s, key)} :
          /\ write # {} => ~Recorded(key)
          /\ Hold(q, op, r, [Nothing EXCEPT !.token = token, !.shared = {s} \ {None},
                                            !.write = write])
    BY <1>3 DEF Rule
<1>5. /\ Entitled(q, op, r, token)
      /\ verdict = "assign" <=> s # None
      /\ s # None => speaker[s] = "active"
    BY <1>3 DEF Rule
<1> DEFINE row == NewRow(slot[q].stamp, r, scope, verdict, s, slot[q].stamp)
           m == [at |-> "holding", op |-> op, run |-> r, of |-> 0, token |-> token,
                 shared |-> {s} \ {None}, write |-> write, born |-> {}, orphans |-> {}]
<1>6. slot[q].at = "begun" /\ verdict \in {"assign", "exclude", "inherit"}
      /\ scope \in {"label", "segment"} /\ (verdict = "exclude" => scope = "label")
    BY <1>1 DEF AdmitRuling, Forms, Scope
<1>7. slot[q].stamp \in Stamp /\ slot[q].stamp # 0 /\ (write # {} => key = slot[q].stamp)
    BY <1>3, <1>4, <1>6, NonceFine
<1>8. write \subseteq {row}
    BY <1>4, <1>7
<1>9. run[r].generation \in 0 .. MaxTrouble
    BY DEF IInv, TypeOK
<1>10. /\ row \in Row /\ row.stamp = slot[q].stamp /\ row.run = r /\ row.key = row.stamp
      /\ row.voids = 0 /\ row.undoes = 0 /\ row.verdict = verdict /\ row.speaker = s
      /\ row.scope = scope /\ row.generation = run[r].generation
    BY <1>6, <1>7, <1>9 DEF NewRow, Row
<1> HIDE DEF row
<1>11. m \in Holder /\ token \in Token \cup {0}
    BY <1>1, <1>4, <1>8, <1>10, ReviewAssumption DEF Holder, HoldOp, Token
<1>12. /\ m.at = "holding" /\ m.op = op /\ m.run = r /\ m.token = token
       /\ m.shared = {s} \ {None} /\ m.write = write /\ m.born = {} /\ m.orphans = {}
    OBVIOUS
<1>13. /\ slot' = [slot EXCEPT ![q] = m] /\ RunFree(r)
       /\ UNCHANGED <<run, speaker, ledger, voices, clock, minted>> /\ Spend(op)
    BY <1>4 DEF Hold, Nothing
<1> HIDE DEF m
<1>14. WritesFine(m) /\ RevokesFine(m) /\ Fresh(m) /\ UndoFine(m)
    BY <1>1, <1>5, <1>6, <1>7, <1>8, <1>10, <1>11, <1>12, RulingFine
<1>15. BirthsFine(m) /\ NamesFine(m)
    BY <1>1, <1>5, <1>8, <1>10, <1>12 DEF BirthsFine, NamesFine
<1>16. TokenFine(m)
    BY <1>5, <1>12 DEF TokenFine, Entitled, Verified
<1>17. \A x \in m.write : x.stamp # 0 => slot[q].at = "begun" /\ x.stamp = slot[q].stamp
    BY <1>6, <1>8, <1>10, <1>12
<1> QED
    BY <1>1, <1>11, <1>12, <1>13, <1>14, <1>15, <1>16, <1>17, SpendFine, HoldStep DEF HolderFine

LEMMA AdmitEnrollStep ==
    ASSUME IInv, NEW q \in Slot, AdmitEnroll(q)
    PROVE  IInv'
<1>1. PICK op \in {"enroll", "name"}, r \in Run, token \in 0 .. MaxTokens, s \in Speaker :
          \E key \in Nonces(q, r, "label", "assign", s) : Enroll(q, op, r, token, s, key)
    BY DEF AdmitEnroll
<1>2. PICK key \in Nonces(q, r, "label", "assign", s) : Enroll(q, op, r, token, s, key)
    BY <1>1
<1>3. slot[q].at = "begun" /\ Entitled(q, op, r, token)
    BY <1>2 DEF AdmitEnroll, Enroll
<1>4. /\ slot[q].stamp \in Stamp /\ slot[q].stamp # 0
      /\ ~Recorded(key) => key = slot[q].stamp
    BY <1>2, <1>3, NonceFine
<1> DEFINE row == NewRow(slot[q].stamp, r, "label", "assign", s, slot[q].stamp)
           voice == [speaker |-> s, run |-> r, ruling |-> slot[q].stamp]
<1>5. PICK write \in SUBSET {row}, born \in SUBSET {voice} :
          /\ Hold(q, op, r, [Nothing EXCEPT !.token = token, !.write = write, !.born = born])
          /\ \/ write = {} /\ born = {}
             \/ write = {row} /\ born = {voice} /\ speaker[s] = "unborn" /\ NameFree(s)
    <2>1. CASE Recorded(key)
        <3>1. Hold(q, op, r, [Nothing EXCEPT !.token = token, !.write = {}, !.born = {}])
            BY <1>2, <2>1 DEF Enroll, Nothing, Hold
        <3> QED
            BY <3>1
    <2>2. CASE ~Recorded(key)
        <3>1. /\ Hold(q, op, r, [Nothing EXCEPT !.token = token, !.write = {row}, !.born = {voice}])
              /\ speaker[s] = "unborn" /\ NameFree(s)
            BY <1>2, <1>4, <2>2 DEF Enroll
        <3> QED
            BY <3>1
    <2> QED
        BY <2>1, <2>2
<1> DEFINE m == [at |-> "holding", op |-> op, run |-> r, of |-> 0, token |-> token,
                 shared |-> {}, write |-> write, born |-> born, orphans |-> {}]
<1>6. run[r].generation \in 0 .. MaxTrouble
    BY DEF IInv, TypeOK
<1>7. /\ row \in Row /\ row.stamp = slot[q].stamp /\ row.run = r /\ row.key = row.stamp
      /\ row.voids = 0 /\ row.undoes = 0 /\ row.verdict = "assign" /\ row.speaker = s
      /\ row.scope = "label" /\ row.generation = run[r].generation
    BY <1>4, <1>6 DEF NewRow, Row
<1>8. voice \in Voice /\ voice.speaker = s /\ voice.run = r /\ voice.ruling = slot[q].stamp
    BY <1>4 DEF Voice
<1> HIDE DEF row, voice
<1>9. m \in Holder
    BY <1>1, <1>5, <1>7, <1>8, ReviewAssumption DEF Holder, HoldOp, Token
<1>10. /\ m.at = "holding" /\ m.op = op /\ m.run = r /\ m.token = token
       /\ m.write = write /\ m.born = born /\ m.orphans = {}
    OBVIOUS
<1>11. /\ slot' = [slot EXCEPT ![q] = m] /\ RunFree(r)
       /\ UNCHANGED <<run, speaker, ledger, voices, clock, minted>> /\ Spend(op)
    BY <1>5 DEF Hold, Nothing
<1> HIDE DEF m
<1>12. s # None
    BY ReviewAssumption
<1>13. WritesFine(m) /\ RevokesFine(m) /\ Fresh(m) /\ UndoFine(m)
    BY <1>1, <1>4, <1>5, <1>7, <1>9, <1>10, <1>12, RulingFine
<1>14. BirthsFine(m) /\ NamesFine(m)
    BY <1>1, <1>5, <1>7, <1>8, <1>10 DEF BirthsFine, NamesFine
<1>15. TokenFine(m)
    BY <1>3, <1>10 DEF TokenFine, Entitled, Verified
<1>16. \A x \in m.write : x.stamp # 0 => slot[q].at = "begun" /\ x.stamp = slot[q].stamp
    BY <1>3, <1>5, <1>7, <1>10
<1>17. \A v \in m.born : NameFree(v.speaker)
    BY <1>5, <1>8, <1>10
<1> QED
    BY <1>1, <1>9, <1>10, <1>11, <1>13, <1>14, <1>15, <1>16, <1>17, SpendFine, HoldStep
       DEF HolderFine

-------------------------------------------------------------------------------
(* Undo. *)

\* With its revoke in the ledger a label's ruling might as well be gone.
LEMMA RevokeRestores ==
    ASSUME NEW L, NEW x \in L, NEW rev, NEW r, SameStampSameRow(L),
           \A y \in L : y.verdict # "revoke" => y.stamp # 0,
           x.verdict # "revoke", rev.verdict = "revoke", rev.voids = x.stamp
    PROVE  Shown("label", r, L \cup {rev}) = Shown("label", r, L \ {x})
<1>1. \A y \in L : y.verdict # "revoke" =>
          (Voided(y, L \cup {rev}) <=> Voided(y, L) \/ y = x)
    BY DEF Voided, SameStampSameRow
<1>2. \A y \in L : Voided(y, L \ {x}) <=> Voided(y, L)
    BY DEF Voided
<1>3. LabelRows(r, L \cup {rev}) = LabelRows(r, L \ {x})
    BY <1>1, <1>2 DEF LabelRows
<1> QED
    BY <1>3 DEF Shown, Effective

LEMMA AdmitLabelUndoStep ==
    ASSUME IInv, NEW q \in Slot, AdmitLabelUndo(q)
    PROVE  IInv'
<1>1. PICK op \in {"undo_rule", "undo_enroll"}, x \in ledger, token \in Token :
        LET spoken == {v \in voices : v.ruling = x.stamp}
            revoke == Revoke(x, slot[q].stamp)
            orphans == {s \in {x.speaker} :
                           spoken # {} /\ Orphan(s, voices \ spoken, ledger \cup {revoke})}
        IN /\ Entitled(q, op, x.run, token)
           /\ x.stamp \in slot[q].knew /\ x.scope = "label"
           /\ IF op = "undo_rule" THEN spoken = {} ELSE x.verdict = "assign"
           /\ IF Voided(x, ledger)
              THEN Hold(q, op, x.run, [Nothing EXCEPT !.token = token])
              ELSE /\ x \in Effective("label", x.run, ledger)
                   /\ Hold(q, op, x.run,
                           [Nothing EXCEPT !.of = x.stamp, !.token = token,
                                           !.write = {revoke}, !.orphans = orphans])
    BY DEF AdmitLabelUndo
<1> DEFINE spoken == {v \in voices : v.ruling = x.stamp}
           revoke == Revoke(x, slot[q].stamp)
<1>2. slot[q].at = "begun" /\ slot[q] \in Begun
    BY SlotKinds DEF AdmitLabelUndo, IInv, SlotsTyped, SlotRec
<1>3. /\ x \in Row /\ x.run \in Run /\ x.stamp \in Stamp /\ x.stamp # 0
      /\ x.verdict # "revoke" /\ x.scope = "label"
      /\ slot[q].stamp \in Stamp /\ slot[q].stamp # 0
    BY <1>1, <1>2, ReviewAssumption DEF Begun, Stamp, IInv, TypeOK, Row, RowsFine, RowFine
<1>4. /\ Entitled(q, op, x.run, token)
      /\ op = "undo_rule" => spoken = {}
    BY <1>1, Zenon
<1>5. PICK of \in {0, x.stamp}, write \in SUBSET {revoke}, orphans \in SUBSET {x.speaker} :
          /\ Hold(q, op, x.run, [Nothing EXCEPT !.of = of, !.token = token, !.write = write,
                                                !.orphans = orphans])
          /\ write # {} => ~Voided(x, ledger) /\ of = x.stamp
          /\ orphans # {} => spoken # {}
    <2>1. CASE Voided(x, ledger)
        <3>1. Hold(q, op, x.run, [Nothing EXCEPT !.of = 0, !.token = token, !.write = {},
                                                 !.orphans = {}])
            BY <1>1, <2>1 DEF Nothing, Hold
        <3> QED
            BY <3>1
    <2>2. CASE ~Voided(x, ledger)
        <3> DEFINE gone == {s \in {x.speaker} :
                               spoken # {} /\ Orphan(s, voices \ spoken, ledger \cup {revoke})}
        <3>1. Hold(q, op, x.run, [Nothing EXCEPT !.of = x.stamp, !.token = token,
                                                 !.write = {revoke}, !.orphans = gone])
            BY <1>1, <2>2
        <3>2. gone \in SUBSET {x.speaker} /\ (gone # {} => spoken # {})
            OBVIOUS
        <3> HIDE DEF gone, revoke, spoken
        <3> QED
            BY <2>2, <3>1, <3>2
    <2> QED
        BY <2>1, <2>2
<1> DEFINE m == [at |-> "holding", op |-> op, run |-> x.run, of |-> of, token |-> token,
                 shared |-> {}, write |-> write, born |-> {}, orphans |-> orphans]
<1>6. /\ revoke \in Row /\ revoke.stamp = 0 /\ revoke.run = x.run /\ revoke.voids = x.stamp
      /\ revoke.undoes = 0 /\ revoke.verdict = "revoke" /\ revoke.speaker = None
      /\ revoke.scope = "label"
    BY <1>3, ReviewAssumption DEF Revoke, Row
<1>7. orphans \subseteq Speaker /\ \A s \in orphans : speaker[s] # "unborn"
    <2>1. SUFFICES ASSUME spoken # {}
                   PROVE  x.speaker \in Speaker /\ speaker[x.speaker] # "unborn"
        BY <1>5
    <2>2. PICK v \in voices : v.ruling = x.stamp
        BY <2>1
    <2>3. PICK y \in ledger : y.stamp = v.ruling /\ y.speaker = v.speaker
        BY <2>2 DEF IInv, NoRemnants
    <2>4. y = x
        BY <1>3, <2>2, <2>3 DEF IInv, SameStampSameRow
    <2> QED
        BY <2>2, <2>3, <2>4 DEF IInv, TypeOK, Voice, RosterKnows
<1>8. op = "undo_rule" => \A v \in voices : v.ruling # x.stamp
    BY <1>4
<1> HIDE DEF revoke, spoken
<1>9. m \in Holder
    BY <1>3, <1>5, <1>6, <1>7 DEF Holder, HoldOp
<1>10. /\ m.at = "holding" /\ m.op = op /\ m.run = x.run /\ m.token = token /\ m.of = of
       /\ m.write = write /\ m.born = {} /\ m.orphans = orphans
    OBVIOUS
<1>11. /\ slot' = [slot EXCEPT ![q] = m] /\ RunFree(x.run)
       /\ UNCHANGED <<run, speaker, ledger, voices, clock, minted>> /\ Spend(op)
    BY <1>5 DEF Hold, Nothing
<1> HIDE DEF m
<1>12. \A y \in m.write : y = revoke
    BY <1>5, <1>10
<1>13. RowFine(revoke, ledger)
    BY <1>3, <1>6 DEF RowFine, RefersTo
<1>14. write # {} => \A y \in ledger : y.voids # x.stamp
    BY <1>3, <1>5 DEF Voided, IInv, RowsFine, RowFine
<1>15. WritesFine(m)
    BY <1>6, <1>10, <1>12, <1>13, <1>14 DEF WritesFine, SameStampSameRow
<1>16. RevokesFine(m)
    BY <1>1, <1>5, <1>6, <1>8, <1>10, <1>12 DEF RevokesFine
<1>17. BirthsFine(m) /\ NamesFine(m) /\ Fresh(m)
    BY <1>6, <1>7, <1>10, <1>12 DEF BirthsFine, NamesFine, Fresh
<1>18. TokenFine(m)
    BY <1>1, <1>4, <1>10 DEF TokenFine, Entitled, Verified
<1>19. UndoFine(m)
    <2>1. SUFFICES ASSUME NEW y \in ledger, NEW z \in m.write, y.verdict # "revoke",
                          z.undoes = y.stamp \/ z.voids = y.stamp,
                          NEW without \in {ledger \ {y}}, NEW undone \in {ledger \cup m.write}
                   PROVE  Shown(y.scope, y.run, undone) = Shown(y.scope, y.run, without)
        BY DEF UndoFine
    <2>2. \A o \in ledger : o.verdict # "revoke" => o.stamp # 0
        BY DEF IInv, RowsFine, RowFine
    <2>3. y = x
        BY <1>3, <1>6, <1>12, <2>1, <2>2 DEF IInv, SameStampSameRow
    <2>4. undone = ledger \cup {revoke} /\ without = ledger \ {x}
        BY <1>5, <1>10, <2>1, <2>3
    <2>5. SameStampSameRow(ledger)
        BY DEF IInv
    <2> QED
        BY <1>3, <1>6, <2>2, <2>3, <2>4, <2>5, RevokeRestores
<1>20. \A y \in m.write : y.stamp = 0
    BY <1>6, <1>12
<1> QED
    BY <1>1, <1>3, <1>9, <1>10, <1>11, <1>15, <1>16, <1>17, <1>18, <1>19, <1>20, SpendFine, HoldStep
       DEF HolderFine

\* A row that says again what came before the newest one hides it.
LEMMA RelabelRestores ==
    ASSUME IInv, NEW x \in ledger, NEW row, x \in Newest(SegmentRows(x.run, ledger)),
           row.run = x.run, row.scope = "segment", ~Detached(row),
           row.stamp \in Nat, x.stamp < row.stamp,
           \/ /\ row.verdict = "inherit"
              /\ \A y \in Before(x) : y.verdict = "inherit"
           \/ /\ row.verdict = "assign"
              /\ \E y \in Before(x) : y.verdict = "assign" /\ y.speaker = row.speaker
    PROVE  Shown("segment", x.run, ledger \cup {row}) = Shown("segment", x.run, ledger \ {x})
<1> DEFINE S == SegmentRows(x.run, ledger)
<1>1. \A y \in S : y \in ledger /\ y.stamp \in Nat
    BY ReviewAssumption DEF SegmentRows, IInv, TypeOK, Row, Stamp
<1>2. \A y, z \in S : y.stamp = z.stamp => y = z
    BY DEF SegmentRows, IInv, SameStampSameRow, RowsFine, RowFine
<1>3. x \in S /\ \A y \in S : y.stamp <= x.stamp
    BY DEF Newest
<1>4. SegmentRows(x.run, ledger \cup {row}) = S \cup {row}
    BY DEF SegmentRows
<1>5. Newest(S \cup {row}) = {row}
    <2>1. \A y \in S : y.stamp < row.stamp
        BY <1>1, <1>3
    <2> HIDE DEF S
    <2> QED
        BY <1>1, <2>1 DEF Newest
<1>6. SegmentRows(x.run, ledger \ {x}) = {y \in S : y.stamp < x.stamp}
    <2>1. SegmentRows(x.run, ledger \ {x}) = S \ {x}
        BY DEF SegmentRows
    <2> HIDE DEF S
    <2>2. S \ {x} = {y \in S : y.stamp < x.stamp}
        BY <1>1, <1>2, <1>3
    <2> QED
        BY <2>1, <2>2
<1>7. Newest({y \in S : y.stamp < x.stamp}) = Before(x)
    BY DEF Before
<1>8. \A y, z \in Before(x) : y = z
    <2> HIDE DEF S
    <2>1. \A y \in Before(x) : y \in S /\ \A z \in Before(x) : z.stamp <= y.stamp
        BY <1>7 DEF Newest
    <2> QED
        BY <1>1, <1>2, <2>1
<1> HIDE DEF S
<1>9. Effective("segment", x.run, ledger \cup {row}) = {row}
    BY <1>4, <1>5 DEF Effective
<1>10. Effective("segment", x.run, ledger \ {x}) = Before(x)
    BY <1>6, <1>7 DEF Effective
<1>11. CASE row.verdict = "inherit"
    BY <1>9, <1>10, <1>11 DEF Shown
<1>12. CASE row.verdict = "assign"
    <2>1. PICK y \in Before(x) : y.verdict = "assign" /\ y.speaker = row.speaker
        BY <1>12
    <2>2. Before(x) = {y}
        BY <1>8, <2>1
    <2>3. Shown("segment", x.run, ledger \cup {row}) = {<<row.verdict, row.speaker>>}
        <3>1. {z \in {row} : z.verdict # "inherit"} = {row}
            BY <1>12
        <3> QED
            BY <1>9, <3>1 DEF Shown
    <2>4. Shown("segment", x.run, ledger \ {x}) = {<<y.verdict, y.speaker>>}
        <3>1. {z \in {y} : z.verdict # "inherit"} = {y}
            BY <2>1
        <3> QED
            BY <1>10, <2>2, <3>1 DEF Shown
    <2> QED
        BY <1>12, <2>1, <2>3, <2>4
<1> QED
    BY <1>11, <1>12

LEMMA AdmitSegmentUndoStep ==
    ASSUME IInv, NEW q \in Slot, AdmitSegmentUndo(q)
    PROVE  IInv'
<1>1. PICK x \in ledger, token \in Token :
        LET back == {y.speaker : y \in {z \in Before(x) : z.verdict = "assign"}}
            again(s) == [NewRow(slot[q].stamp, x.run, "segment",
                                IF s = None THEN "inherit" ELSE "assign", s, 0)
                         EXCEPT !.undoes = x.stamp]
        IN /\ Entitled(q, "undo_relabel", x.run, token)
           /\ x.stamp \in slot[q].knew /\ x.scope = "segment" /\ ~Detached(x)
           /\ IF \E y \in ledger : y.undoes = x.stamp
              THEN Hold(q, "undo_relabel", x.run, [Nothing EXCEPT !.token = token])
              ELSE /\ x \in Effective("segment", x.run, ledger)
                   /\ \A s \in back : speaker[s] = "active"
                   /\ Hold(q, "undo_relabel", x.run,
                           [Nothing EXCEPT !.of = x.stamp, !.token = token,
                                !.write = {again(s) : s \in IF back = {} THEN {None} ELSE back}])
    BY DEF AdmitSegmentUndo
<1> DEFINE back == {y.speaker : y \in {z \in Before(x) : z.verdict = "assign"}}
           again(s) == [NewRow(slot[q].stamp, x.run, "segment",
                               IF s = None THEN "inherit" ELSE "assign", s, 0)
                        EXCEPT !.undoes = x.stamp]
<1>2. slot[q].at = "begun" /\ slot[q] \in Begun
    BY SlotKinds DEF AdmitSegmentUndo, IInv, SlotsTyped, SlotRec
<1>3. /\ x \in Row /\ x.run \in Run /\ x.stamp \in Stamp /\ x.stamp # 0
      /\ x.scope = "segment" /\ ~Detached(x) /\ x.verdict # "revoke"
      /\ slot[q].stamp \in Stamp /\ slot[q].stamp # 0 /\ x.stamp < slot[q].stamp
    BY <1>1, <1>2, ReviewAssumption
       DEF Begun, Stamp, IInv, TypeOK, Row, RowsFine, RowFine, KnewEarlier
<1>4. Entitled(q, "undo_relabel", x.run, token)
    BY <1>1
<1>5. \A y \in Before(x) : y \in ledger /\ y.scope = "segment"
    BY DEF Before, Newest, SegmentRows
<1>6. \A y, z \in Before(x) : y = z
    <2>1. \A y, z \in Before(x) : y.stamp <= z.stamp
        BY DEF Before, Newest
    <2>2. \A y \in Before(x) : y.stamp \in Nat /\ y.stamp # 0
        BY <1>5, ReviewAssumption DEF IInv, TypeOK, Row, Stamp, RowsFine, RowFine
    <2> QED
        BY <1>5, <2>1, <2>2 DEF IInv, SameStampSameRow
<1>7. \A y \in Before(x) : /\ y.verdict \in {"assign", "inherit"}
                           /\ y.verdict = "assign" => y.speaker \in Speaker
                           /\ y.verdict = "assign" => y.speaker # None /\ speaker[y.speaker] # "unborn"
    BY <1>5 DEF IInv, TypeOK, Row, RowsFine, RowFine, RosterKnows
<1>8. PICK s \in Speaker \cup {None} :
          /\ back = {} => s = None
          /\ back # {} => s \in back
          /\ \A t \in (IF back = {} THEN {None} ELSE back) : t = s
    <2>1. \A t, u \in back : t = u
        BY <1>6
    <2>2. back \subseteq Speaker
        BY <1>7
    <2> HIDE DEF back
    <2>3. CASE back = {}
        BY <2>3
    <2>4. CASE back # {}
        BY <2>1, <2>2, <2>4
    <2> QED
        BY <2>3, <2>4
<1>9. /\ s = None => \A y \in Before(x) : y.verdict = "inherit"
      /\ s # None => /\ \E y \in Before(x) : y.verdict = "assign" /\ y.speaker = s
                     /\ speaker[s] # "unborn"
    <2>1. CASE back = {}
        <3>1. \A y \in Before(x) : y.verdict # "assign"
            BY <2>1
        <3>2. s = None
            BY <1>8, <2>1, Zenon
        <3> QED
            BY <1>7, <3>1, <3>2, Zenon
    <2>2. CASE back # {}
        <3>1. s \in back
            BY <1>8, <2>2, Zenon
        <3>2. PICK y \in Before(x) : y.verdict = "assign" /\ y.speaker = s
            BY <3>1
        <3> HIDE DEF back
        <3>3. s # None /\ speaker[s] # "unborn"
            BY <1>7, <3>2, Zenon
        <3> QED
            BY <3>2, <3>3, Zenon
    <2> QED
        BY <2>1, <2>2, Zenon
<1> DEFINE row == again(s)
<1>10. PICK of \in {0, x.stamp}, write \in SUBSET {row} :
          /\ Hold(q, "undo_relabel", x.run,
                  [Nothing EXCEPT !.of = of, !.token = token, !.write = write])
          /\ write # {} => /\ \A y \in ledger : y.undoes # x.stamp
                           /\ x \in Effective("segment", x.run, ledger)
    <2>1. CASE \E y \in ledger : y.undoes = x.stamp
        <3>1. Hold(q, "undo_relabel", x.run,
                   [Nothing EXCEPT !.of = 0, !.token = token, !.write = {}])
            BY <1>1, <2>1, Zenon DEF Nothing, Hold
        <3> QED
            BY <3>1
    <2>2. CASE ~ \E y \in ledger : y.undoes = x.stamp
        <3> DEFINE rows == {again(t) : t \in IF back = {} THEN {None} ELSE back}
        <3>1. Hold(q, "undo_relabel", x.run,
                   [Nothing EXCEPT !.of = x.stamp, !.token = token, !.write = rows])
            BY <1>1, <2>2
        <3>2. rows \in SUBSET {row}
            <4> HIDE DEF back
            <4> QED
                BY <1>8
        <3>3. x \in Effective("segment", x.run, ledger)
            BY <1>1, <2>2
        <3> HIDE DEF rows, row
        <3> QED
            BY <2>2, <3>1, <3>2, <3>3
    <2> QED
        BY <2>1, <2>2, Zenon
<1> DEFINE m == [at |-> "holding", op |-> "undo_relabel", run |-> x.run, of |-> of,
                 token |-> token, shared |-> {}, write |-> write, born |-> {}, orphans |-> {}]
<1>11. run[x.run].generation \in 0 .. MaxTrouble
    BY <1>3 DEF IInv, TypeOK
<1> HIDE DEF back
<1>12. /\ row.stamp = slot[q].stamp /\ row.run = x.run /\ row.voids = 0
       /\ row.undoes = x.stamp /\ row.speaker = s /\ row.scope = "segment"
       /\ row.verdict = (IF s = None THEN "inherit" ELSE "assign")
       /\ row.generation = run[x.run].generation /\ row.key = 0
       /\ row \in Row
    BY <1>3, <1>8, <1>11 DEF NewRow, Row
<1> HIDE DEF row
<1>13. m \in Holder
    BY <1>3, <1>10, <1>12 DEF Holder, HoldOp
<1>14. /\ m.at = "holding" /\ m.op = "undo_relabel" /\ m.run = x.run /\ m.token = token
       /\ m.write = write /\ m.born = {} /\ m.orphans = {}
    OBVIOUS
<1>15. /\ slot' = [slot EXCEPT ![q] = m] /\ RunFree(x.run)
       /\ UNCHANGED <<run, speaker, ledger, voices, clock, minted>> /\ Spend("undo_relabel")
    BY <1>10 DEF Hold, Nothing
<1> HIDE DEF m
<1>16. \A y \in m.write : y = row
    BY <1>10, <1>14
<1>17. RowFine(row, ledger)
    BY <1>3, <1>12 DEF RowFine, RefersTo
<1>18. WritesFine(m)
    BY <1>10, <1>12, <1>14, <1>16, <1>17 DEF WritesFine, SameStampSameRow
<1>19. RevokesFine(m) /\ BirthsFine(m) /\ Fresh(m)
    BY <1>12, <1>14, <1>16 DEF RevokesFine, BirthsFine, Fresh
<1>20. NamesFine(m)
    BY <1>9, <1>12, <1>14, <1>16 DEF NamesFine
<1>21. TokenFine(m)
    BY <1>4, <1>14 DEF TokenFine, Entitled, Verified
<1>22. UndoFine(m)
    <2>1. SUFFICES ASSUME NEW y \in ledger, NEW z \in m.write, y.verdict # "revoke",
                          z.undoes = y.stamp \/ z.voids = y.stamp,
                          NEW without \in {ledger \ {y}}, NEW undone \in {ledger \cup m.write}
                   PROVE  Shown(y.scope, y.run, undone) = Shown(y.scope, y.run, without)
        BY DEF UndoFine
    <2>2. \A o \in ledger : o.verdict # "revoke" => o.stamp # 0
        BY DEF IInv, RowsFine, RowFine
    <2>3. y = x
        BY <1>3, <1>12, <1>16, <2>1, <2>2 DEF IInv, SameStampSameRow
    <2>4. undone = ledger \cup {row} /\ without = ledger \ {x}
        BY <1>10, <1>14, <2>1, <2>3
    <2>5. x \in Newest(SegmentRows(x.run, ledger))
        BY <1>10, <1>14, <2>1 DEF Effective
    <2>6. row.stamp \in Nat /\ x.stamp < row.stamp /\ ~Detached(row)
        BY <1>3, <1>11, <1>12, ReviewAssumption DEF Stamp, Detached
    <2>7. Shown("segment", x.run, ledger \cup {row}) = Shown("segment", x.run, ledger \ {x})
        BY <1>9, <1>12, <2>5, <2>6, RelabelRestores
    <2> QED
        BY <1>3, <2>3, <2>4, <2>7
<1>23. \A y \in m.write : slot[q].at = "begun" /\ y.stamp = slot[q].stamp
    BY <1>2, <1>12, <1>16
<1> QED
    BY <1>3, <1>13, <1>14, <1>15, <1>18, <1>19, <1>20, <1>21, <1>22, <1>23, SpendFine, HoldStep
       DEF HolderFine

-------------------------------------------------------------------------------
(* Restarts. *)

LEMMA AdmitRestartStep ==
    ASSUME IInv, NEW q \in Slot, AdmitRestart(q)
    PROVE  IInv'
<1>1. PICK op \in {"wipe", "rerun"}, r \in Run :
        LET revokes == {Revoke(x, 0) : x \in ToVoid(r)}
            spoken == {v \in voices : v.run = r}
            orphans == {s \in {v.speaker : v \in spoken} :
                           Orphan(s, voices \ spoken, ledger \cup revokes)}
        IN /\ run[r].status \in {"completed", "ended"}
           /\ Hold(q, op, r, IF op = "rerun" THEN Nothing
                             ELSE [Nothing EXCEPT !.write = revokes, !.orphans = orphans])
    BY Zenon DEF AdmitRestart
<1> DEFINE revokes == {Revoke(x, 0) : x \in ToVoid(r)}
           spoken == {v \in voices : v.run = r}
<1>2. PICK write \in {{}, revokes}, orphans \in SUBSET {v.speaker : v \in spoken} :
          /\ Hold(q, op, r, [Nothing EXCEPT !.write = write, !.orphans = orphans])
          /\ op = "wipe" => write = revokes
          /\ op # "wipe" => write = {}
    <2>1. CASE op = "rerun"
        <3>1. Hold(q, op, r, [Nothing EXCEPT !.write = {}, !.orphans = {}])
            BY <1>1, <2>1 DEF Nothing, Hold
        <3>2. {} \in {{}, revokes} /\ {} \in SUBSET {v.speaker : v \in spoken}
            OBVIOUS
        <3> HIDE DEF revokes, spoken
        <3> QED
            BY <2>1, <3>1, <3>2
    <2>2. CASE op = "wipe"
        <3> DEFINE gone == {s \in {v.speaker : v \in spoken} :
                               Orphan(s, voices \ spoken, ledger \cup revokes)}
        <3>1. Hold(q, op, r, [Nothing EXCEPT !.write = revokes, !.orphans = gone])
            BY <1>1, <2>2
        <3>2. gone \in SUBSET {v.speaker : v \in spoken}
            OBVIOUS
        <3> HIDE DEF gone, revokes, spoken
        <3> QED
            BY <2>2, <3>1, <3>2
    <2> QED
        BY <1>1, <2>1, <2>2
<1> DEFINE m == [at |-> "holding", op |-> op, run |-> r, of |-> 0, token |-> 0,
                 shared |-> {}, write |-> write, born |-> {}, orphans |-> orphans]
<1>3. orphans \subseteq Speaker /\ \A s \in orphans : speaker[s] # "unborn"
    BY <1>2 DEF IInv, TypeOK, Voice, RosterKnows
<1>4. \A x \in ToVoid(r) : /\ x \in ledger /\ x.run = r /\ x.verdict # "revoke"
                           /\ ~Voided(x, ledger) /\ x.stamp \in Stamp /\ x.stamp # 0
    BY DEF ToVoid, IInv, TypeOK, Row, RowsFine, RowFine
<1>5. \A y \in revokes : \E x \in ToVoid(r) :
          /\ y \in Row /\ y.stamp = 0 /\ y.run = r /\ y.voids = x.stamp /\ y.undoes = 0
          /\ y.verdict = "revoke" /\ y.speaker = None /\ y.scope = "label" /\ y.key = 0
          /\ y = Revoke(x, 0)
    BY <1>4, ReviewAssumption DEF Revoke, Row
<1>6. \A x \in ToVoid(r) : \E y \in revokes : y.verdict = "revoke" /\ y.voids = x.stamp
    <2>1. \A x \in ToVoid(r) : Revoke(x, 0).verdict = "revoke" /\ Revoke(x, 0).voids = x.stamp
        BY DEF Revoke
    <2> QED
        BY <2>1
<1> HIDE DEF revokes, spoken
<1>7. m \in Holder
    BY <1>1, <1>2, <1>3, <1>5 DEF Holder, HoldOp
<1>8. /\ m.at = "holding" /\ m.op = op /\ m.run = r
      /\ m.write = write /\ m.born = {} /\ m.orphans = orphans
    OBVIOUS
<1>9. /\ slot' = [slot EXCEPT ![q] = m] /\ RunFree(r)
      /\ UNCHANGED <<run, speaker, ledger, voices, clock, minted>> /\ Spend(op)
    BY <1>2 DEF Hold, Nothing
<1> HIDE DEF m
<1>10. \A y \in m.write : \E x \in ToVoid(r) :
          /\ y \in Row /\ y.stamp = 0 /\ y.run = r /\ y.voids = x.stamp /\ y.undoes = 0
          /\ y.verdict = "revoke" /\ y.speaker = None /\ y.scope = "label" /\ y.key = 0
          /\ y = Revoke(x, 0)
    BY <1>2, <1>5, <1>8
<1>11. WritesFine(m)
    <2>1. \A y \in m.write : RowFine(y, ledger)
        BY <1>4, <1>10 DEF RowFine, RefersTo
    <2>2. \A y \in m.write, x \in ledger : x.voids # y.voids
        BY <1>4, <1>10 DEF Voided, IInv, RowsFine, RowFine
    <2>3. \A y, z \in m.write : y.voids = z.voids => y = z
        BY <1>4, <1>10 DEF IInv, SameStampSameRow
    <2> QED
        BY <1>8, <1>10, <2>1, <2>2, <2>3 DEF WritesFine, SameStampSameRow
<1>12. RevokesFine(m)
    BY <1>1, <1>2, <1>6, <1>8, <1>10 DEF RevokesFine, ToVoid
<1>13. BirthsFine(m) /\ Fresh(m)
    BY <1>8, <1>10 DEF BirthsFine, Fresh
<1>14. NamesFine(m)
    BY <1>3, <1>8, <1>10 DEF NamesFine
<1>15. TokenFine(m) /\ UndoFine(m)
    BY <1>1, <1>2, <1>8 DEF TokenFine, UndoFine
<1>16. \A y \in m.write : y.stamp = 0
    BY <1>10
<1> QED
    BY <1>1, <1>7, <1>8, <1>9, <1>11, <1>12, <1>13, <1>14, <1>15, <1>16, SpendFine, HoldStep
       DEF HolderFine

-------------------------------------------------------------------------------
(* A request commits. *)

\* The holder of a run's lock, as its slot has it.
LEMMA HolderOf ==
    ASSUME IInv, NEW q \in Slot, NEW m, m = slot[q], m.at = "holding"
    PROVE  /\ m \in Requests /\ m \in Holder /\ HolderFine(m)
           /\ m.run \in Run /\ m.op \in HoldOp
           /\ m.write \subseteq Row /\ m.born \subseteq Voice /\ m.orphans \subseteq Speaker
<1>1. m \in Requests /\ m \in SlotRec
    BY DEF Requests, IInv, SlotsTyped, SlotRec
<1> QED
    BY <1>1, SlotKinds DEF IInv, HoldersFine, Holder

\* What it writes keeps the ledger's laws.
LEMMA LedgerGrows ==
    ASSUME IInv, NEW q \in Slot, NEW m, m = slot[q], m.at = "holding",
           ledger' = ledger \cup m.write
    PROVE  /\ ledger' \subseteq Row /\ RowsFine' /\ SameStampSameRow(ledger)'
           /\ RuledAndUndoneOnce'
           /\ \A x \in m.write : x.stamp # 0 => \A y \in ledger : y.stamp # x.stamp
<1>1. m \in Holder /\ WritesFine(m) /\ m.write \subseteq Row
    BY HolderOf DEF HolderFine
<1>2. ledger' \subseteq Row
    BY <1>1 DEF IInv, TypeOK
<1>3. \A x \in m.write : x.stamp # 0 => \A y \in ledger : y.stamp # x.stamp
    <2>1. \A x \in m.write : x.stamp \in Stamp \cup {0}
        BY <1>1 DEF Row
    <2>2. \A x \in m.write : x.stamp # 0 => Uses(slot[q], x.stamp)
        BY DEF Uses
    <2> QED
        BY <2>1, <2>2 DEF IInv, StampsTaken
<1>4. \A x \in ledger' : RowFine(x, ledger) /\ RowFine(x, ledger')
    BY <1>1 DEF WritesFine, IInv, RowsFine, RowFine, RefersTo
<1>5. RowsFine'
    <2>1. PICK L : L = ledger'
        OBVIOUS
    <2>2. \A x \in L : RowFine(x, L)
        BY <1>4, <2>1
    <2> QED
        BY <2>1, <2>2 DEF RowsFine, RowFine, RefersTo
<1>6. \A x, y \in ledger' : x.stamp = y.stamp /\ x.stamp # 0 => x = y
    BY <1>1, <1>3 DEF IInv, WritesFine, SameStampSameRow
<1>7. \A x, y \in ledger' : /\ x.undoes # 0 /\ x.undoes = y.undoes => x = y
                            /\ x.voids # 0 /\ x.voids = y.voids => x = y
    <2>1. \A x, y \in ledger : /\ x.undoes # 0 /\ x.undoes = y.undoes => x = y
                               /\ x.voids # 0 /\ x.voids = y.voids => x = y
        BY DEF IInv, RuledAndUndoneOnce
    <2>2. \A x, y \in m.write : /\ x.undoes # 0 /\ x.undoes = y.undoes => x = y
                                /\ x.voids # 0 /\ x.voids = y.voids => x = y
        BY <1>1 DEF WritesFine
    <2>3. \A x \in m.write, y \in ledger : /\ x.undoes # 0 => x.undoes # y.undoes
                                           /\ x.voids # 0 => x.voids # y.voids
        BY <1>1 DEF WritesFine
    <2> QED
        BY <2>1, <2>2, <2>3
<1>8. \A x \in ledger' : x.voids = 0 /\ x.undoes = 0 => x.key = x.stamp /\ x.stamp # 0
    BY <1>4 DEF RowFine
<1>9. RuledAndUndoneOnce'
    BY <1>6, <1>7, <1>8 DEF RuledAndUndoneOnce
<1> QED
    BY <1>2, <1>3, <1>5, <1>6, <1>9 DEF SameStampSameRow

\* A row it writes voids rulings of its run only, and none it writes.
LEMMA VoidsOwn ==
    ASSUME IInv, NEW q \in Slot, NEW m, m = slot[q], m.at = "holding", NEW x \in ledger,
           x.run # m.run
    PROVE  \A y \in m.write : y.verdict = "revoke" => y.voids # x.stamp
<1>1. WritesFine(m)
    BY HolderOf DEF HolderFine
<1>2. SUFFICES ASSUME NEW y \in m.write, y.verdict = "revoke", y.voids = x.stamp
               PROVE  FALSE
    OBVIOUS
<1>3. y.run = m.run /\ y.voids # 0 /\ RefersTo(y.voids, y.run, ledger)
    BY <1>1, <1>2 DEF WritesFine, RowFine
<1> QED
    BY <1>2, <1>3 DEF RefersTo, IInv, SameStampSameRow

\* What the commit does to the runs.
LEMMA CommitRuns ==
    ASSUME IInv, NEW q \in Slot, NEW m, m = slot[q], Commit(q)
    PROVE  /\ run' \in [Run -> RunRec]
           /\ \A r \in Run : r # m.run => run'[r] = run[r]
           /\ m.op \notin {"wipe", "rerun"} => run' = run
           /\ m.op # "wipe" => run'[m.run].generation = run[m.run].generation
           /\ m.op = "wipe" => run'[m.run].generation = run[m.run].generation + 1
<1>0. m.at = "holding" /\ m.run \in Run /\ run \in [Run -> RunRec] /\ trouble \in 0 .. MaxTrouble
      /\ MaxTrouble \in Nat
    BY HolderOf, ReviewAssumption DEF Commit, IInv, TypeOK, RunRec, ClaimRec
<1>1. CASE m.op \notin {"wipe", "rerun"}
    BY <1>0, <1>1 DEF Commit
<1>2. CASE m.op \in {"wipe", "rerun"}
    <2> DEFINE revision == run[m.run].revision + 1
               generation == IF m.op = "wipe" THEN run[m.run].generation + 1
                             ELSE run[m.run].generation
               next == [status |-> "processing", revision |-> revision,
                        generation |-> generation, claim |-> NoClaim]
    <2>1. run' = [run EXCEPT ![m.run] = next]
        BY <1>2 DEF Commit, Requeued
    <2>2. run[m.run].revision \in Nat /\ run[m.run].generation \in 0 .. MaxTrouble
        BY <1>0 DEF RunRec
    <2>3. m.op = "wipe" => run[m.run].generation + trouble < MaxTrouble
        BY <1>0 DEF IInv, GenerationsPaid, Holding
    <2>4. revision \in Nat /\ generation \in 0 .. MaxTrouble
        BY <1>0, <2>2, <2>3
    <2> HIDE DEF revision, generation
    <2>5. next \in RunRec /\ next.generation = generation
        BY <2>4 DEF RunRec, ClaimRec, NoClaim
    <2> HIDE DEF next
    <2>6. run' \in [Run -> RunRec] /\ run'[m.run] = next
          /\ \A r \in Run : r # m.run => run'[r] = run[r]
        BY <1>0, <2>1, <2>5
    <2> QED
        BY <1>2, <2>5, <2>6 DEF generation
<1> QED
    BY <1>1, <1>2

LEMMA CommitLeavesNoRemnants ==
    ASSUME IInv, NEW q \in Slot, Commit(q)
    PROVE  NoRemnants'
<1>1. PICK m : m = slot[q]
    OBVIOUS
<1>2. /\ m.at = "holding"
      /\ ledger' = ledger \cup m.write
      /\ voices' = (voices \ Silenced(q)) \cup m.born
    BY <1>1 DEF Commit
<1>3. /\ m \in Holder /\ HolderFine(m) /\ m.run \in Run
      /\ m.write \subseteq Row /\ m.born \subseteq Voice
    BY <1>1, <1>2, HolderOf
<1>4. /\ SameStampSameRow(ledger)' /\ ledger' \subseteq Row /\ RowsFine'
      /\ \A x \in m.write : x.stamp # 0 => \A y \in ledger : y.stamp # x.stamp
    BY <1>1, <1>2, LedgerGrows
<1>5. run' \in [Run -> RunRec] /\ run \in [Run -> RunRec]
      /\ \A r \in Run : r # m.run => run'[r] = run[r]
    BY <1>1, CommitRuns DEF IInv, TypeOK, RunRec, ClaimRec
<1>6. \A x \in ledger : Voided(x, ledger) => Voided(x, ledger')
    BY <1>2 DEF Voided
<1>7. \A x \in ledger' : Detached(x)' => Voided(x, ledger')
    <2>1. ASSUME NEW x \in ledger, Detached(x)'
          PROVE  Voided(x, ledger')
        <3>1. x.run \in Run /\ x.scope = "segment" /\ x.verdict # "revoke"
            BY <2>1 DEF Detached, IInv, TypeOK, Row, RowsFine, RowFine
        <3>2. CASE m.op = "wipe" /\ x.run = m.run
            BY <1>2, <1>3, <1>6, <3>1, <3>2 DEF HolderFine, RevokesFine, Voided
        <3>3. CASE m.op # "wipe" \/ x.run # m.run
            <4>1. run'[x.run].generation = run[x.run].generation
                BY <1>1, <1>5, <3>1, <3>3, CommitRuns
            <4>2. Detached(x)
                BY <2>1, <4>1 DEF Detached
            <4> QED
                BY <1>6, <4>2 DEF IInv, NoRemnants
        <3> QED
            BY <3>2, <3>3
    <2>2. ASSUME NEW x \in m.write
          PROVE  ~Detached(x)'
        <3>1. SUFFICES ASSUME x.scope = "segment"
                       PROVE  ~(x.generation < run'[x.run].generation)
            BY DEF Detached
        <3>2. x.run = m.run /\ x.verdict # "revoke"
            BY <1>3, <3>1 DEF HolderFine, WritesFine, RowFine
        <3>3. m.op # "wipe" /\ x.generation = run[m.run].generation
            BY <1>3, <3>1, <3>2 DEF HolderFine, RevokesFine, Fresh
        <3>4. run'[m.run].generation = x.generation
            BY <1>1, <3>3, CommitRuns
        <3>5. x.generation \in Nat
            BY <1>3 DEF Row
        <3> QED
            BY <3>2, <3>4, <3>5
    <2> QED
        BY <1>2, <2>1, <2>2
<1>8. ASSUME NEW v \in voices'
      PROVE  \E x \in ledger' :
                 /\ x.stamp = v.ruling /\ x.speaker = v.speaker /\ x.run = v.run
                 /\ x.verdict = "assign" /\ x.scope = "label" /\ ~Voided(x, ledger')
    <2>1. CASE v \in m.born
        <3>1. PICK x \in m.write : /\ x.stamp = v.ruling /\ x.speaker = v.speaker /\ x.run = v.run
                                   /\ x.verdict = "assign" /\ x.scope = "label"
            BY <1>3, <2>1 DEF HolderFine, BirthsFine
        <3>2. x.stamp # 0
            BY <1>3, <3>1 DEF HolderFine, WritesFine, RowFine
        <3>3. \A y \in ledger' : y.verdict = "revoke" => y.voids # x.stamp
            <4>1. \A y \in ledger' : y.verdict = "revoke" => RefersTo(y.voids, y.run, ledger)
                BY <1>2, <1>3 DEF HolderFine, WritesFine, IInv, RowsFine, RowFine
            <4> QED
                BY <1>4, <3>2, <4>1 DEF RefersTo
        <3> QED
            BY <1>2, <3>1, <3>3 DEF Voided
    <2>2. CASE v \in voices \ Silenced(q)
        <3>1. PICK x \in ledger : /\ x.stamp = v.ruling /\ x.speaker = v.speaker /\ x.run = v.run
                                  /\ x.verdict = "assign" /\ x.scope = "label"
                                  /\ ~Voided(x, ledger)
            BY <2>2 DEF IInv, NoRemnants
        <3>2. \A y \in m.write : y.verdict = "revoke" => y.voids # x.stamp
            <4>1. CASE x.run # m.run
                BY <1>1, <1>2, <4>1, VoidsOwn
            <4>2. CASE x.run = m.run /\ m.op = "wipe"
                BY <1>1, <2>2, <3>1, <4>2 DEF Silenced
            <4>3. CASE x.run = m.run /\ m.op # "wipe"
                BY <1>1, <1>3, <2>2, <3>1, <4>3 DEF HolderFine, RevokesFine, Silenced
            <4> QED
                BY <4>1, <4>2, <4>3
        <3>3. ~Voided(x, ledger')
            BY <1>2, <3>1, <3>2 DEF Voided
        <3> QED
            BY <1>2, <3>1, <3>3
    <2> QED
        BY <1>2, <2>1, <2>2
<1> QED
    BY <1>7, <1>8 DEF NoRemnants, Voided

\* Holders of other runs' locks can bear a commit.
LEMMA CommitSparesHolders ==
    ASSUME IInv, NEW q \in Slot, Commit(q), NEW o \in Slot, o # q,
           NEW n, n = slot[o], n.at = "holding"
    PROVE  HolderFine(n)'
<1>1. PICK m : m = slot[q]
    OBVIOUS
<1>2. /\ m.at = "holding"
      /\ ledger' = ledger \cup m.write
      /\ voices' = (voices \ Silenced(q)) \cup m.born
      /\ \A s \in m.orphans : SpeakerFree(s)
      /\ speaker' = [s \in Speaker |-> IF s \in {v.speaker : v \in m.born} THEN "active"
                                       ELSE IF s \in m.orphans THEN "archived"
                                       ELSE speaker[s]]
    BY <1>1 DEF Commit
<1>3. /\ HolderFine(m) /\ m.run \in Run /\ m.write \subseteq Row /\ m.born \subseteq Voice
      /\ HolderFine(n) /\ n.run \in Run /\ n.write \subseteq Row /\ n.born \subseteq Voice
      /\ n.orphans \subseteq Speaker
    BY <1>1, <1>2, HolderOf
<1>4. n.run # m.run
    BY <1>1, <1>2, <1>3 DEF IInv, TypeOK, Holding
<1>5. run'[n.run] = run[n.run]
    BY <1>1, <1>3, <1>4, CommitRuns
<1>6. /\ RowsFine' /\ ledger' \subseteq Row /\ SameStampSameRow(ledger)'
      /\ \A x \in m.write : x.stamp # 0 => \A y \in ledger : y.stamp # x.stamp
    BY <1>1, <1>2, LedgerGrows
<1>7. /\ \A x \in m.write : x.run = m.run /\ RowFine(x, ledger)
      /\ \A x \in n.write : x.run = n.run /\ RowFine(x, ledger)
    BY <1>3 DEF HolderFine, WritesFine
<1>8. \A k : \A r, t \in Run : RefersTo(k, r, ledger) /\ RefersTo(k, t, ledger) /\ k # 0 => r = t
    BY DEF RefersTo, IInv, SameStampSameRow
<1>9. WritesFine(n)'
    <2>1. \A x \in n.write : RowFine(x, ledger')
        BY <1>2, <1>7 DEF RowFine, RefersTo
    <2>2. \A x \in n.write, y \in m.write : /\ x.voids # 0 => y.voids # x.voids
                                            /\ x.undoes # 0 => y.undoes # x.undoes
        BY <1>3, <1>4, <1>7, <1>8 DEF RowFine
    <2>3. WritesFine(n)
        BY <1>3 DEF HolderFine
    <2>4. \A x \in n.write : /\ x.voids # 0 => \A y \in ledger' : y.voids # x.voids
                             /\ x.undoes # 0 => \A y \in ledger' : y.undoes # x.undoes
        BY <1>2, <2>2, <2>3 DEF WritesFine
    <2>5. \A x \in n.write : RowFine(x, ledger)'
        BY <2>1 DEF RowFine, RefersTo
    <2> QED
        BY <1>7, <2>3, <2>4, <2>5 DEF WritesFine, SameStampSameRow
<1>10. RevokesFine(n)'
    <2>1. ASSUME n.op = "wipe", NEW x \in ledger', x.run = n.run, x.verdict # "revoke",
                 ~Voided(x, ledger')
          PROVE  \E y \in n.write : y.verdict = "revoke" /\ y.voids = x.stamp
        <3>1. x \in ledger /\ ~Voided(x, ledger)
            BY <1>2, <1>4, <1>7, <2>1 DEF Voided
        <3> QED
            BY <1>3, <2>1, <3>1 DEF HolderFine, RevokesFine
    <2>2. ASSUME n.op = "undo_rule", NEW x \in n.write, x.verdict = "revoke", NEW v \in voices'
          PROVE  v.ruling # x.voids
        <3>1. CASE v \in voices
            BY <1>3, <2>2, <3>1 DEF HolderFine, RevokesFine
        <3>2. CASE v \in m.born
            <4>1. PICK y \in m.write : y.stamp = v.ruling /\ y.verdict = "assign"
                BY <1>3, <3>2 DEF HolderFine, BirthsFine
            <4>2. \A z \in ledger : z.stamp # v.ruling
                BY <1>6, <1>7, <4>1 DEF RowFine
            <4>3. \E z \in ledger : z.stamp = x.voids
                BY <1>7, <2>2 DEF RowFine, RefersTo
            <4> QED
                BY <4>2, <4>3
        <3> QED
            BY <1>2, <3>1, <3>2
    <2> QED
        BY <1>3, <2>1, <2>2 DEF HolderFine, RevokesFine, Voided
<1>11. BirthsFine(n)'
    <2>1. ASSUME NEW v \in n.born
          PROVE  speaker'[v.speaker] = "unborn"
        <3>1. speaker[v.speaker] = "unborn" /\ v.speaker \in Speaker
            BY <1>3 DEF HolderFine, BirthsFine, Voice
        <3>2. v.speaker \notin m.orphans
            BY <1>3, <3>1 DEF HolderFine, NamesFine
        <3>3. v.speaker \notin {w.speaker : w \in m.born}
            BY <1>1, <1>2 DEF IInv, NamesDiffer
        <3> QED
            BY <1>2, <3>1, <3>2, <3>3
    <2> QED
        BY <1>3, <2>1 DEF HolderFine, BirthsFine
<1>12. NamesFine(n)'
    <2>1. \A s \in Speaker : speaker[s] # "unborn" => speaker'[s] # "unborn"
        BY <1>2
    <2>2. \A s \in n.shared : s \notin m.orphans
        BY <1>2 DEF SpeakerFree, Sharing
    <2>3. \A s \in Speaker : s \in n.shared /\ speaker[s] = "active" => speaker'[s] = "active"
        BY <1>2, <2>2
    <2>4. \A x \in n.write : x.speaker # None => x.speaker \in Speaker
        BY <1>3 DEF Row
    <2> QED
        BY <1>3, <2>1, <2>3, <2>4 DEF HolderFine, NamesFine
<1>13. TokenFine(n)'
    BY <1>3, <1>5 DEF HolderFine, TokenFine, Open
<1>14. Fresh(n)'
    BY <1>3, <1>5, <1>7 DEF HolderFine, Fresh
<1>15. UndoFine(n)'
    <2>1. SUFFICES ASSUME n.op # "wipe", NEW x \in ledger', NEW y \in n.write,
                          y.undoes = x.stamp \/ y.voids = x.stamp, x.verdict # "revoke",
                          NEW without \in {ledger' \ {x}}, NEW undone \in {ledger' \cup n.write}
                   PROVE  Shown(x.scope, x.run, undone)' = Shown(x.scope, x.run, without)'
        BY DEF UndoFine
    <2>2. x.stamp # 0
        BY <1>6, <2>1 DEF RowsFine, RowFine
    <2>3. RefersTo(x.stamp, n.run, ledger)
        BY <1>7, <2>1, <2>2 DEF RowFine
    <2>4. x \in ledger /\ x.run = n.run /\ x \notin m.write
        <3>1. PICK z \in ledger : z.stamp = x.stamp /\ z.run = n.run
            BY <2>3 DEF RefersTo
        <3>2. z \in ledger' /\ z = x
            BY <1>2, <1>6, <2>1, <2>2, <3>1 DEF SameStampSameRow
        <3> QED
            BY <1>4, <1>7, <3>1, <3>2
    <2>5. PICK before, after : before = ledger \ {x} /\ after = ledger \cup n.write
        OBVIOUS
    <2>6. Shown(x.scope, x.run, after) = Shown(x.scope, x.run, before)
        BY <1>3, <2>1, <2>4, <2>5 DEF HolderFine, UndoFine
    <2>7. undone = after \cup m.write /\ without = before \cup m.write
        BY <1>2, <2>1, <2>4, <2>5
    <2>8. \A z \in m.write, w \in after : z.verdict = "revoke" /\ w.run = x.run => z.voids # w.stamp
        <3>1. SUFFICES ASSUME NEW z \in m.write, NEW w \in after, z.verdict = "revoke",
                              w.run = x.run, z.voids = w.stamp
                       PROVE  FALSE
            OBVIOUS
        <3>2. z.voids # 0 /\ RefersTo(z.voids, m.run, ledger)
            BY <1>7, <3>1 DEF RowFine
        <3>3. CASE w \in ledger
            BY <1>4, <2>4, <3>1, <3>2, <3>3 DEF RefersTo, IInv, SameStampSameRow
        <3>4. CASE w \in n.write
            <4>1. \A a \in ledger : a.stamp # w.stamp
                <5>1. w.stamp \in Stamp
                    BY <1>3, <3>1, <3>2, <3>4 DEF Row
                <5>2. Uses(slot[o], w.stamp)
                    BY <3>4 DEF Uses
                <5> QED
                    BY <5>1, <5>2 DEF IInv, StampsTaken
            <4> QED
                BY <3>1, <3>2, <4>1 DEF RefersTo
        <3> QED
            BY <2>5, <3>1, <3>3, <3>4
    <2>9. \A z \in m.write : z.run # x.run
        BY <1>4, <1>7, <2>4
    <2>10. Shown(x.scope, x.run, undone) = Shown(x.scope, x.run, after)
        <3>1. Foreign(m.write, x.run, after)
            BY <2>8, <2>9 DEF Foreign
        <3> QED
            BY <2>7, <3>1, ShownOther
    <2>11. Shown(x.scope, x.run, without) = Shown(x.scope, x.run, before)
        <3>1. Foreign(m.write, x.run, before)
            BY <2>5, <2>8, <2>9 DEF Foreign
        <3> QED
            BY <2>7, <3>1, ShownOther
    <2>12. undone \in SUBSET Row /\ without \in SUBSET Row /\ x.run \in Run
        BY <1>3, <1>6, <2>1, <2>4
    <2>13. run'[x.run].generation = run[x.run].generation
        BY <1>5, <2>4
    <2>14. Shown(x.scope, x.run, undone)' = Shown(x.scope, x.run, undone)
        BY <2>12, <2>13, ShownFrame
    <2>15. Shown(x.scope, x.run, without)' = Shown(x.scope, x.run, without)
        BY <2>12, <2>13, ShownFrame
    <2> QED
        BY <2>6, <2>10, <2>11, <2>14, <2>15
<1> QED
    BY <1>9, <1>10, <1>11, <1>12, <1>13, <1>14, <1>15 DEF HolderFine

LEMMA CommitStep ==
    ASSUME IInv, NEW q \in Slot, Commit(q)
    PROVE  IInv'
<1>1. PICK m : m = slot[q]
    OBVIOUS
<1>2. /\ m.at = "holding"
      /\ ledger' = ledger \cup m.write
      /\ voices' = (voices \ Silenced(q)) \cup m.born
      /\ speaker' = [s \in Speaker |-> IF s \in {v.speaker : v \in m.born} THEN "active"
                                       ELSE IF s \in m.orphans THEN "archived"
                                       ELSE speaker[s]]
      /\ slot' = [slot EXCEPT ![q] = Idle] /\ UNCHANGED <<clock, minted, trouble>>
    BY <1>1 DEF Commit, Leave
<1>3. /\ m \in Holder /\ HolderFine(m) /\ m.run \in Run
      /\ m.write \subseteq Row /\ m.born \subseteq Voice /\ m.orphans \subseteq Speaker
    BY <1>1, <1>2, HolderOf
<1>4. /\ ledger' \subseteq Row /\ RowsFine' /\ SameStampSameRow(ledger)' /\ RuledAndUndoneOnce'
      /\ \A x \in m.write : x.stamp # 0 => \A y \in ledger : y.stamp # x.stamp
    BY <1>1, <1>2, LedgerGrows
<1>5. /\ run' \in [Run -> RunRec]
      /\ \A r \in Run : r # m.run => run'[r] = run[r]
      /\ m.op # "wipe" => run'[m.run].generation = run[m.run].generation
      /\ m.op = "wipe" => run'[m.run].generation = run[m.run].generation + 1
    BY <1>1, CommitRuns
<1>6. /\ SlotsTyped' /\ slot'[q] = Idle
      /\ \A p \in Slot : p # q => slot'[p] = slot[p]
      /\ \A n \in Requests' : n = Idle \/ \E p \in Slot : p # q /\ n = slot[p]
    BY <1>2, SlotWrite DEF IInv, SlotRec
<1>7. Idle.at = "idle"
    BY DEF Idle
<1>8. TypeOK'
    <2>1. \A p \in Slot : slot'[p].at \in {"idle", "begun", "read", "holding"}
        BY <1>6, <1>7 DEF IInv, TypeOK
    <2>2. \A o, p \in Slot, r \in Run : Holding(o, r)' /\ Holding(p, r)' => o = p
        BY <1>6, <1>7 DEF IInv, TypeOK, Holding
    <2>3. voices' \subseteq Voice
        BY <1>2, <1>3 DEF IInv, TypeOK
    <2>4. speaker' \in [Speaker -> {"unborn", "active", "archived"}]
        BY <1>2 DEF IInv, TypeOK
    <2> QED
        BY <1>2, <1>4, <1>5, <2>1, <2>2, <2>3, <2>4 DEF IInv, TypeOK, RunRec, ClaimRec
<1>9. GenerationsPaid'
    <2>1. /\ \A r \in Run : run[r].generation \in Nat /\ run'[r].generation \in Nat
          /\ trouble \in Nat /\ MaxTrouble \in Nat
        BY <1>5, ReviewAssumption DEF IInv, TypeOK, RunRec
    <2>2. ASSUME NEW r \in Run
          PROVE  run'[r].generation + trouble <= MaxTrouble
        <3>1. CASE r = m.run /\ m.op = "wipe"
            <4>1. run[r].generation + trouble < MaxTrouble
                BY <1>1, <1>2, <3>1 DEF IInv, GenerationsPaid, Holding
            <4> QED
                BY <1>5, <2>1, <3>1, <4>1
        <3>2. CASE r # m.run \/ m.op # "wipe"
            <4>1. run'[r].generation = run[r].generation
                BY <1>5, <3>2
            <4> QED
                BY <4>1 DEF IInv, GenerationsPaid
        <3> QED
            BY <3>1, <3>2
    <2>3. ASSUME NEW r \in Run, NEW p \in Slot, Holding(p, r)', slot'[p].op = "wipe"
          PROVE  run'[r].generation + trouble < MaxTrouble
        <3>1. p # q /\ Holding(p, r) /\ slot[p].op = "wipe"
            BY <1>6, <1>7, <2>3 DEF Holding
        <3>2. r # m.run
            BY <1>1, <1>2, <3>1 DEF IInv, TypeOK, Holding
        <3> QED
            BY <1>5, <3>1, <3>2 DEF IInv, GenerationsPaid
    <2> QED
        BY <1>2, <2>2, <2>3 DEF GenerationsPaid
<1>10. StampsTaken'
    <2>1. \A x \in m.write : x.stamp \in Stamp \cup {0} /\ x.stamp <= clock
        <3>1. \A x \in m.write : x.stamp \in Stamp \cup {0}
            BY <1>3 DEF Row
        <3>2. \A x \in m.write : x.stamp # 0 => Uses(slot[q], x.stamp)
            BY <1>1, <1>2 DEF Uses
        <3>3. clock \in Nat
            BY ReviewAssumption DEF IInv, TypeOK
        <3> QED
            BY <3>1, <3>2, <3>3 DEF IInv, StampsTaken
    <2>2. \A x \in ledger' : x.stamp <= clock
        BY <1>2, <2>1 DEF IInv, StampsTaken
    <2>3. ASSUME NEW p \in Slot, NEW n \in Stamp, Uses(slot'[p], n)
          PROVE  /\ n <= clock /\ \A x \in ledger' : x.stamp # n
                 /\ \A o \in Slot : Uses(slot'[o], n) => o = p
        <3>1. \A o \in Slot : Uses(slot'[o], n) => o # q /\ Uses(slot[o], n)
            BY <1>6, <1>7 DEF Uses
        <3>2. \A x \in m.write : x.stamp # n
            <4>1. \A x \in m.write : x.stamp = n => Uses(slot[q], n)
                BY <1>1, <1>2 DEF Uses
            <4>2. ~Uses(slot[q], n)
                BY <2>3, <3>1 DEF IInv, StampsTaken
            <4> QED
                BY <4>1, <4>2
        <3> QED
            BY <1>2, <2>3, <3>1, <3>2 DEF IInv, StampsTaken
    <2> QED
        BY <1>2, <2>2, <2>3 DEF StampsTaken, Uses
<1>11. KnewEarlier'
    BY <1>6, <1>7 DEF IInv, KnewEarlier
<1>12. HoldersFine'
    <2>1. SUFFICES ASSUME NEW n \in Requests', n.at = "holding"
                   PROVE  HolderFine(n)'
        BY DEF HoldersFine
    <2>2. PICK p \in Slot : p # q /\ n = slot[p]
        BY <1>6, <1>7, <2>1
    <2> QED
        BY <2>1, <2>2, CommitSparesHolders
<1>13. NamesDiffer'
    BY <1>6, <1>7 DEF IInv, NamesDiffer
<1>14. RosterKnows'
    <2>1. \A s \in Speaker : speaker[s] # "unborn" => speaker'[s] # "unborn"
        BY <1>2
    <2>2. \A v \in m.born : v.speaker \in Speaker /\ speaker'[v.speaker] = "active"
        BY <1>2, <1>3 DEF Voice
    <2>3. \A x \in m.write : x.speaker # None => speaker'[x.speaker] # "unborn"
        BY <1>3, <2>1, <2>2 DEF HolderFine, NamesFine, Row
    <2>4. \A x \in ledger : x.speaker # None => speaker'[x.speaker] # "unborn"
        BY <2>1 DEF IInv, TypeOK, Row, RosterKnows
    <2>5. \A v \in voices : speaker'[v.speaker] # "unborn"
        BY <2>1 DEF IInv, TypeOK, Voice, RosterKnows
    <2> QED
        BY <1>2, <2>2, <2>3, <2>4, <2>5 DEF RosterKnows
<1>15. NoRemnants'
    BY CommitLeavesNoRemnants
<1> QED
    BY <1>4, <1>6, <1>8, <1>9, <1>10, <1>11, <1>12, <1>13, <1>14, <1>15 DEF IInv

-------------------------------------------------------------------------------
(* The theorems. *)

LEMMA InitInvariant == Init => IInv
<1> SUFFICES ASSUME Init
             PROVE  IInv
    OBVIOUS
<1>0. MaxStamp \in Nat /\ MaxTokens \in Nat /\ MaxTrouble \in Nat
    BY ReviewAssumption
<1>1. \A m \in Requests : m = Idle
    BY DEF Init, Requests
<1>2. Idle.at = "idle"
    BY DEF Idle
<1>3. TypeOK
    <2>1. run \in [Run -> [status : {"completed", "processing", "ended"}, revision : Nat,
                           generation : 0 .. MaxTrouble,
                           claim : [token : Token \cup {0}, by : Reviewer \cup {None},
                                    live : BOOLEAN]]]
        BY <1>0 DEF Init, NoClaim
    <2> QED
        BY <1>0, <1>2, <2>1 DEF Init, TypeOK, Holding
<1>4. SlotsTyped
    BY DEF Init, SlotsTyped
<1>5. GenerationsPaid
    BY <1>0, <1>2 DEF Init, GenerationsPaid, Holding
<1>6. RowsFine /\ SameStampSameRow(ledger) /\ RuledAndUndoneOnce /\ NoRemnants /\ RosterKnows
    BY DEF Init, RowsFine, SameStampSameRow, RuledAndUndoneOnce, NoRemnants, RosterKnows
<1>7. StampsTaken /\ KnewEarlier /\ NamesDiffer
    BY <1>2 DEF Init, StampsTaken, KnewEarlier, NamesDiffer, Uses
<1>8. HoldersFine
    BY <1>1, <1>2 DEF HoldersFine
<1> QED
    BY <1>3, <1>4, <1>5, <1>6, <1>7, <1>8 DEF IInv

LEMMA NextInvariant ==
    ASSUME IInv, [Next]_vars
    PROVE  IInv'
<1>1. ASSUME NEW q \in Slot,
             \/ Begin(q) \/ AdmitRuling(q) \/ AdmitEnroll(q) \/ AdmitLabelUndo(q)
             \/ AdmitSegmentUndo(q) \/ AdmitRestart(q) \/ Commit(q) \/ Abort(q)
             \/ ReadClaim(q) \/ ReadRefresh(q) \/ ReadRelease(q) \/ WriteClaim(q)
      PROVE  IInv'
    BY <1>1, BeginStep, AdmitRulingStep, AdmitEnrollStep, AdmitLabelUndoStep,
       AdmitSegmentUndoStep, AdmitRestartStep, CommitStep, AbortStep, ReadStep, WriteClaimStep
<1>2. ASSUME NEW r \in Run, Expire(r) \/ Finish(r)
      PROVE  IInv'
    BY <1>2, ExpireStep
<1>3. ASSUME NEW s \in Speaker, ArchiveSpeaker(s) \/ RestoreSpeaker(s)
      PROVE  IInv'
    BY <1>3, CurateStep
<1>4. CASE UNCHANGED vars
    <2>1. UNCHANGED <<run, speaker, ledger, voices, slot, clock, minted, trouble>>
        BY <1>4 DEF vars
    <2>2. SlotsTyped' /\ run' \in [Run -> RunRec] /\ trouble' \in 0 .. MaxTrouble
          /\ speaker' \in [Speaker -> {"unborn", "active", "archived"}] /\ trouble' <= trouble
        BY <2>1, ReviewAssumption DEF IInv, TypeOK, SlotsTyped, RunRec, ClaimRec
    <2>3. \A m \in Requests : m.at = "holding" => TokenFine(m)' /\ NamesFine(m)'
        BY <2>1 DEF IInv, HoldersFine, HolderFine, TokenFine, NamesFine, Open
    <2> QED
        BY <2>1, <2>2, <2>3, SideStep
<1> QED
    BY <1>1, <1>2, <1>3, <1>4 DEF Next

(* In every reachable state what a holder of a run's lock is about to      *)
(* write is right, whatever happens beside it (adjudication_api.py:624,    *)
(* slots.py:116, undo.py:357).                                             *)
THEOREM ReviewInvariant == Spec => []IInv
<1>1. Init => IInv
    BY InitInvariant
<1>2. IInv /\ [Next]_vars => IInv'
    BY NextInvariant
<1> QED
    BY <1>1, <1>2, PTL DEF Spec

(* Every variable keeps its type, and a run's lock has one holder.         *)
THEOREM ReviewTypeCorrect == Spec => []TypeOK
<1>1. IInv => TypeOK
    BY DEF IInv
<1> QED
    BY <1>1, ReviewInvariant, PTL

(* A verified token is the run's until the request commits                 *)
(* (slots.py:116).                                                         *)
THEOREM TokensStayGood == Spec => []TokenStaysGood
<1>1. IInv => TokenStaysGood
    <2>1. SUFFICES ASSUME IInv, NEW q \in Slot, slot[q].at = "holding"
                   PROVE  TokenFine(slot[q])
        BY DEF TokenStaysGood, TokenFine
    <2> QED
        BY <2>1 DEF IInv, HoldersFine, HolderFine, Requests
<1> QED
    BY <1>1, ReviewInvariant, PTL

(* The speaker a ruling names is on the roster when it commits             *)
(* (adjudication_api.py:624).                                              *)
THEOREM NamedSpeakersActive == Spec => []NamedSpeakerActive
<1>1. IInv => NamedSpeakerActive
    <2>1. SUFFICES ASSUME IInv, NEW q \in Slot, slot[q].at = "holding",
                          slot[q].op # "undo_relabel", NEW x \in slot[q].write, x.speaker # None
                   PROVE  \/ speaker[x.speaker] = "active"
                          \/ \E v \in slot[q].born :
                                v.speaker = x.speaker /\ speaker[x.speaker] = "unborn"
        BY DEF NamedSpeakerActive
    <2>2. NamesFine(slot[q]) /\ BirthsFine(slot[q])
        BY <2>1 DEF IInv, HoldersFine, HolderFine, Requests
    <2> QED
        BY <2>1, <2>2 DEF NamesFine, BirthsFine
<1> QED
    BY <1>1, ReviewInvariant, PTL

(* A ruling is undone at most once and a repeated request rules once       *)
(* (undo.py:357).                                                          *)
THEOREM RuledOnce == Spec => []RuledAndUndoneOnce
<1>1. IInv => RuledAndUndoneOnce
    BY DEF IInv
<1> QED
    BY <1>1, ReviewInvariant, PTL

(* Restart and undo leave no effective ruling of a deleted segment and no  *)
(* voice without its ruling (ingest/service.py:1409, undo.py:264).         *)
THEOREM NothingIsLeftBehind == Spec => []NoRemnants
<1>1. IInv => NoRemnants
    BY DEF IInv
<1> QED
    BY <1>1, ReviewInvariant, PTL

LEMMA UndoStep ==
    ASSUME IInv, NEW q \in Slot, Commit(q),
           NEW x \in ledger, NEW y \in ledger' \ ledger,
           y.undoes = x.stamp \/ y.voids = x.stamp, x.verdict # "revoke",
           run[x.run].generation = run'[x.run].generation
    PROVE  Shown(x.scope, x.run, ledger') = Shown(x.scope, x.run, ledger \ {x})
<1>1. PICK m : m = slot[q]
    OBVIOUS
<1>2. m.at = "holding" /\ ledger' = ledger \cup m.write
    BY <1>1 DEF Commit
<1>3. HolderFine(m) /\ m.run \in Run
    BY <1>1, <1>2, HolderOf
<1>4. y \in m.write /\ x.stamp # 0 /\ x.run \in Run
    BY <1>2 DEF IInv, TypeOK, Row, RowsFine, RowFine
<1>5. m.op # "wipe"
    <2>1. SUFFICES ASSUME m.op = "wipe"
                   PROVE  FALSE
        OBVIOUS
    <2>2. y.verdict = "revoke" /\ y.voids = x.stamp
        BY <1>3, <1>4, <2>1 DEF HolderFine, RevokesFine, WritesFine, RowFine
    <2>3. x.run = m.run
        BY <1>1, <1>2, <1>4, <2>2, VoidsOwn
    <2>4. run'[x.run].generation = run[x.run].generation + 1
        BY <1>1, <2>1, <2>3, CommitRuns
    <2>5. run[x.run].generation \in Nat
        BY <1>4 DEF IInv, TypeOK
    <2> QED
        BY <2>4, <2>5
<1>6. PICK without, undone : without = ledger \ {x} /\ undone = ledger'
    OBVIOUS
<1>7. Shown(x.scope, x.run, undone) = Shown(x.scope, x.run, without)
    BY <1>2, <1>3, <1>4, <1>5, <1>6 DEF HolderFine, UndoFine
<1> QED
    BY <1>6, <1>7

LEMMA OnlyCommitRules ==
    ASSUME Next, ledger' # ledger
    PROVE  \E q \in Slot : Commit(q)
<1>1. ASSUME NEW q, NEW op, NEW r, NEW effects, Hold(q, op, r, effects)
      PROVE  ledger' = ledger
    BY <1>1 DEF Hold
<1>2. ASSUME NEW q, NEW op, NEW r, NEW token, NEW by, Read(q, op, r, token, by)
      PROVE  ledger' = ledger
    BY <1>2 DEF Read
<1>3. ASSUME NEW s, NEW from, NEW to, Curate(s, from, to)
      PROVE  ledger' = ledger
    BY <1>3 DEF Curate
<1>4. ASSUME NEW q, NEW op, NEW r, NEW token, NEW verdict, NEW s, NEW key,
             Rule(q, op, r, token, verdict, s, key)
      PROVE  ledger' = ledger
    BY <1>1, <1>4 DEF Rule
<1>5. ASSUME NEW q, NEW op, NEW r, NEW token, NEW s, NEW key, Enroll(q, op, r, token, s, key)
      PROVE  ledger' = ledger
    BY <1>1, <1>5 DEF Enroll
<1>6. ASSUME NEW q, AdmitRuling(q)
      PROVE  ledger' = ledger
    BY <1>4, <1>6 DEF AdmitRuling
<1>7. ASSUME NEW q, AdmitEnroll(q)
      PROVE  ledger' = ledger
    BY <1>5, <1>7 DEF AdmitEnroll
<1>8. ASSUME NEW q, AdmitLabelUndo(q)
      PROVE  ledger' = ledger
    BY <1>1, <1>8 DEF AdmitLabelUndo
<1>9. ASSUME NEW q, AdmitSegmentUndo(q)
      PROVE  ledger' = ledger
    BY <1>1, <1>9 DEF AdmitSegmentUndo
<1>10. ASSUME NEW q, AdmitRestart(q)
       PROVE  ledger' = ledger
    BY <1>1, <1>10 DEF AdmitRestart
<1>11. ASSUME NEW q, ReadClaim(q) \/ ReadRefresh(q) \/ ReadRelease(q)
       PROVE  ledger' = ledger
    BY <1>2, <1>11, Zenon DEF ReadClaim, ReadRefresh, ReadRelease
<1>12. ASSUME NEW q, Begin(q) \/ Abort(q) \/ WriteClaim(q)
       PROVE  ledger' = ledger
    BY <1>12 DEF Begin, Abort, WriteClaim
<1>13. ASSUME NEW r, Expire(r) \/ Finish(r)
       PROVE  ledger' = ledger
    BY <1>13 DEF Expire, Finish
<1>14. ASSUME NEW s, ArchiveSpeaker(s) \/ RestoreSpeaker(s)
       PROVE  ledger' = ledger
    BY <1>3, <1>14 DEF ArchiveSpeaker, RestoreSpeaker
<1> QED
    BY <1>6, <1>7, <1>8, <1>9, <1>10, <1>11, <1>12, <1>13, <1>14 DEF Next

(* What the undo of a ruling shows is what would be shown had the ruling   *)
(* never been made (undo.py:233 for a label, undo.py:340 for a segment).   *)
THEOREM UndosRestore == Spec => UndoRestores
<1>1. IInv /\ [Next]_vars =>
          [\A x \in ledger : \A y \in ledger' \ ledger :
              /\ y.undoes = x.stamp \/ y.voids = x.stamp
              /\ x.verdict # "revoke"
              /\ run[x.run].generation = run'[x.run].generation
              => Shown(x.scope, x.run, ledger') = Shown(x.scope, x.run, ledger \ {x})]_vars
    <2>1. SUFFICES ASSUME IInv, Next, NEW x \in ledger, NEW y \in ledger' \ ledger,
                          y.undoes = x.stamp \/ y.voids = x.stamp, x.verdict # "revoke",
                          run[x.run].generation = run'[x.run].generation
                   PROVE  Shown(x.scope, x.run, ledger') = Shown(x.scope, x.run, ledger \ {x})
        OBVIOUS
    <2>2. \E q \in Slot : Commit(q)
        BY <2>1, OnlyCommitRules
    <2> QED
        BY <2>1, <2>2, UndoStep
<1> QED
    BY <1>1, ReviewInvariant, PTL DEF Spec, UndoRestores
===============================================================================
