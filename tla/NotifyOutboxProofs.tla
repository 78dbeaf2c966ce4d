-------------------------- MODULE NotifyOutboxProofs ---------------------------
(***************************************************************************)
(* Theorems about NotifyOutbox for any number of sweeps, revisions and     *)
(* attempts: type correctness, the ownership of a row, and that the outbox *)
(* implements NewsBoard.                                                   *)
(***************************************************************************)
EXTENDS NotifyOutboxInv, FiniteSetTheorems, TLAPS

-----------------------------------------------------------------------------
(* Types. *)

\* A batch copies rows that exist, so what a sweep holds are claims of events.
LEMMA InitType == Init => TypeOK
<1> SUFFICES ASSUME Init PROVE TypeOK
  OBVIOUS
<1>1. NoRow \in Row
  BY DEF NoRow, Row, RowStatus
<1>2. Idle \in Sweeper
  BY DEF Idle, Sweeper
<1> QED
  BY <1>1, <1>2, OutboxAssumption DEF Init, TypeOK

LEMMA RecordedType ==
    ASSUME TypeOK, NEW r \in Revision, NEW event
    PROVE  Recorded(outbox, r, event) \in [Revision -> Row]
<1>1. CASE event \in NotifiableEvent
  <2>1. PendingRow(event) \in Row
    BY <1>1 DEF PendingRow, Row, RowStatus
  <2> QED
    BY <2>1 DEF TypeOK, Recorded
<1>2. CASE event \notin NotifiableEvent
  BY <1>2 DEF TypeOK, Recorded
<1> QED
  BY <1>1, <1>2

LEMMA BecomeType ==
    ASSUME TypeOK, NEW s \in Sweeps, NEW me \in Sweeper, Become(s, me)
    PROVE  sweeps' \in [Sweeps -> Sweeper] /\ sweeps'[s] = me
             /\ \A t \in Sweeps : t # s => sweeps'[t] = sweeps[t]
BY DEF TypeOK, Become

LEMMA SpentType ==
    ASSUME TypeOK, Strike PROVE trouble' \in Nat
BY DEF TypeOK, Strike

LEMMA IdleType == Idle \in Sweeper
BY DEF Idle, Sweeper

LEMMA PutDown ==
    ASSUME TypeOK, NEW s \in Sweeps
    PROVE  [sweeps[s] EXCEPT !.pc = "next", !.cur = NoClaim, !.verdict = "none"] \in Sweeper
<1>1. sweeps[s] \in Sweeper
  BY DEF TypeOK
<1> QED
  BY <1>1 DEF Sweeper

LEMMA LeasedType ==
    ASSUME NEW row \in Row PROVE Leased(row) \in Row
BY DEF Leased, Row, RowStatus

\* Claiming copies what it leases.
LEMMA ClaimDueType ==
    ASSUME TypeOK, RowsAreNews, NEW s \in Sweeps, ClaimDue(s)
    PROVE  TypeOK'
<1>1. PICK rows \in SUBSET Due :
          /\ outbox' = [r \in Revision |-> IF r \in rows THEN Leased(outbox[r]) ELSE outbox[r]]
          /\ Become(s, [Idle EXCEPT !.pc = "next", !.batch = {ClaimOf(r) : r \in rows}])
  BY DEF ClaimDue
<1>2. outbox' \in [Revision -> Row]
  BY <1>1, LeasedType DEF TypeOK
<1>3. \A r \in rows : ClaimOf(r) \in Claimed
  <2> SUFFICES ASSUME NEW r \in rows PROVE ClaimOf(r) \in Claimed
    OBVIOUS
  <2>1. r \in Revision /\ outbox[r].status # "none"
    BY DEF Due
  <2>2. outbox[r].event \in NotifiableEvent
    BY <2>1 DEF RowsAreNews
  <2>3. outbox[r] \in Row
    BY <2>1 DEF TypeOK
  <2> QED
    BY <2>1, <2>2, <2>3 DEF ClaimOf, Claimed, Row, Leased
<1>4. [Idle EXCEPT !.pc = "next", !.batch = {ClaimOf(r) : r \in rows}] \in Sweeper
  <2>1. {ClaimOf(r) : r \in rows} \in SUBSET Claimed
    BY <1>3
  <2> QED
    BY <2>1 DEF Idle, Sweeper
<1>5. sweeps' \in [Sweeps -> Sweeper]
  BY <1>1, <1>4, BecomeType
<1> QED
  BY <1>2, <1>5 DEF TypeOK, ClaimDue

LEMMA TakeRowType ==
    ASSUME TypeOK, NEW s \in Sweeps, TakeRow(s)
    PROVE  TypeOK'
<1>1. PICK c \in sweeps[s].batch :
          Become(s, [batch |-> sweeps[s].batch \ {c}, cur |-> c,
                     pc |-> IF c.event = "failed" /\ AdvancedPast(c) THEN "record" ELSE "post",
                     verdict |-> IF c.event = "failed" /\ AdvancedPast(c)
                                 THEN "suppressed" ELSE "none"])
  BY DEF TakeRow
<1>2. sweeps[s] \in Sweeper
  BY DEF TypeOK
<1>3. c \in Claimed
  BY <1>2 DEF Sweeper
<1>4. [batch |-> sweeps[s].batch \ {c}, cur |-> c,
       pc |-> IF c.event = "failed" /\ AdvancedPast(c) THEN "record" ELSE "post",
       verdict |-> IF c.event = "failed" /\ AdvancedPast(c)
                   THEN "suppressed" ELSE "none"] \in Sweeper
  BY <1>2, <1>3 DEF Sweeper, Settled
<1>5. sweeps' \in [Sweeps -> Sweeper]
  BY <1>1, <1>4, BecomeType
<1> QED
  BY <1>5 DEF TypeOK, TakeRow

\* The claim in hand names a revision.
LEMMA InHandType ==
    ASSUME TypeOK, CurTaken, NEW s \in Sweeps, NEW c \in Holds(s)
    PROVE  c \in Claimed
<1>1. sweeps[s] \in Sweeper /\ TakenFine(sweeps[s])
  BY DEF TypeOK, CurTaken
<1> QED
  BY <1>1 DEF Sweeper, Holds, InHand, TakenFine

LEMMA CurHeld ==
    ASSUME NEW s \in Sweeps, sweeps[s].pc \in {"post", "record"}
    PROVE  sweeps[s].cur \in Holds(s)
BY DEF Holds, InHand

LEMMA PostType ==
    ASSUME TypeOK, CurTaken, NEW s \in Sweeps, Post(s)
    PROVE  TypeOK'
<1>1. sweeps[s] \in Sweeper /\ sweeps[s].cur \in Claimed
  BY CurHeld, InHandType DEF Post, At, TypeOK
<1>2. sweeps[s].cur.rev \in Revision
  BY <1>1 DEF Claimed
<1>3. PICK answer \in {"ok", "refused", "lost"} :
          /\ told' = IF answer = "refused" THEN told ELSE told \cup {sweeps[s].cur.rev}
          /\ refused' = IF answer = "ok" THEN refused
                        ELSE [refused EXCEPT ![sweeps[s].cur.rev] = @ + 1]
          /\ Become(s, [sweeps[s] EXCEPT !.pc = "record",
                                         !.verdict = Verdict(sweeps[s].cur, answer)])
  BY DEF Post
<1>4. Verdict(sweeps[s].cur, answer) \in {"delivered", "dead", "pending"}
  BY DEF Verdict
<1>5. [sweeps[s] EXCEPT !.pc = "record", !.verdict = Verdict(sweeps[s].cur, answer)] \in Sweeper
  BY <1>1, <1>4 DEF Sweeper, Settled
<1>6. sweeps' \in [Sweeps -> Sweeper]
  BY <1>3, <1>5, BecomeType
<1>7. told' \in SUBSET Revision
  BY <1>2, <1>3 DEF TypeOK
<1>8. refused' \in [Revision -> Nat]
  BY <1>2, <1>3 DEF TypeOK
<1> QED
  BY <1>6, <1>7, <1>8 DEF TypeOK, Post

LEMMA FinishedType ==
    ASSUME NEW c \in Claimed, NEW verdict \in {"delivered", "suppressed", "dead", "pending"}
    PROVE  Finished(c, verdict) \in Row
BY DEF Finished, Row, RowStatus, Settled, Claimed

LEMMA RecordType ==
    ASSUME TypeOK, CurTaken, VerdictsFine, NEW s \in Sweeps, Record(s)
    PROVE  TypeOK'
<1>1. sweeps[s].cur \in Claimed
  BY CurHeld, InHandType DEF Record, At
<1>2. sweeps[s].verdict \in {"delivered", "suppressed", "dead", "pending"}
  BY DEF Record, At, VerdictsFine, VerdictFine
<1>3. Finished(sweeps[s].cur, sweeps[s].verdict) \in Row
  BY <1>1, <1>2, FinishedType
<1>4. outbox' \in [Revision -> Row]
  BY <1>1, <1>3 DEF Record, TypeOK, Claimed
<1>5. Become(s, [sweeps[s] EXCEPT !.pc = "next", !.cur = NoClaim, !.verdict = "none"])
  BY DEF Record
<1>6. sweeps' \in [Sweeps -> Sweeper]
  BY <1>5, PutDown, BecomeType
<1> QED
  BY <1>4, <1>6 DEF TypeOK, Record

LEMMA EndSweepType ==
    ASSUME TypeOK, NEW s \in Sweeps, EndSweep(s)
    PROVE  TypeOK'
<1>1. PICK rows \in SUBSET Expendable :
          outbox' = [r \in Revision |->
                        IF r \in rows THEN [outbox[r] EXCEPT !.status = "purged"] ELSE outbox[r]]
  BY DEF EndSweep
<1>2. outbox' \in [Revision -> Row]
  BY <1>1 DEF TypeOK, Row, RowStatus
<1>3. sweeps' \in [Sweeps -> Sweeper]
  BY IdleType, BecomeType DEF EndSweep
<1> QED
  BY <1>2, <1>3 DEF TypeOK, EndSweep

LEMMA RipenType ==
    ASSUME TypeOK, NEW r \in Revision, Ripen(r)
    PROVE  TypeOK'
<1>1. outbox' \in [Revision -> Row]
  BY DEF TypeOK, Ripen, Row
<1>2. trouble' \in Nat
  BY SpentType DEF TypeOK, Ripen
<1> QED
  BY <1>1, <1>2 DEF TypeOK, Ripen

LEMMA CrashType ==
    ASSUME TypeOK, NEW s \in Sweeps, Crash(s)
    PROVE  TypeOK'
<1>1. sweeps' \in [Sweeps -> Sweeper]
  BY IdleType, BecomeType DEF Crash
<1> QED
  BY <1>1, SpentType DEF TypeOK, Crash

LEMMA RowRaisesType ==
    ASSUME TypeOK, NEW s \in Sweeps, RowRaises(s)
    PROVE  TypeOK'
<1>1. sweeps' \in [Sweeps -> Sweeper]
  BY PutDown, BecomeType DEF RowRaises
<1> QED
  BY <1>1, SpentType DEF TypeOK, RowRaises

LEMMA MoveRunType ==
    ASSUME TypeOK, NEW event, MoveRun(event)
    PROVE  TypeOK'
<1>1. rev + 1 \in Revision /\ rev' \in 0..MaxRev
  BY OutboxAssumption DEF TypeOK, MoveRun, Revision
<1>2. outbox' \in [Revision -> Row]
  BY <1>1, RecordedType DEF MoveRun
<1> QED
  BY <1>1, <1>2 DEF TypeOK, MoveRun

LEMMA RecoverRunType ==
    ASSUME TypeOK, RecoverRun
    PROVE  TypeOK'
<1>1. rev + 1 \in Revision /\ rev' \in 0..MaxRev
  BY OutboxAssumption DEF TypeOK, RecoverRun, Revision
<1>2. outbox' \in [Revision -> Row]
  BY <1>1, RecordedType DEF RecoverRun
<1> QED
  BY <1>1, <1>2 DEF TypeOK, RecoverRun

-----------------------------------------------------------------------------
(* The invariant. *)

\* What every transaction but a claim leaves of a row.
Kept(old, new) ==
    old.status # "none" =>
        /\ new.status # "none"
        /\ new.event = old.event
        /\ new.lease = old.lease
        /\ new.status = "in_flight" => old.status = "in_flight" /\ new.attempts = old.attempts

\* A step that leases nothing: sweeps only put claims down, rows are kept.
LEMMA Onward ==
    ASSUME IInv, TypeOK', RowsArrived', RowsAreNews', AttemptsMade',
           rev <= rev', told \subseteq told',
           \A r \in Revision : refused[r] <= refused'[r],
           \A r \in Revision : Kept(outbox[r], outbox'[r]),
           \A s \in Sweeps :
               \/ sweeps'[s] = sweeps[s]
               \/ /\ InHand(sweeps'[s]) \subseteq InHand(sweeps[s])
                  /\ TakenFine(sweeps'[s])
                  /\ VerdictFine(sweeps[s])'
    PROVE  IInv'
<1>1. \A s \in Sweeps : Holds(s)' \subseteq Holds(s)
  BY DEF Holds
<1>2. \A s \in Sweeps : \A c \in Holds(s) : ClaimFine(c) /\ c \in Claimed
  BY InHandType DEF IInv, ClaimsFine
<1>3. \A s \in Sweeps : \A c \in Holds(s) : ClaimFine(c)' /\ (Owns(c)' => Owns(c))
  <2> SUFFICES ASSUME NEW s \in Sweeps, NEW c \in Holds(s)
               PROVE  ClaimFine(c)' /\ (Owns(c)' => Owns(c))
    OBVIOUS
  <2>1. ClaimFine(c) /\ c \in Claimed
    BY <1>2
  <2>2. Kept(outbox[c.rev], outbox'[c.rev])
    BY <2>1 DEF ClaimFine
  <2> QED
    BY <2>1, <2>2 DEF ClaimFine, Kept, Owns
<1>4. ClaimsFine'
  BY <1>1, <1>3 DEF ClaimsFine
<1>5. LeasesDiffer'
  BY <1>1 DEF IInv, LeasesDiffer
<1>6. CurTaken'
  BY DEF IInv, CurTaken
<1>7. VerdictsFine'
  <2> SUFFICES ASSUME NEW s \in Sweeps, sweeps'[s] = sweeps[s] PROVE VerdictFine(sweeps[s])'
    BY DEF VerdictsFine
  <2>1. VerdictFine(sweeps[s])
    BY DEF IInv, VerdictsFine
  <2> SUFFICES ASSUME sweeps[s].pc = "record" PROVE VerdictFine(sweeps[s])'
    BY DEF VerdictFine
  <2>2. sweeps[s].cur \in Holds(s)
    BY CurHeld
  <2>3. sweeps[s].cur.rev \in Revision /\ sweeps[s].cur \in Claimed
    BY <2>2, <1>2 DEF ClaimFine
  <2>4. Owns(sweeps[s].cur)' => Owns(sweeps[s].cur)
    BY <1>3, <2>2
  <2>5. /\ rev \in Nat /\ rev' \in Nat /\ sweeps[s].cur.rev \in Nat
        /\ refused[sweeps[s].cur.rev] \in Nat /\ refused'[sweeps[s].cur.rev] \in Nat
        /\ sweeps[s].cur.attempts \in Nat
    BY <2>3, OutboxAssumption DEF IInv, TypeOK, Revision, Claimed
  <2>6. refused[sweeps[s].cur.rev] <= refused'[sweeps[s].cur.rev]
    BY <2>3
  <2>7. sweeps[s].verdict = "suppressed" => rev' > sweeps[s].cur.rev
    BY <2>1, <2>5 DEF VerdictFine
  <2>8. sweeps[s].verdict \in {"dead", "pending"} /\ Owns(sweeps[s].cur)'
            => sweeps[s].cur.attempts + 1 <= refused'[sweeps[s].cur.rev]
    BY <2>1, <2>4, <2>5, <2>6 DEF VerdictFine
  <2>9. sweeps[s].verdict = "delivered" => sweeps[s].cur.rev \in told'
    BY <2>1 DEF VerdictFine
  <2> QED
    BY <2>1, <2>7, <2>8, <2>9 DEF VerdictFine, Owns
<1> QED
  BY <1>4, <1>5, <1>6, <1>7 DEF IInv

LEMMA SameRows ==
    ASSUME IInv, UNCHANGED outbox, rev <= rev', rev \in Nat, rev' \in Nat,
           \A r \in Revision : refused[r] <= refused'[r],
           refused' \in [Revision -> Nat]
    PROVE  /\ RowsArrived' /\ RowsAreNews' /\ AttemptsMade'
           /\ \A r \in Revision : Kept(outbox[r], outbox'[r])
<1>1. RowsArrived'
  BY DEF IInv, RowsArrived, Revision
<1>2. AttemptsMade'
  <2> SUFFICES ASSUME NEW r \in Revision, outbox[r].status \in {"pending", "in_flight"}
               PROVE  outbox[r].attempts <= refused'[r]
    BY DEF AttemptsMade
  <2>1. outbox[r].attempts <= refused[r]
    BY DEF IInv, AttemptsMade
  <2>2. outbox[r].attempts \in Nat /\ refused[r] \in Nat /\ refused'[r] \in Nat
    BY DEF IInv, TypeOK, Row
  <2> QED
    BY <2>1, <2>2
<1> QED
  BY <1>1, <1>2 DEF IInv, RowsAreNews, Kept

LEMMA Naturals ==
    ASSUME TypeOK
    PROVE  rev \in Nat /\ \A r \in Revision : refused[r] \in Nat /\ refused[r] <= refused[r]
BY OutboxAssumption DEF TypeOK

\* A step of one sweep that writes no row.
LEMMA HandStep ==
    ASSUME IInv, TypeOK', NEW s \in Sweeps, NEW me \in Sweeper, Become(s, me),
           UNCHANGED <<rev, outbox>>, told \subseteq told',
           \A r \in Revision : refused[r] <= refused'[r],
           InHand(me) \subseteq InHand(sweeps[s]), TakenFine(me),
           VerdictFine(sweeps[s])'
    PROVE  IInv'
<1>1. sweeps'[s] = me /\ \A t \in Sweeps : t # s => sweeps'[t] = sweeps[t]
  BY BecomeType DEF IInv
<1>2. /\ rev \in Nat /\ rev' \in Nat /\ rev <= rev'
      /\ refused' \in [Revision -> Nat]
  BY Naturals DEF IInv, TypeOK
<1>3. /\ RowsArrived' /\ RowsAreNews' /\ AttemptsMade'
      /\ \A r \in Revision : Kept(outbox[r], outbox'[r])
  BY <1>2, SameRows
<1> QED
  BY <1>1, <1>2, <1>3, Onward

LEMMA TakeRowInv ==
    ASSUME IInv, NEW s \in Sweeps, TakeRow(s)
    PROVE  IInv'
<1>1. TypeOK'
  BY TakeRowType DEF IInv
<1>2. PICK c \in sweeps[s].batch :
          Become(s, [batch |-> sweeps[s].batch \ {c}, cur |-> c,
                     pc |-> IF c.event = "failed" /\ AdvancedPast(c) THEN "record" ELSE "post",
                     verdict |-> IF c.event = "failed" /\ AdvancedPast(c)
                                 THEN "suppressed" ELSE "none"])
  BY DEF TakeRow
<1> DEFINE me == [batch |-> sweeps[s].batch \ {c}, cur |-> c,
                  pc |-> IF c.event = "failed" /\ AdvancedPast(c) THEN "record" ELSE "post",
                  verdict |-> IF c.event = "failed" /\ AdvancedPast(c)
                              THEN "suppressed" ELSE "none"]
<1>3. sweeps[s] \in Sweeper
  BY DEF IInv, TypeOK
<1>4. c \in Claimed /\ c # NoClaim
  BY <1>3 DEF Sweeper, Claimed, NoClaim, NotifiableEvent
<1>5. me \in Sweeper
  BY <1>3, <1>4 DEF Sweeper, Settled
<1>6. sweeps'[s] = me
  BY <1>2, <1>5, BecomeType DEF IInv
<1>7. InHand(me) \subseteq InHand(sweeps[s]) /\ TakenFine(me)
  BY <1>4 DEF InHand, TakenFine
<1>8. VerdictFine(sweeps[s])'
  BY <1>6 DEF VerdictFine, AdvancedPast, TakeRow
<1> HIDE DEF me
<1>9. Become(s, me)
  BY <1>2 DEF me
<1>10. UNCHANGED <<rev, outbox>> /\ told \subseteq told'
         /\ \A r \in Revision : refused[r] <= refused'[r]
  BY Naturals DEF TakeRow, IInv
<1> QED
  BY <1>1, <1>5, <1>7, <1>8, <1>9, <1>10, HandStep

LEMMA PostInv ==
    ASSUME IInv, NEW s \in Sweeps, Post(s)
    PROVE  IInv'
<1>1. TypeOK'
  BY PostType DEF IInv
<1>2. PICK answer \in {"ok", "refused", "lost"} :
          /\ told' = IF answer = "refused" THEN told ELSE told \cup {sweeps[s].cur.rev}
          /\ refused' = IF answer = "ok" THEN refused
                        ELSE [refused EXCEPT ![sweeps[s].cur.rev] = @ + 1]
          /\ Become(s, [sweeps[s] EXCEPT !.pc = "record",
                                         !.verdict = Verdict(sweeps[s].cur, answer)])
  BY DEF Post
<1> DEFINE c == sweeps[s].cur
           me == [sweeps[s] EXCEPT !.pc = "record", !.verdict = Verdict(c, answer)]
<1>3. /\ sweeps[s] \in Sweeper /\ sweeps[s].pc = "post" /\ c \in Holds(s)
      /\ TakenFine(sweeps[s])
  BY CurHeld DEF IInv, TypeOK, CurTaken, Post, At
<1>4. c \in Claimed /\ ClaimFine(c)
  BY <1>3, InHandType DEF IInv, ClaimsFine
<1>5. /\ c.rev \in Revision /\ refused[c.rev] \in Nat /\ c.attempts \in Nat
      /\ outbox[c.rev].attempts \in Nat
  BY <1>4 DEF Claimed, IInv, TypeOK, Row
<1>6. Verdict(c, answer) \in {"delivered", "dead", "pending"}
  BY DEF Verdict
<1>7. me \in Sweeper
  BY <1>3, <1>6 DEF Sweeper, Settled
<1>8. /\ me.pc = "record" /\ me.cur = c /\ me.verdict = Verdict(c, answer)
      /\ me.batch = sweeps[s].batch
  BY <1>3 DEF Sweeper
<1>9. sweeps'[s] = me
  BY <1>2, <1>7, BecomeType DEF IInv
<1>10. InHand(me) \subseteq InHand(sweeps[s]) /\ TakenFine(me)
  BY <1>3, <1>8 DEF InHand, TakenFine
<1>11. \A r \in Revision : refused[r] <= refused'[r]
  <2>1. \A r \in Revision : refused[r] \in Nat
    BY DEF IInv, TypeOK
  <2>2. refused \in [Revision -> Nat]
    BY DEF IInv, TypeOK
  <2> QED
    BY <2>1, <2>2, <1>2, <1>5
<1>12. Owns(c) => answer = "ok" \/ c.attempts + 1 <= refused'[c.rev]
  <2> SUFFICES ASSUME Owns(c), answer # "ok" PROVE c.attempts + 1 <= refused'[c.rev]
    OBVIOUS
  <2>1. c.attempts <= refused[c.rev]
    BY <1>4, <1>5 DEF ClaimFine, Owns, IInv, AttemptsMade
  <2>2. refused'[c.rev] = refused[c.rev] + 1
    BY <1>2, <1>5 DEF IInv, TypeOK
  <2> QED
    BY <2>1, <2>2, <1>5
<1>13. Owns(c)' => Owns(c)
  BY <1>8, <1>9 DEF Post, Owns
<1>14. VerdictFine(sweeps[s])'
  <2>1. sweeps'[s].cur = c /\ sweeps'[s].verdict = Verdict(c, answer)
    BY <1>8, <1>9
  <2>2. Verdict(c, answer) = "delivered" => c.rev \in told'
    BY <1>2 DEF Verdict
  <2>3. Verdict(c, answer) = "dead" => c.attempts + 1 >= MaxAttempts
    BY DEF Verdict
  <2>4. Verdict(c, answer) \in {"dead", "pending"} => answer # "ok"
    BY DEF Verdict
  <2>5. outbox' = outbox
    BY DEF Post
  <2> HIDE DEF c
  <2> QED
    BY <2>1, <2>2, <2>3, <2>4, <2>5, <1>6, <1>12 DEF VerdictFine, Owns
<1> HIDE DEF me, c
<1>15. Become(s, me)
  BY <1>2 DEF me, c
<1>16. UNCHANGED <<rev, outbox>> /\ told \subseteq told'
  BY <1>2 DEF Post
<1> QED
  BY <1>1, <1>7, <1>10, <1>11, <1>14, <1>15, <1>16, HandStep

\* A sweep that puts down what it has in hand, or all it claimed.
LEMMA PutsDown ==
    ASSUME IInv, TypeOK', NEW s \in Sweeps, NEW me \in Sweeper, Become(s, me),
           UNCHANGED <<rev, outbox, told, refused>>,
           me.pc \notin {"post", "record"}, me.batch \subseteq sweeps[s].batch
    PROVE  IInv'
<1>1. sweeps'[s] = me
  BY BecomeType DEF IInv
<1>2. InHand(me) \subseteq InHand(sweeps[s]) /\ TakenFine(me)
  BY DEF InHand, TakenFine
<1>3. VerdictFine(sweeps[s])'
  BY <1>1 DEF VerdictFine
<1>4. \A r \in Revision : refused[r] <= refused'[r]
  BY Naturals DEF IInv
<1> QED
  BY <1>2, <1>3, <1>4, HandStep

LEMMA CrashInv ==
    ASSUME IInv, NEW s \in Sweeps, Crash(s)
    PROVE  IInv'
<1>1. TypeOK'
  BY CrashType DEF IInv
<1>2. Idle.pc \notin {"post", "record"} /\ Idle.batch \subseteq sweeps[s].batch
  BY DEF Idle
<1>3. Become(s, Idle) /\ UNCHANGED <<rev, outbox, told, refused>>
  BY DEF Crash
<1> QED
  BY <1>1, <1>2, <1>3, IdleType, PutsDown

LEMMA RowRaisesInv ==
    ASSUME IInv, NEW s \in Sweeps, RowRaises(s)
    PROVE  IInv'
<1> DEFINE me == [sweeps[s] EXCEPT !.pc = "next", !.cur = NoClaim, !.verdict = "none"]
<1>1. TypeOK'
  BY RowRaisesType DEF IInv
<1>2. me \in Sweeper /\ sweeps[s] \in Sweeper
  BY PutDown DEF IInv, TypeOK
<1>3. me.pc \notin {"post", "record"} /\ me.batch \subseteq sweeps[s].batch
  BY <1>2 DEF Sweeper
<1>4. Become(s, me) /\ UNCHANGED <<rev, outbox, told, refused>>
  BY DEF RowRaises
<1> HIDE DEF me
<1> QED
  BY <1>1, <1>2, <1>3, <1>4, PutsDown

\* The run's transactions: a row appears at the next revision or not at all.
LEMMA RecordedRows ==
    ASSUME IInv, NEW event, NEW step \in Nat \ {0}, rev' = rev + step,
           rev + 1 \in Revision, outbox' = Recorded(outbox, rev + 1, event),
           UNCHANGED <<told, refused, sweeps>>, TypeOK'
    PROVE  IInv'
<1>1. rev \in Nat /\ rev' \in Nat /\ rev < rev + 1 /\ rev + 1 <= rev' /\ rev <= rev'
  BY OutboxAssumption DEF IInv, TypeOK
<1>2. outbox \in [Revision -> Row] /\ refused \in [Revision -> Nat]
  BY DEF IInv, TypeOK
<1>3. outbox[rev + 1].status = "none"
  BY <1>1 DEF IInv, RowsArrived
<1>4. \A r \in Revision :
         \/ outbox'[r] = outbox[r]
         \/ r = rev + 1 /\ outbox'[r] = PendingRow(event) /\ event \in NotifiableEvent
  BY <1>2 DEF Recorded
<1>5. RowsArrived'
  BY <1>1, <1>4 DEF RowsArrived, IInv, Revision
<1>6. RowsAreNews'
  BY <1>4 DEF RowsAreNews, IInv, PendingRow
<1>7. AttemptsMade'
  <2> SUFFICES ASSUME NEW r \in Revision, outbox'[r].status \in {"pending", "in_flight"}
               PROVE  outbox'[r].attempts <= refused'[r]
    BY DEF AttemptsMade
  <2>1. CASE outbox'[r] = outbox[r]
    BY <2>1 DEF IInv, AttemptsMade
  <2>2. CASE outbox'[r] = PendingRow(event)
    <3>1. outbox'[r].attempts = 0 /\ refused'[r] \in Nat
      BY <1>2, <2>2 DEF PendingRow
    <3> QED
      BY <3>1
  <2> QED
    BY <1>4, <2>1, <2>2
<1>8. \A r \in Revision : Kept(outbox[r], outbox'[r])
  BY <1>3, <1>4 DEF Kept
<1>9. \A r \in Revision : refused[r] <= refused'[r]
  BY Naturals DEF IInv
<1>10. \A s \in Sweeps : sweeps'[s] = sweeps[s]
  OBVIOUS
<1> QED
  BY <1>1, <1>5, <1>6, <1>7, <1>8, <1>9, <1>10, Onward

LEMMA MoveRunInv ==
    ASSUME IInv, NEW event, MoveRun(event)
    PROVE  IInv'
<1>1. TypeOK'
  BY MoveRunType DEF IInv
<1>2. rev + 1 \in Revision
  BY OutboxAssumption DEF IInv, TypeOK, MoveRun, Revision
<1> QED
  BY <1>1, <1>2, RecordedRows DEF MoveRun

LEMMA RecoverRunInv ==
    ASSUME IInv, RecoverRun
    PROVE  IInv'
<1>1. TypeOK'
  BY RecoverRunType DEF IInv
<1>2. rev + 1 \in Revision
  BY OutboxAssumption DEF IInv, TypeOK, RecoverRun, Revision
<1> QED
  BY <1>1, <1>2, RecordedRows DEF RecoverRun

LEMMA RipenInv ==
    ASSUME IInv, NEW r \in Revision, Ripen(r)
    PROVE  IInv'
<1>1. TypeOK'
  BY RipenType DEF IInv
<1>2. outbox \in [Revision -> Row]
  BY DEF IInv, TypeOK
<1>3. \A x \in Revision : /\ outbox'[x].status = outbox[x].status
                          /\ outbox'[x].event = outbox[x].event
                          /\ outbox'[x].attempts = outbox[x].attempts
                          /\ outbox'[x].lease = outbox[x].lease
  BY <1>2 DEF Ripen, Row
<1>4. RowsArrived' /\ RowsAreNews' /\ AttemptsMade'
  BY <1>3 DEF IInv, RowsArrived, RowsAreNews, AttemptsMade, Ripen
<1>5. \A x \in Revision : Kept(outbox[x], outbox'[x])
  BY <1>3 DEF Kept
<1>6. /\ rev <= rev' /\ told \subseteq told'
      /\ \A x \in Revision : refused[x] <= refused'[x]
      /\ \A s \in Sweeps : sweeps'[s] = sweeps[s]
  BY Naturals DEF IInv, Ripen
<1> QED
  BY <1>1, <1>4, <1>5, <1>6, Onward

\* The outcome is written to the row the claim still owns.
LEMMA RecordInv ==
    ASSUME IInv, NEW s \in Sweeps, Record(s)
    PROVE  IInv'
<1> DEFINE c == sweeps[s].cur
           me == [sweeps[s] EXCEPT !.pc = "next", !.cur = NoClaim, !.verdict = "none"]
<1>1. TypeOK'
  BY RecordType DEF IInv
<1>2. /\ sweeps[s] \in Sweeper /\ sweeps[s].pc = "record" /\ c \in Holds(s)
      /\ VerdictFine(sweeps[s])
  BY CurHeld DEF IInv, TypeOK, VerdictsFine, Record, At
<1>3. c \in Claimed /\ ClaimFine(c)
  BY <1>2, InHandType DEF IInv, ClaimsFine
<1>4. /\ c.rev \in Revision /\ refused[c.rev] \in Nat /\ c.attempts \in Nat
      /\ outbox \in [Revision -> Row]
  BY <1>3 DEF Claimed, IInv, TypeOK
<1>5. \A r \in Revision :
         \/ outbox'[r] = outbox[r]
         \/ r = c.rev /\ Owns(c) /\ outbox'[r] = Finished(c, sweeps[s].verdict)
  BY <1>4 DEF Record
<1>6. Owns(c) => /\ outbox[c.rev].status = "in_flight" /\ outbox[c.rev].lease = c.lease
                 /\ outbox[c.rev].event = c.event
  BY <1>3 DEF Owns, ClaimFine
<1>7. sweeps[s].verdict \in {"delivered", "suppressed", "dead", "pending"}
  BY <1>2 DEF VerdictFine
<1>8. \A r \in Revision : Kept(outbox[r], outbox'[r])
  BY <1>5, <1>6, <1>7 DEF Kept, Finished
<1>9. RowsArrived' /\ RowsAreNews'
  BY <1>5, <1>6, <1>7 DEF IInv, RowsArrived, RowsAreNews, Finished, Record
<1>10. AttemptsMade'
  <2> SUFFICES ASSUME NEW r \in Revision, outbox'[r].status \in {"pending", "in_flight"}
               PROVE  outbox'[r].attempts <= refused[r]
    BY DEF AttemptsMade, Record
  <2>1. CASE outbox'[r] = outbox[r]
    BY <2>1 DEF IInv, AttemptsMade
  <2>2. CASE r = c.rev /\ Owns(c) /\ outbox'[r] = Finished(c, sweeps[s].verdict)
    <3>1. sweeps[s].verdict = "pending"
      BY <1>7, <2>2 DEF Finished
    <3>2. c.attempts + 1 <= refused[c.rev]
      BY <3>1, <1>2, <2>2 DEF VerdictFine
    <3> QED
      BY <3>1, <3>2, <2>2 DEF Finished
  <2> QED
    BY <1>5, <2>1, <2>2
<1>11. me \in Sweeper
  BY PutDown DEF IInv
<1>12. sweeps'[s] = me /\ \A t \in Sweeps : t # s => sweeps'[t] = sweeps[t]
  BY <1>11, BecomeType DEF Record, IInv
<1>13. me.pc = "next" /\ me.batch = sweeps[s].batch
  BY <1>2 DEF Sweeper
<1>14. InHand(me) \subseteq InHand(sweeps[s]) /\ TakenFine(me)
  BY <1>13 DEF InHand, TakenFine
<1>15. VerdictFine(sweeps[s])'
  BY <1>12, <1>13 DEF VerdictFine
<1>16. /\ rev <= rev' /\ told \subseteq told'
       /\ \A x \in Revision : refused[x] <= refused'[x]
  BY Naturals DEF IInv, Record
<1> HIDE DEF me, c
<1> QED
  BY <1>1, <1>8, <1>9, <1>10, <1>12, <1>14, <1>15, <1>16, Onward

LEMMA EndSweepInv ==
    ASSUME IInv, NEW s \in Sweeps, EndSweep(s)
    PROVE  IInv'
<1>1. TypeOK'
  BY EndSweepType DEF IInv
<1>2. PICK rows \in SUBSET Expendable :
          outbox' = [r \in Revision |->
                        IF r \in rows THEN [outbox[r] EXCEPT !.status = "purged"] ELSE outbox[r]]
  BY DEF EndSweep
<1>3. outbox \in [Revision -> Row]
  BY DEF IInv, TypeOK
<1>4. \A r \in Revision :
         /\ outbox'[r].event = outbox[r].event /\ outbox'[r].attempts = outbox[r].attempts
         /\ outbox'[r].lease = outbox[r].lease
         /\ \/ outbox'[r].status = outbox[r].status
            \/ outbox'[r].status = "purged" /\ outbox[r].status \in {"delivered", "suppressed"}
  BY <1>2, <1>3 DEF Row, Expendable
<1>5. RowsArrived' /\ RowsAreNews' /\ AttemptsMade'
  BY <1>4 DEF IInv, RowsArrived, RowsAreNews, AttemptsMade, EndSweep
<1>6. \A r \in Revision : Kept(outbox[r], outbox'[r])
  BY <1>4 DEF Kept
<1>7. sweeps'[s] = Idle /\ \A t \in Sweeps : t # s => sweeps'[t] = sweeps[t]
  BY IdleType, BecomeType DEF EndSweep, IInv
<1>8. InHand(Idle) = {} /\ TakenFine(Idle)
  BY DEF InHand, TakenFine, Idle
<1>9. VerdictFine(sweeps[s])'
  BY <1>7 DEF VerdictFine, Idle
<1>10. /\ rev <= rev' /\ told \subseteq told'
       /\ \A x \in Revision : refused[x] <= refused'[x]
  BY Naturals DEF IInv, EndSweep
<1> QED
  BY <1>1, <1>5, <1>6, <1>7, <1>8, <1>9, <1>10, Onward

\* A claim leases each row anew: its lease is later than any other sweep's.
LEMMA ClaimDueInv ==
    ASSUME IInv, NEW s \in Sweeps, ClaimDue(s)
    PROVE  IInv'
<1>1. TypeOK'
  BY ClaimDueType DEF IInv
<1>2. PICK rows \in SUBSET Due :
          /\ outbox' = [r \in Revision |-> IF r \in rows THEN Leased(outbox[r]) ELSE outbox[r]]
          /\ Become(s, [Idle EXCEPT !.pc = "next", !.batch = {ClaimOf(r) : r \in rows}])
  BY DEF ClaimDue
<1> DEFINE me == [Idle EXCEPT !.pc = "next", !.batch = {ClaimOf(r) : r \in rows}]
<1>3. outbox \in [Revision -> Row] /\ rows \subseteq Revision
  BY DEF IInv, TypeOK, Due
<1>4. me.pc = "next" /\ me.batch = {ClaimOf(r) : r \in rows} /\ InHand(me) = me.batch
  BY DEF Idle, InHand
<1>5. /\ sweeps'[s] = me
      /\ \A t \in Sweeps : t # s => sweeps'[t] = sweeps[t]
  BY <1>2 DEF Become, IInv, TypeOK
<1>6. /\ Holds(s)' = {ClaimOf(r) : r \in rows}
      /\ \A t \in Sweeps : t # s => Holds(t)' = Holds(t)
  BY <1>4, <1>5 DEF Holds
<1>7. \A r \in Revision :
         /\ outbox[r].lease \in Nat
         /\ outbox'[r].event = outbox[r].event /\ outbox'[r].attempts = outbox[r].attempts
         /\ r \in rows => /\ outbox[r].status \in {"pending", "in_flight"}
                          /\ outbox'[r].status = "in_flight"
                          /\ outbox'[r].lease = outbox[r].lease + 1
         /\ r \notin rows => outbox'[r] = outbox[r]
  BY <1>2, <1>3 DEF Due, Leased, Row
<1>8. \A r \in rows : /\ ClaimOf(r).rev = r /\ ClaimOf(r).event = outbox[r].event
                      /\ ClaimOf(r).attempts = outbox[r].attempts
                      /\ ClaimOf(r).lease = outbox[r].lease + 1
  BY DEF ClaimOf, Leased
<1>9. RowsArrived' /\ RowsAreNews' /\ AttemptsMade'
  <2>1. RowsArrived'
    BY <1>7 DEF IInv, RowsArrived, ClaimDue
  <2>2. RowsAreNews'
    BY <1>7 DEF IInv, RowsAreNews
  <2>3. AttemptsMade'
    BY <1>7 DEF IInv, AttemptsMade, ClaimDue
  <2> QED
    BY <2>1, <2>2, <2>3
<1>10. \A c \in {ClaimOf(r) : r \in rows} : ClaimFine(c)'
  <2> SUFFICES ASSUME NEW r \in rows, NEW c, c = ClaimOf(r) PROVE ClaimFine(c)'
    OBVIOUS
  <2>1. r \in Revision
    BY <1>3
  <2>2. /\ outbox'[r].status = "in_flight" /\ outbox'[r].event = outbox[r].event
        /\ outbox'[r].lease = outbox[r].lease + 1 /\ outbox[r].lease \in Nat
        /\ outbox'[r].attempts = outbox[r].attempts
    BY <1>7, <2>1
  <2>3. /\ c.rev = r /\ c.event = outbox[r].event
        /\ c.attempts = outbox[r].attempts /\ c.lease = outbox[r].lease + 1
    BY <1>8
  <2> QED
    BY <2>1, <2>2, <2>3 DEF ClaimFine, Owns
<1>11. \A t \in Sweeps : \A c \in Holds(t) : ClaimFine(c) /\ c \in Claimed
  BY InHandType DEF IInv, ClaimsFine
<1>12. \A t \in Sweeps : \A c \in Holds(t) : ClaimFine(c)' /\ (Owns(c)' => Owns(c))
  <2> SUFFICES ASSUME NEW t \in Sweeps, NEW c \in Holds(t)
               PROVE  ClaimFine(c)' /\ (Owns(c)' => Owns(c))
    OBVIOUS
  <2>1. ClaimFine(c) /\ c \in Claimed /\ c.rev \in Revision /\ c.lease \in Nat
    BY <1>11 DEF Claimed
  <2>2. CASE c.rev \in rows
    <3>1. c.lease # outbox'[c.rev].lease /\ c.lease <= outbox'[c.rev].lease
      BY <1>7, <2>1, <2>2 DEF ClaimFine
    <3>2. ~Owns(c)'
      BY <3>1 DEF Owns
    <3> QED
      BY <1>7, <2>1, <2>2, <3>1, <3>2 DEF ClaimFine
  <2>3. CASE c.rev \notin rows
    BY <1>7, <2>1, <2>3 DEF ClaimFine, Owns
  <2> QED
    BY <2>2, <2>3
<1>13. ClaimsFine'
  <2> SUFFICES ASSUME NEW t \in Sweeps, NEW c \in Holds(t)' PROVE ClaimFine(c)'
    BY DEF ClaimsFine
  <2> QED
    BY <1>6, <1>10, <1>12
<1>14. \A t \in Sweeps : t # s =>
          \A c \in Holds(t) : \A r \in rows : c.rev = r => c.lease # ClaimOf(r).lease
  <2> SUFFICES ASSUME NEW t \in Sweeps, NEW c \in Holds(t), c.rev \in rows
               PROVE  c.lease # ClaimOf(c.rev).lease
    OBVIOUS
  <2>1. c.lease <= outbox[c.rev].lease /\ c.lease \in Nat /\ c.rev \in Revision
    BY <1>11 DEF ClaimFine, Claimed
  <2> QED
    BY <2>1, <1>7, <1>8
<1>15. LeasesDiffer'
  <2> SUFFICES ASSUME NEW t \in Sweeps, NEW u \in Sweeps,
                      NEW c \in Holds(t)', NEW d \in Holds(u)',
                      c.rev = d.rev, c.lease = d.lease
               PROVE  t = u /\ c = d
    BY DEF LeasesDiffer
  <2>1. CASE t = s /\ u = s
    <3>1. PICK r \in rows, x \in rows : c = ClaimOf(r) /\ d = ClaimOf(x)
      BY <1>6, <2>1
    <3> QED
      BY <1>8, <2>1, <3>1
  <2>2. CASE t = s /\ u # s
    <3>1. PICK r \in rows : c = ClaimOf(r)
      BY <1>6, <2>2
    <3>2. d \in Holds(u) /\ d.rev = r
      BY <1>6, <1>8, <2>2, <3>1
    <3> QED
      BY <1>14, <2>2, <3>1, <3>2
  <2>3. CASE t # s /\ u = s
    <3>1. PICK r \in rows : d = ClaimOf(r)
      BY <1>6, <2>3
    <3>2. c \in Holds(t) /\ c.rev = r
      BY <1>6, <1>8, <2>3, <3>1
    <3> QED
      BY <1>14, <2>3, <3>1, <3>2
  <2>4. CASE t # s /\ u # s
    BY <1>6, <2>4 DEF IInv, LeasesDiffer
  <2> QED
    BY <2>1, <2>2, <2>3, <2>4
<1>16. CurTaken'
  BY <1>4, <1>5 DEF CurTaken, TakenFine, IInv
<1>17. VerdictsFine'
  <2> SUFFICES ASSUME NEW t \in Sweeps PROVE VerdictFine(sweeps[t])'
    BY DEF VerdictsFine
  <2>1. CASE t = s
    BY <1>4, <1>5, <2>1 DEF VerdictFine
  <2>2. CASE t # s
    <3> SUFFICES ASSUME sweeps[t].pc = "record" PROVE VerdictFine(sweeps[t])'
      BY <1>5, <2>2 DEF VerdictFine
    <3>1. sweeps'[t] = sweeps[t] /\ VerdictFine(sweeps[t])
      BY <1>5, <2>2 DEF IInv, VerdictsFine
    <3>2. sweeps[t].cur \in Holds(t)
      BY CurHeld
    <3>3. Owns(sweeps[t].cur)' => Owns(sweeps[t].cur)
      <4> DEFINE c == sweeps[t].cur
      <4>1. c' = c
        BY <3>1
      <4>2. c.rev \in Revision /\ c.lease \in Nat /\ c.lease <= outbox[c.rev].lease
        BY <1>11, <3>2 DEF ClaimFine, Claimed
      <4>3. c.rev \in rows => c.lease # outbox'[c.rev].lease
        BY <1>7, <4>2
      <4>4. c.rev \notin rows => outbox'[c.rev] = outbox[c.rev]
        BY <1>7, <4>2
      <4> HIDE DEF c
      <4>5. Owns(c)' => Owns(c)
        BY <4>1, <4>3, <4>4 DEF Owns
      <4> QED
        BY <4>5 DEF c
    <3>4. UNCHANGED <<rev, told, refused>>
      BY DEF ClaimDue
    <3> QED
      BY <3>1, <3>3, <3>4 DEF VerdictFine
  <2> QED
    BY <2>1, <2>2
<1> QED
  BY <1>1, <1>9, <1>13, <1>15, <1>16, <1>17 DEF IInv

LEMMA InitInv == Init => IInv
<1> SUFFICES ASSUME Init PROVE IInv
  OBVIOUS
<1>1. TypeOK
  BY InitType
<1>2. \A r \in Revision : outbox[r].status = "none"
  BY DEF Init, NoRow
<1>3. \A s \in Sweeps : sweeps[s] = Idle /\ Holds(s) = {}
  BY DEF Init, Holds, InHand, Idle
<1>4. RowsArrived /\ RowsAreNews /\ AttemptsMade
  BY <1>2 DEF RowsArrived, RowsAreNews, AttemptsMade
<1>5. ClaimsFine /\ LeasesDiffer /\ CurTaken /\ VerdictsFine
  BY <1>3 DEF ClaimsFine, LeasesDiffer, CurTaken, TakenFine, VerdictsFine, VerdictFine, Idle
<1> QED
  BY <1>1, <1>4, <1>5 DEF IInv

LEMMA StutterInv ==
    ASSUME IInv, UNCHANGED vars
    PROVE  IInv'
<1>1. /\ TypeOK' /\ RowsArrived' /\ RowsAreNews' /\ AttemptsMade'
  BY DEF vars, IInv, TypeOK, RowsArrived, RowsAreNews, AttemptsMade
<1>2. /\ rev <= rev' /\ told \subseteq told'
      /\ \A r \in Revision : refused[r] <= refused'[r]
  BY Naturals DEF IInv, vars
<1>3. \A r \in Revision : Kept(outbox[r], outbox'[r])
  BY DEF Kept, vars
<1>4. \A s \in Sweeps : sweeps'[s] = sweeps[s]
  BY DEF vars
<1> QED
  BY <1>1, <1>2, <1>3, <1>4, Onward

LEMMA NextInv == IInv /\ [Next]_vars => IInv'
<1> SUFFICES ASSUME IInv, [Next]_vars PROVE IInv'
  OBVIOUS
<1>1. ASSUME NEW event, MoveRun(event) PROVE IInv'
  BY <1>1, MoveRunInv
<1>2. CASE RecoverRun
  BY <1>2, RecoverRunInv
<1>3. ASSUME NEW s \in Sweeps, Sweep(s) PROVE IInv'
  BY <1>3, ClaimDueInv, TakeRowInv, PostInv, RecordInv, EndSweepInv DEF Sweep
<1>4. ASSUME NEW s \in Sweeps, Crash(s) \/ RowRaises(s) PROVE IInv'
  BY <1>4, CrashInv, RowRaisesInv
<1>5. ASSUME NEW r \in Revision, Ripen(r) PROVE IInv'
  BY <1>5, RipenInv
<1>6. CASE UNCHANGED vars
  BY <1>6, StutterInv
<1> QED
  BY <1>1, <1>2, <1>3, <1>4, <1>5, <1>6 DEF Next

\* The invariant of the outbox, its sweeps and their claims.
THEOREM OutboxInvariant == Spec => []IInv
<1>1. Init => IInv
  BY InitInv
<1>2. IInv /\ [Next]_vars => IInv'
  BY NextInv
<1> QED
  BY <1>1, <1>2, PTL DEF Spec

\* Rows, claims and sweeps keep the shape the classes declare.
THEOREM OutboxTypeCorrect == Spec => []TypeOK
<1>1. IInv => TypeOK
  BY DEF IInv
<1> QED
  BY <1>1, OutboxInvariant, PTL

\* At most one sweep can still record an arrival's outcome, however many
\* overlap and however their leases lapse (_finish).
THEOREM OneSweepOwnsARow == Spec => []OneOwner
<1>1. IInv => OneOwner
  BY DEF IInv, OneOwner, LeasesDiffer, Owns
<1> QED
  BY <1>1, OutboxInvariant, PTL

-----------------------------------------------------------------------------
(* Refinement: the outbox implements NewsBoard. *)

\* The board's view of a row.
News(r) == [event |-> outbox[r].event, fate |-> FateOf(outbox[r].status)]

\* The board sees no step that leaves the run, the receiver and every fate alone.
LEMMA BoardSame ==
    ASSUME UNCHANGED <<rev, told, refused>>, \A r \in Revision : News(r)' = News(r)
    PROVE  UNCHANGED Board!board
BY DEF Board!board, News

LEMMA AnnounceStep ==
    ASSUME IInv, IInv', NEW event, NEW step \in Nat \ {0}, rev' = rev + step,
           rev + 1 \in Revision, outbox' = Recorded(outbox, rev + 1, event),
           UNCHANGED <<told, refused>>
    PROVE  Board!Announce
<1>1. rev \in Nat /\ rev' \in Nat /\ rev' > rev /\ rev + 1 > rev /\ rev + 1 <= rev'
  BY OutboxAssumption DEF IInv, TypeOK
<1>2. outbox \in [Revision -> Row]
  BY DEF IInv, TypeOK
<1>3. \A r \in Revision :
         \/ outbox'[r] = outbox[r]
         \/ r = rev + 1 /\ outbox'[r] = PendingRow(event)
  BY <1>2 DEF Recorded
<1>4. FateOf("pending") = "open"
  BY DEF FateOf
<1>5. \A r \in Revision :
         News(r)' = News(r) \/ (r > rev /\ r <= rev' /\ News(r)'.fate = "open")
  BY <1>1, <1>3, <1>4 DEF News, PendingRow
<1> QED
  BY <1>1, <1>5 DEF Board!Announce, Board!Revision, Revision, News

LEMMA SendStep ==
    ASSUME IInv, NEW s \in Sweeps, Post(s)
    PROVE  \E r \in Revision : Board!Send(r)
<1> DEFINE c == sweeps[s].cur
<1>1. c \in Holds(s)
  BY CurHeld DEF Post, At
<1>2. c \in Claimed /\ ClaimFine(c)
  BY <1>1, InHandType DEF IInv, ClaimsFine
<1>3. c.rev \in Revision /\ outbox[c.rev].event \in NotifiableEvent
  BY <1>2 DEF ClaimFine, Claimed
<1>4. /\ told' \in {told, told \cup {c.rev}}
      /\ refused' \in {refused, [refused EXCEPT ![c.rev] = @ + 1]}
      /\ UNCHANGED <<rev, outbox>>
  BY DEF Post
<1> HIDE DEF c
<1> QED
  BY <1>3, <1>4 DEF Board!Send, Board!Event, NotifiableEvent

\* An outcome that is recorded closes the arrival for the board's reason, and
\* one that only reschedules it leaves it open.
LEMMA RecordStep ==
    ASSUME IInv, NEW s \in Sweeps, Record(s)
    PROVE  \/ UNCHANGED Board!board
           \/ \E r \in Revision : Board!Tell(r) \/ Board!Withdraw(r) \/ Board!GiveUp(r)
<1> DEFINE c == sweeps[s].cur
           verdict == sweeps[s].verdict
<1>1. c \in Holds(s) /\ VerdictFine(sweeps[s]) /\ sweeps[s].pc = "record"
  BY CurHeld DEF IInv, VerdictsFine, Record, At
<1>2. c \in Claimed /\ ClaimFine(c)
  BY <1>1, InHandType DEF IInv, ClaimsFine
<1>3. /\ c.rev \in Revision /\ refused[c.rev] \in Nat /\ c.attempts \in Nat
      /\ outbox \in [Revision -> Row] /\ MaxAttempts \in Nat
  BY <1>2, OutboxAssumption DEF Claimed, IInv, TypeOK
<1>4. UNCHANGED <<rev, told, refused>>
  BY DEF Record
<1>5. CASE ~Owns(c)
  <2>1. outbox' = outbox
    BY <1>5 DEF Record
  <2> QED
    BY <1>4, <2>1, BoardSame DEF News
<1>6. CASE Owns(c)
  <2>1. outbox[c.rev].status = "in_flight" /\ outbox[c.rev].event = c.event
    BY <1>2, <1>6 DEF Owns, ClaimFine
  <2>2. outbox' = [outbox EXCEPT ![c.rev] = Finished(c, verdict)]
    BY <1>6 DEF Record
  <2>3. /\ outbox'[c.rev].status = verdict /\ outbox'[c.rev].event = c.event
        /\ \A r \in Revision : r # c.rev => outbox'[r] = outbox[r]
    BY <1>3, <2>2 DEF Finished
  <2>4. /\ verdict \in {"delivered", "suppressed", "dead", "pending"}
        /\ verdict = "delivered" => c.rev \in told
        /\ verdict = "suppressed" => c.event = "failed" /\ rev > c.rev
        /\ verdict = "dead" => c.attempts + 1 >= MaxAttempts
        /\ verdict \in {"dead", "pending"} => c.attempts + 1 <= refused[c.rev]
    BY <1>1, <1>6 DEF VerdictFine
  <2> HIDE DEF c, verdict
  <2>5. /\ FateOf("in_flight") = "open" /\ FateOf("pending") = "open"
        /\ FateOf("delivered") = "told" /\ FateOf("suppressed") = "withdrawn"
        /\ FateOf("dead") = "abandoned"
    BY DEF FateOf
  <2>6. \A fate : fate = FateOf(verdict) =>
           [r \in Revision |-> News(r)'] =
               [[r \in Revision |-> News(r)] EXCEPT ![c.rev] = [event |-> @.event, fate |-> fate]]
    BY <1>3, <2>1, <2>3 DEF News
  <2>7. News(c.rev).fate = "open" /\ News(c.rev).event = c.event
    BY <2>1, <2>5 DEF News
  <2>8. \A fate : fate = FateOf(verdict) => Board!Closes(c.rev, fate)
    BY <1>3, <1>4, <2>6, <2>7 DEF Board!Closes, News
  <2>9. CASE verdict = "delivered"
    BY <1>3, <2>4, <2>5, <2>8, <2>9 DEF Board!Tell
  <2>10. CASE verdict = "suppressed"
    BY <1>3, <2>1, <2>4, <2>5, <2>8, <2>10 DEF Board!Withdraw
  <2>11. CASE verdict = "dead"
    <3>1. refused[c.rev] >= MaxAttempts
      BY <1>3, <2>4, <2>11
    <3> QED
      BY <1>3, <2>5, <2>8, <2>11, <3>1 DEF Board!GiveUp
  <2>12. CASE verdict = "pending"
    <3>1. \A r \in Revision : News(r)' = News(r)
      BY <2>1, <2>3, <2>5, <2>12 DEF News
    <3> QED
      BY <1>4, <3>1, BoardSame
  <2> QED
    BY <2>4, <2>9, <2>10, <2>11, <2>12
<1> QED
  BY <1>5, <1>6

LEMMA ForgetStep ==
    ASSUME IInv, NEW s \in Sweeps, EndSweep(s)
    PROVE  Board!Forget
<1>1. PICK rows \in SUBSET Expendable :
          outbox' = [r \in Revision |->
                        IF r \in rows THEN [outbox[r] EXCEPT !.status = "purged"] ELSE outbox[r]]
  BY DEF EndSweep
<1>2. outbox \in [Revision -> Row]
  BY DEF IInv, TypeOK
<1>3. \A r \in Revision :
         \/ outbox'[r] = outbox[r]
         \/ outbox'[r].status = "purged" /\ outbox[r].status \in {"delivered", "suppressed"}
  BY <1>1, <1>2 DEF Row, Expendable
<1>4. /\ FateOf("purged") = "gone" /\ FateOf("delivered") = "told"
      /\ FateOf("suppressed") = "withdrawn"
  BY DEF FateOf
<1>5. \A r \in Revision :
         \/ News(r)' = News(r)
         \/ News(r).fate \in {"told", "withdrawn"} /\ News(r)'.fate = "gone"
  BY <1>3, <1>4 DEF News
<1>6. UNCHANGED <<rev, told, refused>>
  BY DEF EndSweep
<1> QED
  BY <1>5, <1>6 DEF Board!Forget, Board!Revision, Revision, News

\* Leasing a row, and the passing of its clock, are nothing to the board.
LEMMA ClaimDueStep ==
    ASSUME IInv, NEW s \in Sweeps, ClaimDue(s)
    PROVE  UNCHANGED Board!board
<1>1. PICK rows \in SUBSET Due :
          outbox' = [r \in Revision |-> IF r \in rows THEN Leased(outbox[r]) ELSE outbox[r]]
  BY DEF ClaimDue
<1>2. FateOf("in_flight") = "open" /\ FateOf("pending") = "open"
  BY DEF FateOf
<1>3. \A r \in Revision : News(r)' = News(r)
  BY <1>1, <1>2 DEF News, Due, Leased
<1> QED
  BY <1>3, BoardSame DEF ClaimDue

LEMMA RipenStep ==
    ASSUME IInv, NEW r \in Revision, Ripen(r)
    PROVE  UNCHANGED Board!board
<1>1. outbox \in [Revision -> Row]
  BY DEF IInv, TypeOK
<1>2. \A x \in Revision :
         outbox'[x].event = outbox[x].event /\ outbox'[x].status = outbox[x].status
  BY <1>1 DEF Ripen, Row
<1>3. \A x \in Revision : News(x)' = News(x)
  BY <1>2 DEF News
<1> QED
  BY <1>3, BoardSame DEF Ripen

LEMMA BoardStep == IInv /\ IInv' /\ [Next]_vars => [Board!BoardNext]_(Board!board)
<1> SUFFICES ASSUME IInv, IInv', [Next]_vars PROVE [Board!BoardNext]_(Board!board)
  OBVIOUS
<1>1. ASSUME NEW event, MoveRun(event) PROVE Board!BoardNext
  <2>1. rev + 1 \in Revision
    BY <1>1, OutboxAssumption DEF IInv, TypeOK, MoveRun, Revision
  <2> QED
    BY <1>1, <2>1, AnnounceStep DEF MoveRun, Board!BoardNext
<1>2. CASE RecoverRun
  <2>1. rev + 1 \in Revision
    BY <1>2, OutboxAssumption DEF IInv, TypeOK, RecoverRun, Revision
  <2> QED
    BY <1>2, <2>1, AnnounceStep DEF RecoverRun, Board!BoardNext
<1>3. ASSUME NEW s \in Sweeps, Sweep(s) PROVE [Board!BoardNext]_(Board!board)
  <2>1. CASE ClaimDue(s)
    BY <2>1, ClaimDueStep
  <2>2. CASE TakeRow(s)
    BY <2>2, BoardSame DEF TakeRow, News
  <2>3. CASE Post(s)
    BY <2>3, SendStep DEF Board!BoardNext, Board!Revision, Revision
  <2>4. CASE Record(s)
    BY <2>4, RecordStep DEF Board!BoardNext, Board!Revision, Revision
  <2>5. CASE EndSweep(s)
    BY <2>5, ForgetStep DEF Board!BoardNext
  <2> QED
    BY <1>3, <2>1, <2>2, <2>3, <2>4, <2>5 DEF Sweep
<1>4. ASSUME NEW s \in Sweeps, Crash(s) \/ RowRaises(s) PROVE UNCHANGED Board!board
  BY <1>4, BoardSame DEF Crash, RowRaises, News
<1>5. ASSUME NEW r \in Revision, Ripen(r) PROVE UNCHANGED Board!board
  BY <1>5, RipenStep
<1>6. CASE UNCHANGED vars
  BY <1>6, BoardSame DEF vars, News
<1> QED
  BY <1>1, <1>2, <1>3, <1>4, <1>5, <1>6 DEF Next

LEMMA BoardStart == Init => Board!BoardInit
<1>1. FateOf("none") = "gone"
  BY DEF FateOf
<1> QED
  BY <1>1 DEF Init, NoRow, Board!BoardInit, Board!Quiet, Board!Revision, Revision

\* The outbox with its overlapping sweeps, leases and batches implements the
\* board: an arrival is closed for one of the promised reasons and stays closed.
THEOREM OutboxImplementsBoard == Spec => ImplementsBoard
<1>1. Init => Board!BoardInit
  BY BoardStart
<1>2. IInv /\ IInv' /\ [Next]_vars => [Board!BoardNext]_(Board!board)
  BY BoardStep
<1> QED
  BY <1>1, <1>2, OutboxInvariant, PTL DEF Spec, ImplementsBoard, Board!BoardSpec

-----------------------------------------------------------------------------
(* The budget of an arrival's attempts. *)

LEMMA Quantities ==
    ASSUME TypeOK, NEW r \in Revision
    PROVE  /\ refused[r] \in Nat /\ trouble \in Nat /\ MaxTrouble \in Nat
           /\ outbox[r].attempts \in Nat /\ outbox[r].lease \in Nat
           /\ IsFiniteSet(Owed(r)) /\ Cardinality(Owed(r)) \in Nat
<1>1. outbox[r] \in Row /\ refused[r] \in Nat /\ trouble \in Nat
  BY DEF TypeOK
<1>2. outbox[r].attempts \in Nat /\ outbox[r].lease \in Nat
  BY <1>1 DEF Row
<1>3. IsFiniteSet(0 .. outbox[r].lease)
  BY <1>2, FS_Interval
<1>4. Owed(r) \in SUBSET (0 .. outbox[r].lease)
  BY DEF Owed
<1>5. IsFiniteSet(Owed(r))
  BY <1>3, <1>4, FS_Subset
<1> QED
  BY <1>1, <1>2, <1>5, FS_CardinalityType, OutboxAssumption

LEMMA QuantitiesLater ==
    ASSUME TypeOK', NEW r \in Revision
    PROVE  /\ refused'[r] \in Nat /\ trouble' \in Nat
           /\ outbox'[r].attempts \in Nat /\ outbox'[r].lease \in Nat
           /\ IsFiniteSet(Owed(r)') /\ Cardinality(Owed(r)') \in Nat
<1>1. outbox'[r] \in Row /\ refused'[r] \in Nat /\ trouble' \in Nat
  BY DEF TypeOK
<1>2. outbox'[r].attempts \in Nat /\ outbox'[r].lease \in Nat
  BY <1>1 DEF Row
<1>3. IsFiniteSet(0 .. outbox'[r].lease)
  <2>1. \A n \in Nat : IsFiniteSet(0 .. n)
    BY FS_Interval
  <2> QED
    BY <1>2, <2>1
<1>4. Owed(r)' \in SUBSET (0 .. outbox'[r].lease)
  BY DEF Owed
<1>5. IsFiniteSet(Owed(r)')
  BY <1>3, <1>4, FS_Subset
<1> QED
  BY <1>1, <1>2, <1>5, FS_CardinalityType

\* Claims still to be posted are claims in hand.
LEMMA UnpostedHeld == \A me : Unposted(me) \subseteq InHand(me)
BY DEF Unposted, InHand

\* Sweeps that only put claims down, or post them, owe no more than before.
LEMMA OwesNoMore ==
    ASSUME NEW r \in Revision, outbox'[r].lease = outbox[r].lease,
           \A t \in Sweeps : Unposted(sweeps'[t]) \subseteq Unposted(sweeps[t])
    PROVE  Owed(r)' \subseteq Owed(r)
<1>1. ASSUME NEW n \in Owed(r)' PROVE n \in Owed(r)
  <2>1. n \in 0 .. outbox[r].lease
    BY DEF Owed
  <2>2. PICK t \in Sweeps : \E c \in Unposted(sweeps'[t]) : c.rev = r /\ c.lease = n
    BY DEF Owed
  <2>3. \E c \in Unposted(sweeps[t]) : c.rev = r /\ c.lease = n
    BY <2>2
  <2> QED
    BY <2>1, <2>3 DEF Owed
<1> QED
  BY <1>1

\* A row whose owner stays safe, if it has one, keeps its account.
LEMMA AccountKept ==
    ASSUME TypeOK, TypeOK', NEW r \in Revision, Accounted(r), trouble' <= trouble,
           refused'[r] = refused[r], outbox'[r].attempts = outbox[r].attempts,
           Owed(r)' \subseteq Owed(r), Safe(r) => Safe(r)'
    PROVE  Accounted(r)'
<1>1. /\ refused[r] \in Nat /\ trouble \in Nat /\ MaxTrouble \in Nat
      /\ outbox[r].attempts \in Nat /\ IsFiniteSet(Owed(r)) /\ Cardinality(Owed(r)) \in Nat
  BY Quantities
<1>2. trouble' \in Nat /\ Cardinality(Owed(r)') \in Nat
  BY QuantitiesLater
<1>3. Cardinality(Owed(r)') <= Cardinality(Owed(r))
  BY <1>1, FS_Subset
<1>4. One(Safe(r)) <= One(Safe(r)') /\ One(Safe(r)) \in Nat /\ One(Safe(r)') \in Nat
  BY DEF One
<1>5. refused[r] + Cardinality(Owed(r)) + trouble
          <= outbox[r].attempts + MaxTrouble + One(Safe(r))
  BY DEF Accounted
<1>6. refused'[r] + Cardinality(Owed(r)') + trouble'
          <= outbox'[r].attempts + MaxTrouble + One(Safe(r)')
  BY <1>1, <1>2, <1>3, <1>4, <1>5
<1> QED
  BY <1>6 DEF Accounted, One

\* A row that loses its owner pays with a piece of trouble, an attempt or a debt.
LEMMA AccountPaid ==
    ASSUME TypeOK, TypeOK', NEW r \in Revision, Accounted(r),
           refused'[r] = refused[r], Owed(r)' \subseteq Owed(r),
           \/ trouble' = trouble - 1 /\ outbox'[r].attempts = outbox[r].attempts
           \/ trouble' = trouble /\ outbox'[r].attempts = outbox[r].attempts + 1
           \/ /\ trouble' = trouble /\ outbox'[r].attempts = outbox[r].attempts
              /\ Owed(r)' # Owed(r)
    PROVE  Accounted(r)'
<1>1. /\ refused[r] \in Nat /\ trouble \in Nat /\ MaxTrouble \in Nat
      /\ outbox[r].attempts \in Nat /\ IsFiniteSet(Owed(r)) /\ Cardinality(Owed(r)) \in Nat
  BY Quantities
<1>2. trouble' \in Nat /\ Cardinality(Owed(r)') \in Nat
  BY QuantitiesLater
<1>3. /\ Cardinality(Owed(r)') <= Cardinality(Owed(r))
      /\ Owed(r)' # Owed(r) => Cardinality(Owed(r)') # Cardinality(Owed(r))
  BY <1>1, FS_Subset
<1>4. One(Safe(r)) <= 1 /\ One(Safe(r)) \in Nat /\ One(Safe(r)') \in Nat
  BY DEF One
<1>5. refused[r] + Cardinality(Owed(r)) + trouble
          <= outbox[r].attempts + MaxTrouble + One(Safe(r))
  BY DEF Accounted
<1>6. refused'[r] + Cardinality(Owed(r)') + trouble'
          <= outbox'[r].attempts + MaxTrouble + One(Safe(r)')
  <2>1. CASE trouble' = trouble - 1 /\ outbox'[r].attempts = outbox[r].attempts
    BY <1>1, <1>2, <1>3, <1>4, <1>5, <2>1
  <2>2. CASE trouble' = trouble /\ outbox'[r].attempts = outbox[r].attempts + 1
    BY <1>1, <1>2, <1>3, <1>4, <1>5, <2>2
  <2>3. CASE /\ trouble' = trouble /\ outbox'[r].attempts = outbox[r].attempts
             /\ Owed(r)' # Owed(r)
    <3>1. Cardinality(Owed(r)') + 1 <= Cardinality(Owed(r))
      BY <1>1, <1>2, <1>3, <2>3
    <3> QED
      BY <1>1, <1>2, <1>4, <1>5, <2>3, <3>1
  <2> QED
    BY <2>1, <2>2, <2>3
<1> QED
  BY <1>6 DEF Accounted, One

\* A row nobody writes stays safe while its owner keeps the claim.
LEMMA SafeStays ==
    ASSUME NEW r \in Revision, outbox'[r] = outbox[r],
           \A t \in Sweeps : \A c \in Holds(t) : c.rev = r /\ Owns(c) => c \in Holds(t)'
    PROVE  Safe(r) => Safe(r)'
<1> SUFFICES ASSUME Safe(r) PROVE Safe(r)'
  OBVIOUS
<1>1. PICK t \in Sweeps : \E c \in Holds(t) : c.rev = r /\ Owns(c)
  BY DEF Safe, Held
<1>2. PICK c \in Holds(t) : c.rev = r /\ Owns(c)
  BY <1>1
<1>3. c \in Holds(t)' /\ c.rev = r /\ Owns(c)'
  BY <1>2 DEF Owns
<1>4. Held(r)'
  BY <1>3 DEF Held
<1> QED
  BY <1>4 DEF Safe

\* A step of one sweep's hands: the others' are as they were.
LEMMA HandsBudget ==
    ASSUME TypeOK, NEW s \in Sweeps, NEW me \in Sweeper, Become(s, me),
           Unposted(me) \subseteq Unposted(sweeps[s])
    PROVE  \A t \in Sweeps : Unposted(sweeps'[t]) \subseteq Unposted(sweeps[t])
<1>1. sweeps'[s] = me /\ \A t \in Sweeps : t # s => sweeps'[t] = sweeps[t]
  BY BecomeType
<1> QED
  BY <1>1

LEMMA SparingBecome ==
    ASSUME TypeOK, NEW s \in Sweeps, NEW me \in Sweeper, Become(s, me), Sparing, Thrifty(me)
    PROVE  Sparing'
<1>1. sweeps'[s] = me /\ \A t \in Sweeps : t # s => sweeps'[t] = sweeps[t]
  BY BecomeType
<1>2. ASSUME NEW t \in Sweeps PROVE Thrifty(sweeps'[t])
  BY <1>1 DEF Sparing
<1>3. ASSUME NEW t \in Sweeps PROVE Thrifty(sweeps[t])'
  BY <1>2 DEF Thrifty
<1> QED
  BY <1>3 DEF Sparing

LEMMA TakeRowBudget ==
    ASSUME IInv, IInv', Budget, NEW s \in Sweeps, TakeRow(s)
    PROVE  Budget'
<1>1. PICK c \in sweeps[s].batch :
          Become(s, [batch |-> sweeps[s].batch \ {c}, cur |-> c,
                     pc |-> IF c.event = "failed" /\ AdvancedPast(c) THEN "record" ELSE "post",
                     verdict |-> IF c.event = "failed" /\ AdvancedPast(c)
                                 THEN "suppressed" ELSE "none"])
  BY DEF TakeRow
<1> DEFINE me == [batch |-> sweeps[s].batch \ {c}, cur |-> c,
                  pc |-> IF c.event = "failed" /\ AdvancedPast(c) THEN "record" ELSE "post",
                  verdict |-> IF c.event = "failed" /\ AdvancedPast(c)
                              THEN "suppressed" ELSE "none"]
<1>2. sweeps[s] \in Sweeper /\ sweeps[s].pc = "next"
  BY DEF IInv, TypeOK, TakeRow, At
<1>3. c \in Claimed
  BY <1>2 DEF Sweeper
<1>4. me \in Sweeper
  BY <1>2, <1>3 DEF Sweeper, Settled
<1>5. Unposted(me) \subseteq Unposted(sweeps[s])
  BY DEF Unposted
<1>6. InHand(sweeps[s]) \subseteq InHand(me)
  BY <1>2 DEF InHand
<1>7. Thrifty(me)
  BY DEF Thrifty
<1> HIDE DEF me
<1>8. Become(s, me) /\ UNCHANGED <<outbox, refused, trouble>>
  BY <1>1 DEF me, TakeRow
<1>9. sweeps'[s] = me /\ \A t \in Sweeps : t # s => sweeps'[t] = sweeps[t]
  BY <1>4, <1>8, BecomeType DEF IInv
<1>10. ASSUME NEW r \in Revision PROVE Accounted(r)'
  <2>1. Owed(r)' \subseteq Owed(r)
    BY <1>4, <1>5, <1>8, HandsBudget, OwesNoMore DEF IInv
  <2>2. \A t \in Sweeps : Holds(t) \subseteq Holds(t)'
    BY <1>6, <1>9 DEF Holds
  <2>3. Safe(r) => Safe(r)'
    BY <2>2, <1>8, SafeStays
  <2>4. trouble' <= trouble
    BY <1>8 DEF IInv, TypeOK
  <2> QED
    BY <2>1, <2>3, <2>4, <1>8, AccountKept DEF IInv, Budget, Accounts
<1>11. AttemptsLeft'
  BY <1>8 DEF Budget, AttemptsLeft, AttemptLeft
<1>12. Sparing'
  BY <1>4, <1>7, <1>8, SparingBecome DEF IInv, Budget
<1> QED
  BY <1>10, <1>11, <1>12 DEF Budget, Accounts

\* A sweep that dies, or whose row raises, puts claims down and pays for it.
LEMMA PutsDownBudget ==
    ASSUME IInv, IInv', Budget, NEW s \in Sweeps, NEW me \in Sweeper, Become(s, me), Strike,
           UNCHANGED <<outbox, refused>>, Unposted(me) \subseteq Unposted(sweeps[s]), Thrifty(me)
    PROVE  Budget'
<1>1. ASSUME NEW r \in Revision PROVE Accounted(r)'
  <2>1. Owed(r)' \subseteq Owed(r)
    BY HandsBudget, OwesNoMore DEF IInv
  <2> QED
    BY <2>1, AccountPaid DEF IInv, Budget, Accounts, Strike
<1>2. AttemptsLeft'
  BY DEF Budget, AttemptsLeft, AttemptLeft
<1>3. Sparing'
  BY SparingBecome DEF IInv, Budget
<1> QED
  BY <1>1, <1>2, <1>3 DEF Budget, Accounts

LEMMA CrashBudget ==
    ASSUME IInv, IInv', Budget, NEW s \in Sweeps, Crash(s)
    PROVE  Budget'
<1>1. Unposted(Idle) \subseteq Unposted(sweeps[s]) /\ Thrifty(Idle)
  BY DEF Unposted, Thrifty, Idle
<1> QED
  BY <1>1, IdleType, PutsDownBudget DEF Crash

LEMMA PutDownThrifty ==
    ASSUME IInv, NEW s \in Sweeps, NEW me,
           me = [sweeps[s] EXCEPT !.pc = "next", !.cur = NoClaim, !.verdict = "none"]
    PROVE  /\ me \in Sweeper /\ Thrifty(me)
           /\ Unposted(me) = sweeps[s].batch
           /\ InHand(me) = sweeps[s].batch
<1>1. me \in Sweeper /\ sweeps[s] \in Sweeper
  BY PutDown DEF IInv, TypeOK
<1>2. me.pc = "next" /\ me.batch = sweeps[s].batch
  BY <1>1 DEF Sweeper
<1> QED
  BY <1>1, <1>2 DEF Thrifty, Unposted, InHand

LEMMA RowRaisesBudget ==
    ASSUME IInv, IInv', Budget, NEW s \in Sweeps, RowRaises(s)
    PROVE  Budget'
<1> DEFINE me == [sweeps[s] EXCEPT !.pc = "next", !.cur = NoClaim, !.verdict = "none"]
<1>1. Become(s, me) /\ Strike /\ UNCHANGED <<outbox, refused>>
  BY DEF RowRaises
<1> HIDE DEF me
<1>2. me \in Sweeper /\ Thrifty(me) /\ Unposted(me) = sweeps[s].batch
  BY PutDownThrifty DEF me
<1>3. Unposted(me) \subseteq Unposted(sweeps[s])
  BY <1>2 DEF Unposted
<1> QED
  BY <1>1, <1>2, <1>3, PutsDownBudget

\* The purge takes rows nobody owns, and the sweep ends with nothing in hand.
LEMMA EndSweepBudget ==
    ASSUME IInv, IInv', Budget, NEW s \in Sweeps, EndSweep(s)
    PROVE  Budget'
<1>1. PICK rows \in SUBSET Expendable :
          outbox' = [r \in Revision |->
                        IF r \in rows THEN [outbox[r] EXCEPT !.status = "purged"] ELSE outbox[r]]
  BY DEF EndSweep
<1>2. outbox \in [Revision -> Row]
  BY DEF IInv, TypeOK
<1>3. \A r \in Revision :
         /\ outbox'[r].attempts = outbox[r].attempts /\ outbox'[r].lease = outbox[r].lease
         /\ \/ outbox'[r] = outbox[r]
            \/ outbox'[r].status = "purged" /\ outbox[r].status \in {"delivered", "suppressed"}
  BY <1>1, <1>2 DEF Row, Expendable
<1>4. /\ Become(s, Idle) /\ UNCHANGED <<refused, trouble>>
      /\ sweeps[s].pc = "next" /\ sweeps[s].batch = {}
  BY DEF EndSweep, At
<1>5. Unposted(Idle) \subseteq Unposted(sweeps[s]) /\ Thrifty(Idle)
  BY DEF Unposted, Thrifty, Idle
<1>6. \A t \in Sweeps : Holds(t) \subseteq Holds(t)'
  <2>1. Holds(s) = {}
    BY <1>4 DEF Holds, InHand
  <2>2. \A t \in Sweeps : t # s => sweeps'[t] = sweeps[t]
    BY <1>4, IdleType, BecomeType DEF IInv
  <2> QED
    BY <2>1, <2>2 DEF Holds
<1>7. ASSUME NEW r \in Revision PROVE Accounted(r)'
  <2>1. Owed(r)' \subseteq Owed(r)
    BY <1>3, <1>4, <1>5, IdleType, HandsBudget, OwesNoMore DEF IInv
  <2>2. Safe(r) => Safe(r)'
    <3>1. CASE outbox'[r] = outbox[r]
      BY <1>6, <3>1, SafeStays
    <3>2. CASE outbox[r].status \in {"delivered", "suppressed"}
      BY <3>2 DEF Safe, Held, Owns
    <3> QED
      BY <1>3, <3>1, <3>2
  <2>3. trouble' <= trouble
    BY <1>4 DEF IInv, TypeOK
  <2> QED
    BY <2>1, <2>2, <2>3, <1>3, <1>4, AccountKept DEF IInv, Budget, Accounts
<1>8. AttemptsLeft'
  BY <1>3 DEF Budget, AttemptsLeft, AttemptLeft
<1>9. Sparing'
  BY <1>4, <1>5, IdleType, SparingBecome DEF IInv, Budget
<1> QED
  BY <1>7, <1>8, <1>9 DEF Budget, Accounts

\* A lease that lapses under its owner is paid for when it does.
LEMMA RipenBudget ==
    ASSUME IInv, IInv', Budget, NEW r \in Revision, Ripen(r)
    PROVE  Budget'
<1>1. outbox \in [Revision -> Row]
  BY DEF IInv, TypeOK
<1>2. \A x \in Revision : /\ outbox'[x].status = outbox[x].status
                          /\ outbox'[x].attempts = outbox[x].attempts
                          /\ outbox'[x].lease = outbox[x].lease
                          /\ x # r => outbox'[x] = outbox[x]
  BY <1>1 DEF Ripen, Row
<1>3. UNCHANGED <<refused, sweeps>> /\ trouble \in Nat /\ trouble' \in Nat /\ trouble' <= trouble
  BY DEF Ripen, Strike, IInv, TypeOK
<1>4. \A t \in Sweeps : Holds(t) = Holds(t)' /\ Unposted(sweeps'[t]) \subseteq Unposted(sweeps[t])
  BY <1>3 DEF Holds
<1>5. ASSUME NEW x \in Revision PROVE Accounted(x)'
  <2>1. Owed(x)' \subseteq Owed(x)
    BY <1>2, <1>4, OwesNoMore
  <2>2. CASE x = r /\ Held(r)
    <3>1. trouble' = trouble - 1
      BY <2>2 DEF Ripen, Strike
    <3> QED
      BY <2>1, <3>1, <1>2, <1>3, AccountPaid DEF IInv, Budget, Accounts
  <2>3. CASE x = r /\ ~Held(r)
    <3>1. Safe(x) => Safe(x)'
      BY <2>3 DEF Safe
    <3> QED
      BY <2>1, <3>1, <1>2, <1>3, AccountKept DEF IInv, Budget, Accounts
  <2>4. CASE x # r
    <3>1. Safe(x) => Safe(x)'
      BY <2>4, <1>2, <1>4, SafeStays
    <3> QED
      BY <2>1, <3>1, <1>2, <1>3, AccountKept DEF IInv, Budget, Accounts
  <2> QED
    BY <2>2, <2>3, <2>4
<1>6. AttemptsLeft'
  BY <1>2 DEF Budget, AttemptsLeft, AttemptLeft
<1>7. Sparing'
  BY <1>3 DEF Budget, Sparing, Thrifty
<1> QED
  BY <1>5, <1>6, <1>7 DEF Budget, Accounts

\* What Post does, and the claim it is about.
LEMMA PostBudget ==
    ASSUME IInv, IInv', Budget, NEW s \in Sweeps, Post(s), NEW c, c = sweeps[s].cur
    PROVE  Budget'
<1>1. PICK answer \in {"ok", "refused", "lost"} :
          /\ refused' = IF answer = "ok" THEN refused
                        ELSE [refused EXCEPT ![c.rev] = @ + 1]
          /\ Become(s, [sweeps[s] EXCEPT !.pc = "record", !.verdict = Verdict(c, answer)])
  BY DEF Post
<1> DEFINE me == [sweeps[s] EXCEPT !.pc = "record", !.verdict = Verdict(c, answer)]
<1>2. /\ sweeps[s] \in Sweeper /\ sweeps[s].pc = "post" /\ c \in Holds(s)
      /\ TakenFine(sweeps[s])
  BY CurHeld DEF IInv, TypeOK, CurTaken, Post, At
<1>3. c \in Claimed /\ ClaimFine(c)
  BY <1>2, InHandType DEF IInv, ClaimsFine
<1>4. /\ c.rev \in Revision /\ c.lease \in Nat /\ c.attempts \in Nat
      /\ c.lease <= outbox[c.rev].lease
  BY <1>3 DEF Claimed, ClaimFine
<1>5. Verdict(c, answer) \in {"delivered", "dead", "pending"}
  BY DEF Verdict
<1>6. Verdict(c, answer) = "pending" => c.attempts + 1 < MaxAttempts
  BY <1>4, OutboxAssumption DEF Verdict
<1>7. me \in Sweeper
  BY <1>2, <1>5 DEF Sweeper, Settled
<1>8. /\ me.pc = "record" /\ me.cur = c /\ me.verdict = Verdict(c, answer)
      /\ me.batch = sweeps[s].batch
  BY <1>2 DEF Sweeper
<1>9. /\ Unposted(me) = sweeps[s].batch
      /\ Unposted(sweeps[s]) = sweeps[s].batch \cup {c}
      /\ InHand(me) = InHand(sweeps[s])
  BY <1>2, <1>5, <1>8 DEF Unposted, InHand
<1>10. c \notin sweeps[s].batch
  BY <1>2 DEF TakenFine
<1>11. Thrifty(me)
  BY <1>6, <1>8 DEF Thrifty
<1>12. /\ Become(s, me) /\ UNCHANGED <<outbox, trouble>>
       /\ trouble \in Nat /\ refused \in [Revision -> Nat]
  BY <1>1 DEF Post, IInv, TypeOK
<1>13. \A r \in Revision :
          \/ refused'[r] = refused[r]
          \/ r = c.rev /\ refused'[r] = refused[r] + 1
  BY <1>1, <1>4, <1>12
<1> HIDE DEF me
<1>14. sweeps'[s] = me /\ \A t \in Sweeps : t # s => sweeps'[t] = sweeps[t]
  BY <1>7, <1>12, BecomeType DEF IInv
<1>15. \A t \in Sweeps : Holds(t) = Holds(t)'
  BY <1>9, <1>14 DEF Holds
<1>16. \A t \in Sweeps : Unposted(sweeps'[t]) \subseteq Unposted(sweeps[t])
  BY <1>9, <1>14
<1>17. \A r \in Revision : Owed(r)' \subseteq Owed(r)
  BY <1>12, <1>16, OwesNoMore
<1>18. c.lease \in Owed(c.rev) /\ c.lease \notin Owed(c.rev)'
  <2>1. c.lease \in Owed(c.rev)
    BY <1>4, <1>9 DEF Owed
  <2>2. ASSUME NEW t \in Sweeps, NEW d \in Unposted(sweeps'[t]), d.rev = c.rev, d.lease = c.lease
        PROVE  FALSE
    <3>1. d \in Holds(t)
      BY <1>16, UnpostedHeld DEF Holds
    <3>2. t = s /\ d = c
      BY <3>1, <1>2, <2>2 DEF IInv, LeasesDiffer
    <3> QED
      BY <3>2, <1>9, <1>10, <1>14
  <2>3. c.lease \notin Owed(c.rev)'
    BY <2>2 DEF Owed
  <2> QED
    BY <2>1, <2>3
<1>19. \A r \in Revision : Safe(r) => Safe(r)'
  BY <1>12, <1>15, SafeStays
<1>20. ASSUME NEW r \in Revision PROVE Accounted(r)'
  <2>1. CASE refused'[r] = refused[r]
    BY <2>1, <1>12, <1>17, <1>19, AccountKept DEF IInv, Budget, Accounts
  <2>2. CASE r = c.rev /\ refused'[r] = refused[r] + 1
    <3>1. /\ refused[r] \in Nat /\ MaxTrouble \in Nat /\ outbox[r].attempts \in Nat
          /\ IsFiniteSet(Owed(r)) /\ Cardinality(Owed(r)) \in Nat
      BY Quantities DEF IInv
    <3>2. Cardinality(Owed(r)') \in Nat
      BY QuantitiesLater DEF IInv
    <3>3. /\ Cardinality(Owed(r)') <= Cardinality(Owed(r))
          /\ Cardinality(Owed(r)') # Cardinality(Owed(r))
      BY <2>2, <3>1, <1>17, <1>18, FS_Subset
    <3>4. Cardinality(Owed(r)') + 1 <= Cardinality(Owed(r))
      BY <3>1, <3>2, <3>3
    <3>5. One(Safe(r)) <= One(Safe(r)') /\ One(Safe(r)) \in Nat /\ One(Safe(r)') \in Nat
      BY <1>19 DEF One
    <3>6. refused[r] + Cardinality(Owed(r)) + trouble
              <= outbox[r].attempts + MaxTrouble + One(Safe(r))
      BY DEF Budget, Accounts, Accounted
    <3>7. refused'[r] + Cardinality(Owed(r)') + trouble'
              <= outbox'[r].attempts + MaxTrouble + One(Safe(r)')
      BY <2>2, <3>1, <3>2, <3>4, <3>5, <3>6, <1>12
    <3> QED
      BY <3>7 DEF Accounted, One
  <2> QED
    BY <1>13, <2>1, <2>2
<1>21. AttemptsLeft'
  BY <1>12 DEF Budget, AttemptsLeft, AttemptLeft
<1>22. Sparing'
  BY <1>7, <1>11, <1>12, SparingBecome DEF IInv, Budget
<1> QED
  BY <1>20, <1>21, <1>22 DEF Budget, Accounts

\* The owner's outcome counts an attempt, or withholds a POST it owed.
LEMMA RecordBudget ==
    ASSUME IInv, IInv', Budget, NEW s \in Sweeps, Record(s),
           NEW c, c = sweeps[s].cur, NEW verdict, verdict = sweeps[s].verdict
    PROVE  Budget'
<1> DEFINE me == [sweeps[s] EXCEPT !.pc = "next", !.cur = NoClaim, !.verdict = "none"]
<1>1. /\ sweeps[s] \in Sweeper /\ sweeps[s].pc = "record" /\ c \in Holds(s)
      /\ TakenFine(sweeps[s]) /\ Thrifty(sweeps[s])
      /\ verdict \in {"delivered", "suppressed", "dead", "pending"}
  BY CurHeld DEF IInv, TypeOK, CurTaken, VerdictsFine, VerdictFine, Budget, Sparing, Record, At
<1>2. c \in Claimed /\ ClaimFine(c)
  BY <1>1, InHandType DEF IInv, ClaimsFine
<1>3. /\ c.rev \in Revision /\ c.lease \in Nat /\ c.attempts \in Nat
      /\ c.lease <= outbox[c.rev].lease
  BY <1>2 DEF Claimed, ClaimFine
<1>4. /\ UNCHANGED <<refused, trouble>> /\ outbox \in [Revision -> Row] /\ trouble \in Nat
      /\ outbox' = IF Owns(c) THEN [outbox EXCEPT ![c.rev] = Finished(c, verdict)] ELSE outbox
      /\ Become(s, me)
  BY DEF Record, IInv, TypeOK
<1>5. me \in Sweeper /\ Thrifty(me) /\ Unposted(me) = sweeps[s].batch
        /\ InHand(me) = sweeps[s].batch
  BY PutDownThrifty
<1>6. /\ c \notin sweeps[s].batch
      /\ InHand(sweeps[s]) = sweeps[s].batch \cup {c}
      /\ verdict = "suppressed" => Unposted(sweeps[s]) = sweeps[s].batch \cup {c}
  BY <1>1 DEF InHand, TakenFine, Unposted
<1>7. sweeps[s].batch \subseteq Unposted(sweeps[s])
  BY DEF Unposted
<1> HIDE DEF me
<1>8. sweeps'[s] = me /\ \A t \in Sweeps : t # s => sweeps'[t] = sweeps[t]
  BY <1>4, <1>5, BecomeType DEF IInv
<1>9. \A r \in Revision :
         \/ outbox'[r] = outbox[r]
         \/ r = c.rev /\ Owns(c) /\ outbox'[r] = Finished(c, verdict)
  BY <1>3, <1>4
<1>10. Owns(c) => /\ outbox[c.rev].status = "in_flight" /\ outbox[c.rev].lease = c.lease
                  /\ outbox[c.rev].attempts = c.attempts
  BY <1>2 DEF Owns, ClaimFine
<1>11. \A r \in Revision : outbox'[r].lease = outbox[r].lease
  BY <1>9, <1>10 DEF Finished
<1>12. \A t \in Sweeps : Unposted(sweeps'[t]) \subseteq Unposted(sweeps[t])
  BY <1>5, <1>7, <1>8
<1>13. \A r \in Revision : Owed(r)' \subseteq Owed(r)
  BY <1>11, <1>12, OwesNoMore
<1>14. \A t \in Sweeps : \A d \in Holds(t) : d # c => d \in Holds(t)'
  BY <1>5, <1>6, <1>8 DEF Holds
<1>15. ASSUME NEW r \in Revision, outbox'[r] = outbox[r], r = c.rev => ~Owns(c)
       PROVE  Accounted(r)'
  <2>1. \A t \in Sweeps : \A d \in Holds(t) : d.rev = r /\ Owns(d) => d \in Holds(t)'
    BY <1>14, <1>15
  <2>2. Safe(r) => Safe(r)'
    BY <2>1, <1>15, SafeStays
  <2>3. trouble' <= trouble
    BY <1>4
  <2> QED
    BY <2>2, <2>3, <1>4, <1>13, <1>15, AccountKept DEF IInv, Budget, Accounts
<1>16. ASSUME Owns(c), outbox'[c.rev] = Finished(c, verdict)
       PROVE  \A r \in Revision : r = c.rev => Accounted(r)'
  <2> SUFFICES ASSUME NEW r \in Revision, r = c.rev PROVE Accounted(r)'
    OBVIOUS
  <2>1. CASE verdict = "suppressed"
    <3>1. outbox'[r].attempts = outbox[r].attempts
      BY <1>10, <1>16, <2>1 DEF Finished
    <3>2. c.lease \in Owed(r)
      BY <1>3, <1>6, <2>1 DEF Owed
    <3>3. ASSUME NEW t \in Sweeps, NEW d \in Unposted(sweeps'[t]), d.rev = r, d.lease = c.lease
          PROVE  FALSE
      <4>1. d \in Holds(t)
        BY <1>12, UnpostedHeld DEF Holds
      <4>2. t = s /\ d = c
        BY <4>1, <1>1, <3>3 DEF IInv, LeasesDiffer
      <4> QED
        BY <4>2, <1>5, <1>6, <1>8
    <3>4. c.lease \notin Owed(r)'
      BY <3>3 DEF Owed
    <3>5. Owed(r)' # Owed(r)
      BY <3>2, <3>4, Zenon
    <3> QED
      BY <3>1, <3>5, <1>4, <1>13, AccountPaid DEF IInv, Budget, Accounts
  <2>2. CASE verdict # "suppressed"
    <3>1. outbox'[r].attempts = outbox[r].attempts + 1
      BY <1>10, <1>16, <2>2 DEF Finished
    <3> QED
      BY <3>1, <1>4, <1>13, AccountPaid DEF IInv, Budget, Accounts
  <2> QED
    BY <2>1, <2>2
<1>17. ASSUME NEW r \in Revision PROVE Accounted(r)'
  <2>1. CASE r = c.rev /\ Owns(c)
    <3>1. outbox'[c.rev] = Finished(c, verdict)
      BY <2>1, <1>3, <1>4
    <3> QED
      BY <2>1, <3>1, <1>16
  <2>2. CASE ~(r = c.rev /\ Owns(c))
    <3>1. outbox'[r] = outbox[r]
      BY <2>2, <1>9
    <3> QED
      BY <2>2, <3>1, <1>15
  <2> QED
    BY <2>1, <2>2
<1>18. AttemptsLeft'
  <2> SUFFICES ASSUME NEW r \in Revision PROVE AttemptLeft(r)'
    BY DEF AttemptsLeft
  <2>1. AttemptLeft(r)
    BY DEF Budget, AttemptsLeft
  <2>2. CASE outbox'[r] = outbox[r]
    BY <2>1, <2>2 DEF AttemptLeft
  <2>3. CASE r = c.rev /\ Owns(c) /\ outbox'[r] = Finished(c, verdict)
    <3>1. c.attempts < MaxAttempts /\ MaxAttempts \in Nat
      BY <2>1, <2>3, <1>10, OutboxAssumption DEF AttemptLeft
    <3>2. verdict = "pending" => c.attempts + 1 < MaxAttempts
      BY <1>1 DEF Thrifty
    <3>3. /\ outbox'[r].status = verdict
          /\ outbox'[r].attempts = IF verdict = "suppressed" THEN c.attempts ELSE c.attempts + 1
      BY <2>3 DEF Finished
    <3> QED
      BY <3>1, <3>2, <3>3, <1>1, <1>3 DEF AttemptLeft
  <2> QED
    BY <2>2, <2>3, <1>9
<1>19. Sparing'
  BY <1>4, <1>5, SparingBecome DEF IInv, Budget
<1> QED
  BY <1>17, <1>18, <1>19 DEF Budget, Accounts

\* A claim owes one POST more of each row it leases, and is its safe owner.
LEMMA ClaimDueBudget ==
    ASSUME IInv, IInv', Budget, NEW s \in Sweeps, ClaimDue(s)
    PROVE  Budget'
<1>1. PICK rows \in SUBSET Due :
          /\ outbox' = [r \in Revision |-> IF r \in rows THEN Leased(outbox[r]) ELSE outbox[r]]
          /\ Become(s, [Idle EXCEPT !.pc = "next", !.batch = {ClaimOf(r) : r \in rows}])
  BY DEF ClaimDue
<1>2. PICK batch : batch = {ClaimOf(r) : r \in rows}
  OBVIOUS
<1> DEFINE me == [Idle EXCEPT !.pc = "next", !.batch = batch]
<1>3. /\ sweeps[s] \in Sweeper /\ sweeps[s].pc = "idle" /\ sweeps[s].batch = {}
      /\ outbox \in [Revision -> Row] /\ rows \subseteq Revision
      /\ UNCHANGED <<refused, trouble>> /\ trouble \in Nat
  BY DEF IInv, TypeOK, ClaimDue, At, Budget, Sparing, Thrifty, Due
<1>4. me.pc = "next" /\ me.batch = batch /\ InHand(me) = batch /\ Unposted(me) = batch
        /\ Thrifty(me)
  BY DEF Idle, InHand, Unposted, Thrifty
<1>5. InHand(sweeps[s]) = {} /\ Unposted(sweeps[s]) = {}
  BY <1>3 DEF InHand, Unposted
<1>6. Become(s, me)
  BY <1>1, <1>2
<1> HIDE DEF me
<1>7. /\ sweeps'[s] = me
      /\ \A t \in Sweeps : t # s => sweeps'[t] = sweeps[t]
  BY <1>6 DEF Become, IInv, TypeOK
<1>8. \A r \in Revision :
         /\ outbox[r].lease \in Nat /\ outbox[r].attempts \in Nat
         /\ outbox'[r].attempts = outbox[r].attempts
         /\ r \in rows => /\ outbox[r].status \in {"pending", "in_flight"}
                          /\ outbox[r].ripe
                          /\ outbox'[r].status = "in_flight" /\ ~outbox'[r].ripe
                          /\ outbox'[r].lease = outbox[r].lease + 1
         /\ r \notin rows => outbox'[r] = outbox[r]
  BY <1>1, <1>3 DEF Due, Leased, Row
<1>9. \A c \in batch : /\ c.rev \in rows
                       /\ c.lease = outbox[c.rev].lease + 1
  BY <1>2 DEF ClaimOf, Leased
<1>10. \A r \in rows : ClaimOf(r) \in batch /\ ClaimOf(r).rev = r
                         /\ ClaimOf(r).lease = outbox[r].lease + 1
  BY <1>2 DEF ClaimOf, Leased
<1>11. ASSUME NEW r \in Revision, r \notin rows PROVE Accounted(r)'
  <2>1. Owed(r)' \subseteq Owed(r)
    <3>1. ASSUME NEW n \in Owed(r)' PROVE n \in Owed(r)
      <4>1. n \in 0 .. outbox[r].lease
        BY <1>8, <1>11 DEF Owed
      <4>2. PICK t \in Sweeps : \E c \in Unposted(sweeps'[t]) : c.rev = r /\ c.lease = n
        BY DEF Owed
      <4>3. t # s
        BY <4>2, <1>4, <1>7, <1>9, <1>11
      <4>4. \E c \in Unposted(sweeps[t]) : c.rev = r /\ c.lease = n
        BY <4>2, <4>3, <1>7
      <4> QED
        BY <4>1, <4>4 DEF Owed
    <3> QED
      BY <3>1
  <2>2. \A t \in Sweeps : Holds(t) \subseteq Holds(t)'
    BY <1>5, <1>7 DEF Holds
  <2>3. Safe(r) => Safe(r)'
    BY <2>2, <1>8, <1>11, SafeStays
  <2>4. trouble' <= trouble
    BY <1>3
  <2> QED
    BY <2>1, <2>3, <2>4, <1>3, <1>8, AccountKept DEF IInv, Budget, Accounts
<1>12. ASSUME NEW r \in Revision, r \in rows PROVE Accounted(r)'
  <2>1. /\ refused[r] \in Nat /\ MaxTrouble \in Nat /\ outbox[r].attempts \in Nat
        /\ IsFiniteSet(Owed(r)) /\ Cardinality(Owed(r)) \in Nat
    BY Quantities DEF IInv
  <2>2. Cardinality(Owed(r)') \in Nat
    BY QuantitiesLater DEF IInv
  <2>3. PICK n : n = outbox[r].lease + 1
    OBVIOUS
  <2>4. Owed(r)' \subseteq Owed(r) \cup {n}
    <3>1. ASSUME NEW m \in Owed(r)', m # n PROVE m \in Owed(r)
      <4>1. m \in 0 .. outbox[r].lease
        BY <3>1, <1>8, <1>12, <2>3 DEF Owed
      <4>2. PICK t \in Sweeps : \E c \in Unposted(sweeps'[t]) : c.rev = r /\ c.lease = m
        BY DEF Owed
      <4>3. t # s
        BY <4>2, <3>1, <2>3, <1>4, <1>7, <1>9
      <4>4. \E c \in Unposted(sweeps[t]) : c.rev = r /\ c.lease = m
        BY <4>2, <4>3, <1>7
      <4> QED
        BY <4>1, <4>4 DEF Owed
    <3> QED
      BY <3>1
  <2>5. /\ IsFiniteSet(Owed(r) \cup {n})
        /\ Cardinality(Owed(r) \cup {n}) \in {Cardinality(Owed(r)), Cardinality(Owed(r)) + 1}
    BY <2>1, FS_AddElement
  <2>6. Cardinality(Owed(r)') <= Cardinality(Owed(r) \cup {n})
    BY <2>4, <2>5, FS_Subset
  <2>7. Cardinality(Owed(r)') <= Cardinality(Owed(r)) + 1
    BY <2>1, <2>2, <2>5, <2>6
  <2>8. Safe(r)'
    <3>1. PICK c : c = ClaimOf(r)
      OBVIOUS
    <3>2. c.rev = r /\ c.lease = outbox[r].lease + 1 /\ c \in Holds(s)'
      BY <3>1, <1>4, <1>7, <1>10, <1>12 DEF Holds
    <3>3. Owns(c)'
      BY <3>2, <1>8, <1>12 DEF Owns
    <3>4. Held(r)'
      BY <3>2, <3>3 DEF Held
    <3> QED
      BY <3>4, <1>8, <1>12 DEF Safe
  <2>9. One(Safe(r)') = 1
    BY <2>8 DEF One
  <2>10. One(Safe(r)) = 0
    BY <1>8, <1>12 DEF One, Safe
  <2>11. refused[r] + Cardinality(Owed(r)) + trouble
              <= outbox[r].attempts + MaxTrouble + One(Safe(r))
    BY DEF Budget, Accounts, Accounted
  <2>12. refused'[r] + Cardinality(Owed(r)') + trouble'
              <= outbox'[r].attempts + MaxTrouble + One(Safe(r)')
    BY <2>1, <2>2, <2>7, <2>9, <2>10, <2>11, <1>3, <1>8
  <2> QED
    BY <2>12 DEF Accounted, One
<1>13. AttemptsLeft'
  BY <1>8 DEF Budget, AttemptsLeft, AttemptLeft
<1>14. Sparing'
  <2>1. ASSUME NEW t \in Sweeps PROVE Thrifty(sweeps'[t])
    BY <1>4, <1>7 DEF Budget, Sparing
  <2> QED
    BY <2>1 DEF Sparing, Thrifty
<1> QED
  BY <1>11, <1>12, <1>13, <1>14 DEF Budget, Accounts

\* A new row has every attempt left, and nobody in hand.
LEMMA RecordedBudget ==
    ASSUME IInv, IInv', Budget, NEW event, rev + 1 \in Revision,
           outbox' = Recorded(outbox, rev + 1, event), UNCHANGED <<refused, sweeps, trouble>>
    PROVE  Budget'
<1>1. outbox \in [Revision -> Row] /\ trouble \in Nat /\ MaxAttempts \in Nat \ {0}
  BY OutboxAssumption DEF IInv, TypeOK
<1>2. \A r \in Revision :
         \/ outbox'[r] = outbox[r]
         \/ outbox[r].status = "none" /\ outbox'[r] = PendingRow(event)
  BY <1>1 DEF Recorded
<1>3. \A t \in Sweeps : Holds(t) = Holds(t)' /\ sweeps'[t] = sweeps[t]
  BY DEF Holds
<1>4. ASSUME NEW r \in Revision, outbox'[r] = outbox[r] PROVE Accounted(r)'
  <2>1. Owed(r)' \subseteq Owed(r)
    BY <1>3, <1>4, OwesNoMore
  <2>2. Safe(r) => Safe(r)'
    BY <1>3, <1>4, SafeStays
  <2>3. trouble' <= trouble
    BY <1>1
  <2> QED
    BY <2>1, <2>2, <2>3, <1>4, AccountKept DEF IInv, Budget, Accounts
<1>5. ASSUME NEW r \in Revision, outbox[r].status = "none", outbox'[r] = PendingRow(event)
      PROVE  Accounted(r)'
  <2>1. outbox[r].attempts = 0 /\ outbox'[r].attempts = 0
    BY <1>5 DEF Budget, AttemptsLeft, AttemptLeft, PendingRow
  <2>2. ~Safe(r)
    BY <1>5 DEF Safe, Held, Owns
  <2>3. Owed(r)' \subseteq Owed(r)
    <3>1. ASSUME NEW t \in Sweeps, NEW c \in Unposted(sweeps'[t]), c.rev = r PROVE FALSE
      <4>1. c \in Holds(t)
        BY <1>3, UnpostedHeld DEF Holds
      <4>2. ClaimFine(c)
        BY <4>1 DEF IInv, ClaimsFine
      <4> QED
        BY <4>2, <3>1, <1>5 DEF ClaimFine
    <3>2. Owed(r)' = {}
      BY <3>1 DEF Owed
    <3> QED
      BY <3>2
  <2>4. trouble' <= trouble
    BY <1>1
  <2> QED
    BY <2>1, <2>2, <2>3, <2>4, AccountKept DEF IInv, Budget, Accounts
<1>6. AttemptsLeft'
  <2> SUFFICES ASSUME NEW r \in Revision PROVE AttemptLeft(r)'
    BY DEF AttemptsLeft
  <2>1. CASE outbox'[r] = outbox[r]
    BY <2>1 DEF Budget, AttemptsLeft, AttemptLeft
  <2>2. CASE outbox'[r] = PendingRow(event)
    BY <2>2, <1>1 DEF AttemptLeft, PendingRow
  <2> QED
    BY <1>2, <2>1, <2>2
<1>7. Sparing'
  BY DEF Budget, Sparing, Thrifty
<1> QED
  BY <1>2, <1>4, <1>5, <1>6, <1>7 DEF Budget, Accounts

LEMMA InitBudget == Init => Budget
<1> SUFFICES ASSUME Init PROVE Budget
  OBVIOUS
<1>1. \A s \in Sweeps : sweeps[s] = Idle /\ Unposted(sweeps[s]) = {}
  BY DEF Init, Unposted, Idle
<1>2. ASSUME NEW r \in Revision PROVE Accounted(r)
  <2>1. Owed(r) = {}
    BY <1>1 DEF Owed
  <2>2. Cardinality(Owed(r)) = 0
    BY <2>1, FS_EmptySet
  <2>3. refused[r] = 0 /\ trouble = MaxTrouble /\ outbox[r].attempts = 0 /\ MaxTrouble \in Nat
    BY OutboxAssumption DEF Init, NoRow
  <2>4. One(Safe(r)) \in Nat
    BY DEF One
  <2> QED
    BY <2>2, <2>3, <2>4 DEF Accounted
<1>3. AttemptsLeft
  BY OutboxAssumption DEF Init, NoRow, AttemptsLeft, AttemptLeft
<1>4. Sparing
  BY <1>1 DEF Sparing, Thrifty, Idle
<1> QED
  BY <1>2, <1>3, <1>4 DEF Budget, Accounts

LEMMA StutterBudget ==
    ASSUME Budget, UNCHANGED vars
    PROVE  Budget'
<1>1. \A r \in Revision : Owed(r)' = Owed(r) /\ Safe(r)' = Safe(r)
  BY DEF vars, Owed, Safe, Held, Holds, Owns
<1>2. Accounts'
  BY <1>1 DEF vars, Budget, Accounts, Accounted
<1>3. AttemptsLeft' /\ Sparing'
  BY DEF vars, Budget, AttemptsLeft, AttemptLeft, Sparing, Thrifty
<1> QED
  BY <1>2, <1>3 DEF Budget

LEMMA NextBudget == IInv /\ IInv' /\ Budget /\ [Next]_vars => Budget'
<1> SUFFICES ASSUME IInv, IInv', Budget, [Next]_vars PROVE Budget'
  OBVIOUS
<1>1. ASSUME NEW event, MoveRun(event) PROVE Budget'
  <2>1. rev + 1 \in Revision
    BY <1>1, OutboxAssumption DEF IInv, TypeOK, MoveRun, Revision
  <2> QED
    BY <1>1, <2>1, RecordedBudget DEF MoveRun
<1>2. CASE RecoverRun
  <2>1. rev + 1 \in Revision
    BY <1>2, OutboxAssumption DEF IInv, TypeOK, RecoverRun, Revision
  <2> QED
    BY <1>2, <2>1, RecordedBudget DEF RecoverRun
<1>3. ASSUME NEW s \in Sweeps, Sweep(s) PROVE Budget'
  BY <1>3, ClaimDueBudget, TakeRowBudget, PostBudget, RecordBudget, EndSweepBudget DEF Sweep
<1>4. ASSUME NEW s \in Sweeps, Crash(s) \/ RowRaises(s) PROVE Budget'
  BY <1>4, CrashBudget, RowRaisesBudget
<1>5. ASSUME NEW r \in Revision, Ripen(r) PROVE Budget'
  BY <1>5, RipenBudget
<1>6. CASE UNCHANGED vars
  BY <1>6, StutterBudget
<1> QED
  BY <1>1, <1>2, <1>3, <1>4, <1>5, <1>6 DEF Next

LEMMA BudgetBounds == IInv /\ Budget => RetriesBounded
<1> SUFFICES ASSUME IInv, Budget, NEW r \in Revision
             PROVE  refused[r] <= MaxAttempts + (MaxTrouble - trouble)
  BY DEF RetriesBounded
<1>1. /\ refused[r] \in Nat /\ trouble \in Nat /\ MaxTrouble \in Nat
      /\ outbox[r].attempts \in Nat /\ Cardinality(Owed(r)) \in Nat
  BY Quantities DEF IInv
<1>2. refused[r] + Cardinality(Owed(r)) + trouble
          <= outbox[r].attempts + MaxTrouble + One(Safe(r))
  BY DEF Budget, Accounts, Accounted
<1>3. /\ outbox[r].attempts <= MaxAttempts
      /\ outbox[r].status = "in_flight" => outbox[r].attempts < MaxAttempts
  BY DEF Budget, AttemptsLeft, AttemptLeft
<1>4. Safe(r) => outbox[r].status = "in_flight"
  BY DEF Safe, Held, Owns
<1>5. CASE Safe(r)
  <2>1. One(Safe(r)) = 1 /\ outbox[r].attempts < MaxAttempts /\ MaxAttempts \in Nat
    BY <1>3, <1>4, <1>5, OutboxAssumption DEF One
  <2> QED
    BY <2>1, <1>1, <1>2
<1>6. CASE ~Safe(r)
  <2>1. One(Safe(r)) = 0 /\ MaxAttempts \in Nat
    BY <1>6, OutboxAssumption DEF One
  <2> QED
    BY <2>1, <1>1, <1>2, <1>3
<1> QED
  BY <1>5, <1>6

\* The POSTs of an arrival that go wrong never exceed its attempts plus the sweeps
\* that died, raised or were overtaken, for any number of sweeps and any settings:
\* _finish under a lost lease writes nothing, so no attempt is handed back.
THEOREM RetriesAreBounded == Spec => []RetriesBounded
<1>1. Init => IInv /\ Budget
  BY InitInv, InitBudget
<1>2. IInv /\ IInv' /\ Budget /\ [Next]_vars => Budget'
  BY NextBudget
<1>3. IInv /\ Budget => RetriesBounded
  BY BudgetBounds
<1> QED
  BY <1>1, <1>2, <1>3, OutboxInvariant, PTL DEF Spec

-----------------------------------------------------------------------------
(* What the board's promise amounts to in the outbox. *)

\* What justifies a fate only accumulates.
LEMMA EvidenceKept ==
    ASSUME IInv, IInv', [Board!BoardNext]_(Board!board), NEW r \in Revision
    PROVE  /\ rev \in Nat /\ rev' \in Nat /\ r \in Nat /\ MaxAttempts \in Nat
           /\ refused[r] \in Nat /\ refused'[r] \in Nat
           /\ rev <= rev' /\ told \subseteq told' /\ refused[r] <= refused'[r]
<1>1. /\ rev \in Nat /\ rev' \in Nat /\ r \in Nat /\ MaxAttempts \in Nat
      /\ refused[r] \in Nat /\ refused'[r] \in Nat /\ refused \in [Revision -> Nat]
  BY OutboxAssumption DEF IInv, TypeOK, Revision
<1>2. CASE Board!Announce
  BY <1>1, <1>2 DEF Board!Announce
<1>3. CASE \E q \in Revision : Board!Send(q)
  BY <1>1, <1>3 DEF Board!Send
<1>4. CASE UNCHANGED <<rev, told, refused>>
  BY <1>1, <1>4
<1> QED
  BY <1>1, <1>2, <1>3, <1>4
     DEF Board!BoardNext, Board!Forget, Board!Tell, Board!Withdraw, Board!GiveUp, Board!Closes,
         Board!board, Board!Revision, Revision

\* What a step of the board makes of one arrival.
ArrivalMoves(r) ==
    \/ News(r)' = News(r)
    \/ r > rev /\ News(r)'.fate = "open"
    \/ /\ News(r).fate = "open" /\ News(r)'.event = News(r).event
       /\ \/ News(r)'.fate = "told" /\ r \in told
          \/ News(r)'.fate = "withdrawn" /\ News(r).event = "failed" /\ rev > r
          \/ News(r)'.fate = "abandoned" /\ refused[r] >= MaxAttempts
    \/ News(r).fate \in {"told", "withdrawn"} /\ News(r)'.fate = "gone"

\* Closing an arrival touches no other.
LEMMA ClosesOne ==
    ASSUME NEW q \in Revision, NEW fate, Board!Closes(q, fate), NEW r \in Revision
    PROVE  \/ News(r)' = News(r)
           \/ r = q /\ News(r).fate = "open" /\ News(r)'.event = News(r).event /\ News(r)'.fate = fate
BY DEF Board!Closes, Board!Revision, Revision, News

LEMMA ArrivalStep ==
    ASSUME [Board!BoardNext]_(Board!board), NEW r \in Revision
    PROVE  ArrivalMoves(r)
<1>1. CASE Board!Announce
  BY <1>1 DEF Board!Announce, Board!Revision, Revision, News, ArrivalMoves
<1>2. CASE Board!Forget
  BY <1>2 DEF Board!Forget, Board!Revision, Revision, News, ArrivalMoves
<1>3. ASSUME NEW q \in Revision, Board!Send(q) PROVE ArrivalMoves(r)
  <2>1. News(r)' = News(r)
    BY <1>3 DEF Board!Send, Board!Revision, Revision, News
  <2> QED
    BY <2>1 DEF ArrivalMoves
<1>4. ASSUME NEW q \in Revision, Board!Tell(q) PROVE ArrivalMoves(r)
  BY <1>4, ClosesOne DEF Board!Tell, ArrivalMoves
<1>5. ASSUME NEW q \in Revision, Board!Withdraw(q) PROVE ArrivalMoves(r)
  <2>1. Board!Closes(q, "withdrawn") /\ News(q).event = "failed" /\ rev > q
    BY <1>5 DEF Board!Withdraw, News, Board!Revision, Revision
  <2> QED
    BY <2>1, ClosesOne DEF ArrivalMoves
<1>6. ASSUME NEW q \in Revision, Board!GiveUp(q) PROVE ArrivalMoves(r)
  BY <1>6, ClosesOne DEF Board!GiveUp, ArrivalMoves
<1>7. CASE UNCHANGED Board!board
  <2>1. News(r)' = News(r)
    BY <1>7 DEF Board!board, Board!Revision, Revision, News
  <2> QED
    BY <2>1 DEF ArrivalMoves
<1> QED
  BY <1>1, <1>2, <1>3, <1>4, <1>5, <1>6, <1>7 DEF Board!BoardNext, Board!Revision, Revision

LEMMA FatesStep ==
    ASSUME IInv, IInv', Board!FatesEarned, [Board!BoardNext]_(Board!board)
    PROVE  Board!FatesEarned'
<1> SUFFICES ASSUME NEW r \in Revision
             PROVE  /\ News(r)'.fate = "told" => r \in told'
                    /\ News(r)'.fate = "withdrawn" => News(r)'.event = "failed" /\ rev' > r
                    /\ News(r)'.fate = "abandoned" => refused'[r] >= MaxAttempts
  BY DEF Board!FatesEarned, Board!Revision, Revision, News
<1>1. /\ rev \in Nat /\ rev' \in Nat /\ r \in Nat /\ MaxAttempts \in Nat
      /\ refused[r] \in Nat /\ refused'[r] \in Nat
      /\ rev <= rev' /\ told \subseteq told' /\ refused[r] <= refused'[r]
  BY EvidenceKept
<1>2. /\ News(r).fate = "told" => r \in told
      /\ News(r).fate = "withdrawn" => News(r).event = "failed" /\ rev > r
      /\ News(r).fate = "abandoned" => refused[r] >= MaxAttempts
  BY DEF Board!FatesEarned, Board!Revision, Revision, News
<1>3. ArrivalMoves(r)
  BY ArrivalStep
<1> HIDE DEF News
<1> QED
  BY <1>1, <1>2, <1>3 DEF ArrivalMoves

LEMMA FinalStep ==
    ASSUME IInv, [Board!BoardNext]_(Board!board)
    PROVE  Board!FatesFinal
<1> SUFFICES ASSUME NEW r \in Revision
             PROVE  /\ r <= rev /\ News(r).fate # "open" => News(r)'.fate # "open"
                    /\ News(r).fate = "abandoned" => News(r)' = News(r)
  BY DEF Board!FatesFinal, Board!Revision, Revision, News
<1>1. ArrivalMoves(r)
  BY ArrivalStep
<1>2. rev \in Nat /\ r \in Nat
  BY OutboxAssumption DEF IInv, TypeOK, Revision
<1>3. News(r).fate = "abandoned" => r <= rev
  BY DEF IInv, RowsArrived, News, FateOf
<1> QED
  BY <1>1, <1>2, <1>3 DEF ArrivalMoves

(* However sweeps overlap, die or lose answers, a row is delivered only if  *)
(* the receiver has the arrival, suppressed only if it is a failure that    *)
(* the run moved past, and dead only after notify_max_attempts POSTs of it  *)
(* went wrong.                                                              *)
THEOREM EveryFateIsEarned == Spec => []Board!FatesEarned
<1>1. Init => Board!FatesEarned
  <2>1. FateOf("none") = "gone"
    BY DEF FateOf
  <2> QED
    BY <2>1 DEF Init, NoRow, Board!FatesEarned, Board!Revision, Revision
<1>2. IInv /\ IInv' /\ Board!FatesEarned /\ [Next]_vars => Board!FatesEarned'
  BY BoardStep, FatesStep
<1> QED
  BY <1>1, <1>2, OutboxInvariant, PTL DEF Spec

(* A settled, purged or never announced arrival is never due again, and one *)
(* that was given up on keeps its row.                                      *)
THEOREM FatesStayFinal == Spec => Board!FatesAreFinal
<1>1. IInv /\ IInv' /\ [Next]_vars => [Board!FatesFinal]_(Board!board)
  BY BoardStep, FinalStep
<1> QED
  BY <1>1, OutboxInvariant, PTL DEF Spec, Board!FatesAreFinal

=============================================================================
