------------------------------- MODULE ReviewInv -------------------------------
(***************************************************************************)
(* The inductive invariant of Review: what a request that holds a run's    *)
(* lock has decided to write stays right until it commits, whatever        *)
(* requests for other runs, claims and curators do beside it.              *)
(***************************************************************************)
EXTENDS Review

HoldOp == {"rule", "relabel", "name", "enroll", "undo_rule", "undo_enroll", "undo_relabel",
           "wipe", "rerun"}

Begun == [at : {"begun"}, stamp : Stamp, tokens : 0 .. MaxTokens, knew : SUBSET Stamp]

Reading == [at : {"read"}, op : {"claim", "refresh", "release"}, run : Run,
            token : Token \cup {0}, by : Reviewer \cup {None}, seen : Nat]

Holder == [at : {"holding"}, op : HoldOp, run : Run, of : Stamp \cup {0},
           token : Token \cup {0}, shared : SUBSET Speaker, write : SUBSET Row,
           born : SUBSET Voice, orphans : SUBSET Speaker]

SlotsTyped == slot \in [Slot -> {Idle} \cup Begun \cup Reading \cup Holder]

\* A restart that is under way has paid for its generation.
GenerationsPaid ==
    \A r \in Run :
        /\ run[r].generation + trouble <= MaxTrouble
        /\ (\E q \in Slot : Holding(q, r) /\ slot[q].op = "wipe")
              => run[r].generation + trouble < MaxTrouble

-------------------------------------------------------------------------------
\* Rows.

RefersTo(n, r, L) == \E y \in L : y.stamp = n /\ y.run = r

RowFine(x, L) ==
    /\ x.verdict = "revoke" <=> x.stamp = 0
    /\ x.verdict = "revoke" <=> x.voids # 0
    /\ x.verdict = "revoke" => x.scope = "label" /\ x.speaker = None /\ x.undoes = 0
    /\ x.verdict = "assign" <=> x.speaker # None
    /\ x.verdict = "exclude" => x.scope = "label"
    /\ x.undoes # 0 => x.scope = "segment"
    /\ x.voids # 0 => RefersTo(x.voids, x.run, L)
    /\ x.undoes # 0 => RefersTo(x.undoes, x.run, L)
    /\ x.voids = 0 /\ x.undoes = 0 => x.key = x.stamp

RowsFine == \A x \in ledger : RowFine(x, ledger)

SameStampSameRow(L) == \A x, y \in L : x.stamp = y.stamp /\ x.stamp # 0 => x = y

\* The stamp a request has taken and not yet committed.
Uses(m, n) ==
    \/ m.at = "begun" /\ m.stamp = n
    \/ m.at = "holding" /\ \E x \in m.write : x.stamp = n

StampsTaken ==
    /\ \A x \in ledger : x.stamp <= clock
    /\ \A q \in Slot, n \in Stamp : Uses(slot[q], n) =>
          /\ n <= clock
          /\ \A x \in ledger : x.stamp # n
          /\ \A p \in Slot : Uses(slot[p], n) => p = q

KnewEarlier ==
    \A q \in Slot : slot[q].at = "begun" => \A n \in slot[q].knew : n < slot[q].stamp

-------------------------------------------------------------------------------
\* Holders.

\* What it writes is of its run, refers to committed rows and repeats none.
WritesFine(m) ==
    /\ SameStampSameRow(m.write)
    /\ \A x \in m.write :
          /\ x.run = m.run /\ RowFine(x, ledger)
          /\ x.voids # 0 => \A y \in ledger : y.voids # x.voids
          /\ x.undoes # 0 => \A y \in ledger : y.undoes # x.undoes
    /\ \A x, y \in m.write :
          /\ x.voids # 0 /\ x.voids = y.voids => x = y
          /\ x.undoes # 0 /\ x.undoes = y.undoes => x = y

\* A restart revokes all that stands; an undo, the ruling it is about.
RevokesFine(m) ==
    /\ m.op = "wipe" => \A x \in ledger :
          x.run = m.run /\ x.verdict # "revoke" /\ ~Voided(x, ledger)
              => \E y \in m.write : y.verdict = "revoke" /\ y.voids = x.stamp
    /\ m.op = "wipe" => \A x \in m.write : x.verdict = "revoke"
    /\ m.op # "wipe" => \A x \in m.write : x.verdict = "revoke" =>
          /\ m.op \in {"undo_rule", "undo_enroll"}
          /\ m.op = "undo_enroll" => x.voids = m.of
          /\ m.op = "undo_rule" => \A v \in voices : v.ruling # x.voids

\* A voice is born with its ruling.
BirthsFine(m) ==
    \A v \in m.born :
        /\ \E x \in m.write : x.stamp = v.ruling /\ x.speaker = v.speaker /\ x.run = v.run
                              /\ x.verdict = "assign" /\ x.scope = "label"
        /\ speaker[v.speaker] = "unborn"

\* Who it names is locked on the roster, or comes to it by this very commit.
NamesFine(m) ==
    /\ \A x \in m.write : x.speaker # None =>
          IF m.op = "undo_relabel" THEN speaker[x.speaker] # "unborn"
          ELSE \/ speaker[x.speaker] = "active" /\ x.speaker \in m.shared
               \/ \E v \in m.born : v.speaker = x.speaker
    /\ \A s \in m.orphans : speaker[s] # "unborn"

TokenFine(m) ==
    m.op \notin {"wipe", "rerun"} =>
        /\ Open(m.run)
        /\ IF m.op = "name" THEN ~run[m.run].claim.live ELSE run[m.run].claim.token = m.token

Fresh(m) ==
    \A x \in m.write : x.scope = "segment" => x.generation = run[x.run].generation

\* The undo it is about to commit restores what was before.
UndoFine(m) ==
    m.op # "wipe" => \A x \in ledger, y \in m.write :
        (y.undoes = x.stamp \/ y.voids = x.stamp) /\ x.verdict # "revoke"
            => \A without \in {ledger \ {x}}, undone \in {ledger \cup m.write} :
                  Shown(x.scope, x.run, undone) = Shown(x.scope, x.run, without)

HolderFine(m) ==
    /\ WritesFine(m)
    /\ RevokesFine(m)
    /\ BirthsFine(m)
    /\ NamesFine(m)
    /\ TokenFine(m)
    /\ Fresh(m)
    /\ UndoFine(m)

Requests == {slot[q] : q \in Slot}

HoldersFine == \A m \in Requests : m.at = "holding" => HolderFine(m)

\* Of two requests that enroll one name, one waits.
NamesDiffer ==
    \A p, q \in Slot : slot[p].at = "holding" /\ slot[q].at = "holding" =>
        \A v \in slot[p].born, w \in slot[q].born : v.speaker = w.speaker => p = q

\* Whoever is spoken of has been on the roster.
RosterKnows ==
    /\ \A x \in ledger : x.speaker # None => speaker[x.speaker] # "unborn"
    /\ \A v \in voices : speaker[v.speaker] # "unborn"

IInv ==
    /\ TypeOK /\ SlotsTyped /\ GenerationsPaid
    /\ RowsFine /\ SameStampSameRow(ledger) /\ StampsTaken /\ KnewEarlier
    /\ HoldersFine /\ NamesDiffer /\ RosterKnows
    /\ RuledAndUndoneOnce /\ NoRemnants
===============================================================================
