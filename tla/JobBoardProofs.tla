---------------------------- MODULE JobBoardProofs -----------------------------
(***************************************************************************)
(* What the promise of JobBoard amounts to, for any jobs and sources.      *)
(***************************************************************************)
EXTENDS JobBoard, TLAPS

BoardInv == BoardTypeOK /\ OneResultPerKept /\ SourcesInOrder

\* What is on the shelf after a kept job.
LEMMA ShelfGrows ==
    ASSUME BoardTypeOK, NEW j \in Job, NEW s \in Source, Keep(j, s)
    PROVE  /\ DOMAIN shelf' = DOMAIN shelf \cup {Len(shelf) + 1}
           /\ \A n \in DOMAIN shelf : shelf'[n] = shelf[n] /\ n < Len(shelf) + 1
           /\ shelf'[Len(shelf) + 1] = [job |-> j, source |-> s]
<1>1. shelf \in Seq([job : Job, source : Source])
  BY DEF BoardTypeOK
<1>2. shelf' = Append(shelf, [job |-> j, source |-> s])
  BY DEF Keep
<1>3. QED
  BY <1>1, <1>2

\* A generation names a job.
LEMMA ShelfJobs == BoardInv => \A n \in DOMAIN shelf : shelf[n].job \in Job
<1> SUFFICES ASSUME BoardInv PROVE \A n \in DOMAIN shelf : shelf[n].job \in Job
  OBVIOUS
<1> DEFINE Generation == [job : Job, source : Source]
<1>1. \A g \in Generation : g.job \in Job
  OBVIOUS
<1>2. shelf \in Seq(Generation)
  BY DEF BoardInv, BoardTypeOK
<1> HIDE DEF Generation
<1>3. \A n \in DOMAIN shelf : shelf[n] \in Generation
  BY <1>2
<1>4. QED
  BY <1>1, <1>3

\* A step keeps the types and the two promises.
LEMMA BoardStep ==
    ASSUME Source \subseteq Nat, BoardInv, [BoardNext]_bvars
    PROVE  BoardInv'
<1>1. CASE UNCHANGED bvars
  BY <1>1 DEF bvars, BoardInv, BoardTypeOK, OneResultPerKept, SourcesInOrder
<1>2. ASSUME NEW j \in Job, OpenJob(j) \/ DropJob(j) PROVE BoardInv'
  <2>1. BoardTypeOK'
    BY <1>2 DEF BoardInv, BoardTypeOK, OpenJob, DropJob
  <2>2. \A i \in Job : board'[i] = "kept" <=> board[i] = "kept"
    BY <1>2 DEF BoardInv, BoardTypeOK, OpenJob, DropJob
  <2>3. UNCHANGED shelf
    BY <1>2 DEF OpenJob, DropJob
  <2>4. \A n \in DOMAIN shelf : shelf[n].job \in Job
    BY ShelfJobs
  <2>5. OneResultPerKept'
    BY <2>2, <2>3, <2>4 DEF BoardInv, OneResultPerKept
  <2>6. SourcesInOrder'
    BY <2>3 DEF BoardInv, SourcesInOrder
  <2>7. QED
    BY <2>1, <2>5, <2>6 DEF BoardInv
<1>3. ASSUME NEW j \in Job, NEW s \in Source, Keep(j, s) PROVE BoardInv'
  <2>1. BoardTypeOK'
    BY <1>3 DEF BoardInv, BoardTypeOK, Keep
  <2>2. /\ DOMAIN shelf' = DOMAIN shelf \cup {Len(shelf) + 1}
        /\ \A n \in DOMAIN shelf : shelf'[n] = shelf[n] /\ n < Len(shelf) + 1
        /\ shelf'[Len(shelf) + 1] = [job |-> j, source |-> s]
    BY <1>3, ShelfGrows DEF BoardInv
  <2>3. /\ board[j] = "open" /\ board'[j] = "kept"
        /\ \A i \in Job : i # j => board'[i] = board[i]
    BY <1>3 DEF BoardInv, BoardTypeOK, Keep
  <2>4. \A n \in DOMAIN shelf : shelf[n].job \in Job /\ shelf[n].job # j
    BY <2>3, ShelfJobs DEF BoardInv, OneResultPerKept
  <2>5. OneResultPerKept'
    BY <2>2, <2>3, <2>4 DEF BoardInv, OneResultPerKept
  <2>6. \A n \in DOMAIN shelf : shelf[n].source <= s
    BY <1>3 DEF Keep
  <2>7. \A m, n \in DOMAIN shelf' :
            m < n => m \in DOMAIN shelf /\ (n \in DOMAIN shelf \/ n = Len(shelf) + 1)
    <3>1. Len(shelf) \in Nat /\ DOMAIN shelf = 1..Len(shelf)
      BY DEF BoardInv, BoardTypeOK
    <3>2. QED
      BY <2>2, <3>1
  <2>8. SourcesInOrder'
    BY <2>2, <2>6, <2>7 DEF BoardInv, SourcesInOrder
  <2>9. QED
    BY <2>1, <2>5, <2>8 DEF BoardInv
<1>4. QED
  BY <1>1, <1>2, <1>3 DEF BoardNext

(* Whatever keeps the promise of the board has one generation per kept     *)
(* job, none for the others, and generations in the order of the sources   *)
(* they were made from.                                                    *)
THEOREM BoardPromise ==
    ASSUME Source \subseteq Nat
    PROVE  BoardSpec => [](OneResultPerKept /\ SourcesInOrder)
<1>1. BoardInit => BoardInv
  BY DEF BoardInit, BoardInv, BoardTypeOK, OneResultPerKept, SourcesInOrder
<1>2. BoardInv /\ [BoardNext]_bvars => BoardInv'
  BY BoardStep
<1>3. BoardInv => OneResultPerKept /\ SourcesInOrder
  BY DEF BoardInv
<1>4. QED
  BY <1>1, <1>2, <1>3, PTL DEF BoardSpec
=============================================================================
