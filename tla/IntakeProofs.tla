------------------------------ MODULE IntakeProofs -----------------------------
(***************************************************************************)
(* Proofs about Intake: the inductive invariant of IntakeInv, that a       *)
(* recorded digest is the file's, and that the rows implement MediaLedger. *)
(***************************************************************************)
EXTENDS IntakeInv, TLAPS

(* A client that does nothing is typed.                                    *)
LEMMA FreeTyped == Free \in WorkType
BY IntakeAssumption DEF Free, WorkType, Doing, MaybeDigest, NoDigest

(* A step of one client to a typed state keeps the table typed.            *)
LEMMA BecomeTyped ==
    ASSUME work \in [Client -> WorkType], NEW c \in Client, NEW w \in WorkType, Become(c, w)
    PROVE  work' \in [Client -> WorkType]
BY DEF Become

(* Row makes typed rows.                                                   *)
LEMMA RowTyped ==
    ASSUME NEW runs \in Nat, NEW asked \in Nat, NEW what \in MaybeDigest, NEW sha \in MaybeDigest
    PROVE  Row(runs, asked, what, sha) \in RowType
BY DEF Row, RowType, MaybeDigest, NoDigest

(* A commit leaves typed rows.                                             *)
LEMMA CommittedTyped ==
    ASSUME TypeOK, NEW c \in Client
    PROVE  Committed(c) \in [Path -> RowType]
<1> DEFINE new(p) == Row(IF p \in work[c].minted THEN 1 ELSE 0,
                         IF p \in work[c].minted /\ Does(c, {"submit"}) THEN 1 ELSE 0,
                         work[c].what,
                         IF Does(c, {"upload"}) THEN work[c].what ELSE NoDigest)
           more(p) == [rows[p] EXCEPT !.runs = @ + 1, !.asked = @ + 1]
<1>1. work[c].what \in MaybeDigest /\ NoDigest \in MaybeDigest
  BY DEF TypeOK, WorkType, MaybeDigest
<1>2. ASSUME NEW p \in Path PROVE new(p) \in RowType
  <2> DEFINE runs == IF p \in work[c].minted THEN 1 ELSE 0
             asked == IF p \in work[c].minted /\ Does(c, {"submit"}) THEN 1 ELSE 0
             sha == IF Does(c, {"upload"}) THEN work[c].what ELSE NoDigest
  <2>1. runs \in Nat /\ asked \in Nat /\ sha \in MaybeDigest
    BY <1>1
  <2> HIDE DEF runs, asked, sha
  <2>2. Row(runs, asked, work[c].what, sha) \in RowType
    BY <1>1, <2>1, RowTyped
  <2> QED
    BY <2>2 DEF runs, asked, sha
<1>3. ASSUME NEW p \in Path PROVE rows[p] \in RowType /\ more(p) \in RowType
  <2>1. rows[p] \in RowType
    BY DEF TypeOK
  <2>2. rows[p].runs + 1 \in Nat /\ rows[p].asked + 1 \in Nat
    BY <2>1 DEF RowType
  <2> QED
    BY <2>1, <2>2 DEF RowType
<1>4. Committed(c) = [p \in Path |-> IF p \in work[c].mine THEN new(p)
                                     ELSE IF p \in work[c].minted THEN more(p) ELSE rows[p]]
  BY DEF Committed
<1> HIDE DEF new, more
<1> QED
  BY <1>2, <1>3, <1>4

(* Every variable has its type at first,                                   *)
LEMMA TypeInit == ASSUME Init PROVE TypeOK
<1>1. work \in [Client -> WorkType]
  BY FreeTyped DEF Init
<1>2. files \in [Path -> FileType]
  BY DEF Init, FileType, MediaState, SidecarState, Lying, Nothing
<1>3. env \in [ops : Nat, trouble : Nat, late : BOOLEAN]
  BY IntakeAssumption DEF Init
<1>4. rows \in [Path -> RowType]
  BY DEF Init, NoRow, Row, RowType, MaybeDigest, NoDigest
<1>5. fetch \in FetchType
  BY DEF Init, Stopped, FetchType
<1> QED
  BY <1>1, <1>2, <1>3, <1>4, <1>5 DEF Init, TypeOK, MaybeDigest, NoDigest

(* What every client step leaves typed besides its own program state.      *)
LEMMA AroundTyped ==
    ASSUME TypeOK
    PROVE  /\ Ask => env' \in [ops : Nat, trouble : Nat, late : BOOLEAN]
           /\ GoWrong => env' \in [ops : Nat, trouble : Nat, late : BOOLEAN]
           /\ Ask \/ GoWrong => env'.late = env.late
BY DEF TypeOK, Ask, GoWrong

(* and keeps it in every step; PlaceInv types the digest of a download.    *)
LEMMA TypeStep == ASSUME TypeOK, PlaceInv, Next PROVE TypeOK'
<1> USE DEF vars
<1>t. TypeOK
  OBVIOUS
<1>w. work \in [Client -> WorkType] /\ NoDigest \in MaybeDigest
  BY DEF TypeOK, MaybeDigest
<1>c. \A c \in Client : work[c] \in WorkType
  BY <1>w
<1>1. ASSUME NEW c \in Client, SweepScan(c) PROVE TypeOK'
  <2> PICK settled \in SUBSET Path : Become(c, [Free EXCEPT !.doing = "sweep", !.pc = "next", !.todo = settled])
    BY <1>1 DEF SweepScan, Listed, NetNew
  <2>1. [Free EXCEPT !.doing = "sweep", !.pc = "next", !.todo = settled] \in WorkType
    BY FreeTyped DEF WorkType, Doing
  <2>2. work' \in [Client -> WorkType]
    BY <1>w, <2>1, BecomeTyped
  <2> QED
    BY <1>1, <2>2 DEF SweepScan, TypeOK
<1>2. ASSUME NEW c \in Client, ConfirmScan(c) PROVE TypeOK'
  <2> PICK listed \in SUBSET Path : Become(c, [Free EXCEPT !.doing = "confirm", !.pc = "next", !.todo = listed])
    BY <1>2 DEF ConfirmScan, Capped, NetNew
  <2>1. [Free EXCEPT !.doing = "confirm", !.pc = "next", !.todo = listed] \in WorkType
    BY FreeTyped DEF WorkType, Doing
  <2>2. work' \in [Client -> WorkType]
    BY <1>w, <2>1, BecomeTyped
  <2> QED
    BY <1>2, <2>2, AroundTyped DEF ConfirmScan, TypeOK
<1>3. ASSUME NEW c \in Client, NEW p \in Path, SubmitPath(c, p) PROVE TypeOK'
  <2>1. [Free EXCEPT !.doing = "submit", !.pc = "next", !.todo = {p}] \in WorkType
    BY FreeTyped DEF WorkType, Doing
  <2>2. work' \in [Client -> WorkType]
    BY <1>3, <1>w, <2>1, BecomeTyped DEF SubmitPath
  <2> QED
    BY <1>3, <2>2, AroundTyped DEF SubmitPath, TypeOK
<1>4. ASSUME NEW c \in Client, NEW p \in Path, TakeNext(c, p) PROVE TypeOK'
  <2>1. [work[c] EXCEPT !.todo = @ \ {p}, !.at = p,
            !.pc = IF Does(c, {"sweep"}) /\ ~SidecarReady(p) THEN "next" ELSE "insert"] \in WorkType
    BY <1>c, Zenon DEF WorkType
  <2>2. work' \in [Client -> WorkType]
    BY <1>4, <1>w, <2>1, BecomeTyped DEF TakeNext
  <2> QED
    BY <1>4, <2>2 DEF TakeNext, TypeOK
<1>5. ASSUME NEW c \in Client, EndOfBatch(c) PROVE TypeOK'
  <2>1. [work[c] EXCEPT !.todo = {}, !.pc = "commit"] \in WorkType
    BY <1>c DEF WorkType
  <2>2. work' \in [Client -> WorkType]
    BY <1>5, <1>w, <2>1, BecomeTyped DEF EndOfBatch
  <2> QED
    BY <1>5, <2>2 DEF EndOfBatch, TypeOK
<1>6. ASSUME NEW c \in Client, NEW p \in Path
      PROVE  AfterKnown(c, p) \in WorkType /\ AfterInsert(c, p) \in WorkType
  <2>1. /\ [work[c] EXCEPT !.pc = "next"] \in WorkType
        /\ [work[c] EXCEPT !.pc = "next", !.minted = @ \cup {p}] \in WorkType
        /\ [work[c] EXCEPT !.pc = "next", !.mine = @ \cup {p}] \in WorkType
        /\ [work[c] EXCEPT !.pc = "next", !.mine = @ \cup {p}, !.minted = @ \cup {p}] \in WorkType
    BY <1>c, Zenon DEF WorkType
  <2> QED
    BY <2>1, FreeTyped DEF AfterKnown, AfterInsert
<1>7. ASSUME NEW c \in Client, InsertRow(c) PROVE TypeOK'
  <2>1. work[c].at \in Path
    BY <1>c DEF WorkType
  <2>2. work' \in [Client -> WorkType]
    BY <1>7, <1>w, <1>6, <2>1, BecomeTyped DEF InsertRow
  <2> QED
    BY <1>7, <2>2 DEF InsertRow, TypeOK
<1>8. ASSUME NEW c \in Client, DeadlockVictim(c) PROVE TypeOK'
  <2> PICK d \in Client : work' = [work EXCEPT ![c] = Free, ![d] = AfterInsert(d, work[d].at)]
    BY <1>8 DEF DeadlockVictim
  <2>1. work[d].at \in Path
    BY <1>c DEF WorkType
  <2>2. work' \in [Client -> WorkType]
    BY <1>w, <1>6, <2>1, FreeTyped
  <2> QED
    BY <1>8, <2>2 DEF DeadlockVictim, TypeOK
<1>9. ASSUME NEW c \in Client, NEW d \in Digest, Post(c, d) PROVE TypeOK'
  <2>1. [Free EXCEPT !.doing = IF way = "upload" THEN "upload" ELSE "paste",
                     !.pc = "claim", !.what = d] \in WorkType
    BY FreeTyped DEF WorkType, Doing, MaybeDigest
  <2>2. work' \in [Client -> WorkType]
    BY <1>9, <1>w, <2>1, BecomeTyped DEF Post
  <2> QED
    BY <1>9, <2>2, AroundTyped DEF Post, TypeOK
<1>10. ASSUME NEW c \in Client, ClaimForm(c) PROVE TypeOK'
  <2>1. [work[c] EXCEPT !.mine = {Form}, !.minted = {Form},
            !.pc = IF Does(c, {"upload"}) THEN "replace" ELSE "commit"] \in WorkType
    BY <1>c, IntakeAssumption, Zenon DEF WorkType
  <2>2. work' \in [Client -> WorkType]
    BY <1>10, <1>w, <2>1, BecomeTyped, FreeTyped DEF ClaimForm, Leave
  <2> QED
    BY <1>10, <2>2 DEF ClaimForm, Replayed, TypeOK
<1>11. ASSUME NEW c \in Client, ReplaceFile(c) PROVE TypeOK'
  <2>1. [work[c] EXCEPT !.pc = "commit"] \in WorkType /\ work[c].what \in MaybeDigest
    BY <1>c DEF WorkType
  <2>2. work' \in [Client -> WorkType]
    BY <1>11, <1>w, <2>1, BecomeTyped, FreeTyped DEF ReplaceFile, Leave
  <2>3. env' \in [ops : Nat, trouble : Nat, late : BOOLEAN]
    BY <1>11 DEF ReplaceFile, TypeOK
  <2> QED
    BY <1>11, <2>1, <2>2, <2>3 DEF ReplaceFile, TypeOK
<1>12. ASSUME NEW c \in Client, Sever(c) PROVE TypeOK'
  <2>1. [work[c] EXCEPT !.mine = {}, !.minted = {}] \in WorkType
    BY <1>c DEF WorkType
  <2>2. work' \in [Client -> WorkType]
    BY <1>12, <1>w, <2>1, BecomeTyped DEF Sever
  <2> QED
    BY <1>12, <2>2, AroundTyped DEF Sever, TypeOK
<1>13. ASSUME NEW c \in Client, Commit(c) PROVE TypeOK'
  <2>1. work' \in [Client -> WorkType]
    BY <1>13, <1>w, BecomeTyped, FreeTyped DEF Commit, Leave
  <2>2. fetch' \in FetchType
    BY <1>13 DEF Commit, TypeOK, FetchType
  <2>3. rows' \in [Path -> RowType]
    BY <1>13, CommittedTyped DEF Commit
  <2> QED
    BY <1>13, <2>1, <2>2, <2>3 DEF Commit, TypeOK
<1>14. ASSUME NEW c \in Client, Attempt(c) PROVE TypeOK'
  <2>1. [Free EXCEPT !.doing = "acquire", !.pc = "download"] \in WorkType
    BY FreeTyped DEF WorkType, Doing
  <2>2. (IF rows[Form].sha = NoDigest THEN disk ELSE rows[Form].sha) \in MaybeDigest
    BY IntakeAssumption DEF TypeOK, RowType
  <2>3. [Free EXCEPT !.doing = "acquire", !.pc = "describe",
            !.sha = IF rows[Form].sha = NoDigest THEN disk ELSE rows[Form].sha] \in WorkType
    BY <2>2, FreeTyped DEF WorkType, Doing
  <2>4. work' \in [Client -> WorkType]
    BY <1>14, <1>w, <2>1, <2>3, BecomeTyped DEF Attempt
  <2>5. fetch' \in FetchType
    BY <1>14 DEF Attempt, Running, FetchType
  <2> QED
    BY <1>14, <2>4, <2>5 DEF Attempt, TypeOK
<1>15. ASSUME NEW c \in Client, NEW d \in Digest, Download(c, d) PROVE TypeOK'
  <2> PICK info \in BOOLEAN : Become(c, [work[c] EXCEPT !.pc = "publish", !.what = d, !.info = info])
    BY <1>15 DEF Download
  <2>1. [work[c] EXCEPT !.pc = "publish", !.what = d, !.info = info] \in WorkType
    BY <1>c, Zenon DEF WorkType, MaybeDigest
  <2>2. work' \in [Client -> WorkType]
    BY <1>w, <2>1, BecomeTyped
  <2> QED
    BY <1>15, <2>2 DEF Download, TypeOK
<1>16. ASSUME NEW c \in Client, PublishInfo(c), PlaceInv PROVE TypeOK'
  <2>1. [work[c] EXCEPT !.pc = "link"] \in WorkType
    BY <1>c DEF WorkType
  <2>3. work[c].what \in Digest
    BY <1>16 DEF PublishInfo, PlaceInv, PlaceOf, At
  <2>2. work' \in [Client -> WorkType]
    BY <1>16, <1>w, <2>1, BecomeTyped DEF PublishInfo
  <2> QED
    BY <1>16, <2>2, <2>3 DEF PublishInfo, TypeOK
<1>17. ASSUME NEW c \in Client, LinkFile(c) PROVE TypeOK'
  <2>a. work[c].what \in MaybeDigest
    BY <1>c DEF WorkType
  <2>b. disk \in MaybeDigest
    BY DEF TypeOK
  <2>1. Linked(c) \in MaybeDigest
    BY <2>a, <2>b DEF Linked
  <2>2. [work[c] EXCEPT !.pc = "describe", !.sha = Linked(c)] \in WorkType
    BY <1>c, <2>1, Zenon DEF WorkType
  <2>3. work' \in [Client -> WorkType]
    BY <1>17, <1>w, <2>2, BecomeTyped DEF LinkFile
  <2> QED
    BY <1>17, <2>1, <2>3 DEF LinkFile, TypeOK
<1>18. ASSUME NEW c \in Client, Describe(c) PROVE TypeOK'
  <2> DEFINE meta == IF rows[Form].meta = NoDigest /\ work[c].sha \in beside
                     THEN work[c].sha ELSE rows[Form].meta
  <2>a. work[c].sha \in MaybeDigest
    BY <1>c DEF WorkType
  <2>b. rows[Form].meta \in MaybeDigest
    BY IntakeAssumption DEF TypeOK, RowType
  <2>1. meta \in MaybeDigest
    BY <2>a, <2>b
  <2>2. Become(c, [work[c] EXCEPT !.pc = "save", !.meta = meta])
    BY <1>18 DEF Describe
  <2> HIDE DEF meta
  <2>3. [work[c] EXCEPT !.pc = "save", !.meta = meta] \in WorkType
    BY <1>c, <2>1, Zenon DEF WorkType
  <2>4. work' \in [Client -> WorkType]
    BY <1>w, <2>2, <2>3, BecomeTyped
  <2> QED
    BY <1>18, <2>4 DEF Describe, TypeOK
<1>19. ASSUME NEW c \in Client, Save(c) PROVE TypeOK'
  <2>1. work' \in [Client -> WorkType]
    BY <1>19, <1>w, BecomeTyped, FreeTyped DEF Save, Leave
  <2>2. work[c].sha \in MaybeDigest /\ work[c].meta \in MaybeDigest
    BY <1>c DEF WorkType
  <2>3. rows' \in [Path -> RowType]
    BY <1>19, <2>2, IntakeAssumption DEF Save, TypeOK, RowType
  <2>4. fetch' \in FetchType
    BY <1>19 DEF Save, TypeOK, FetchType, Stopped
  <2> QED
    BY <1>19, <2>1, <2>3, <2>4 DEF Save, TypeOK
<1>20. ASSUME NEW c \in Client, FailAttempt(c) PROVE TypeOK'
  <2>1. work' \in [Client -> WorkType]
    BY <1>20, <1>w, BecomeTyped, FreeTyped DEF FailAttempt, Leave
  <2>2. fetch' \in FetchType
    BY <1>20 DEF FailAttempt, TypeOK, FetchType, Stopped
  <2>3. env' \in [ops : Nat, trouble : Nat, late : BOOLEAN]
    BY <1>20, AroundTyped DEF FailAttempt, TypeOK
  <2> QED
    BY <1>20, <2>1, <2>2, <2>3 DEF FailAttempt, TypeOK
<1>21. ASSUME NEW p \in Path, Settle(p) PROVE TypeOK'
  <2>1. files' \in [Path -> FileType]
    BY <1>21 DEF Settle, TypeOK, FileType, MediaState, SidecarState
  <2> QED
    BY <1>21, <2>1 DEF Settle, TypeOK
<1>22. ASSUME NEW p \in Path, Change(p) PROVE TypeOK'
  <2>1. files' \in [Path -> FileType]
    BY <1>22 DEF Change, TypeOK, FileType, MediaState, SidecarState
  <2> QED
    BY <1>22, <2>1, AroundTyped DEF Change, TypeOK
<1>23. ASSUME ToggleWatching PROVE TypeOK'
  BY <1>23, AroundTyped DEF ToggleWatching, TypeOK
<1>24. ASSUME LeaseExpires PROVE TypeOK'
  <2>1. fetch' \in FetchType
    BY <1>24 DEF LeaseExpires, FetchType, Stopped
  <2>2. env' \in [ops : Nat, trouble : Nat, late : BOOLEAN]
    BY <1>24, AroundTyped DEF LeaseExpires, TypeOK
  <2> QED
    BY <1>24, <2>1, <2>2 DEF LeaseExpires, TypeOK
<1>25. ASSUME FetchAgain PROVE TypeOK'
  <2>1. fetch' \in FetchType
    BY <1>25 DEF FetchAgain, FetchType, Stopped
  <2> QED
    BY <1>25, <2>1, AroundTyped DEF FetchAgain, TypeOK
<1>26. ASSUME NEW c \in Client, Die(c) PROVE TypeOK'
  <2>1. work' \in [Client -> WorkType]
    BY <1>26, <1>w, BecomeTyped, FreeTyped DEF Die, Leave
  <2> QED
    BY <1>26, <2>1, AroundTyped DEF Die, TypeOK
<1>27. ASSUME ApiDies PROVE TypeOK'
  <2>1. work' \in [Client -> WorkType]
    BY <1>27, <1>w, FreeTyped DEF ApiDies
  <2> QED
    BY <1>27, <2>1, AroundTyped DEF ApiDies, TypeOK
<1>28. ASSUME ApiStarts PROVE TypeOK'
  <2>1. ASSUME NEW c \in Client
        PROVE  work[c] \in WorkType /\ [work[c] EXCEPT !.swept = TRUE] \in WorkType
    BY <1>c DEF WorkType
  <2>2. work' \in [Client -> WorkType]
    BY <1>28, <2>1 DEF ApiStarts
  <2> QED
    BY <1>28, <1>w, <2>2 DEF ApiStarts, TypeOK
<1>29. ASSUME Rest PROVE TypeOK'
  BY <1>29 DEF Rest, TypeOK
<1> QED
  BY <1>1, <1>2, <1>3, <1>4, <1>5, <1>7, <1>8, <1>9, <1>10, <1>11, <1>12, <1>13, <1>14, <1>15,
     <1>16, <1>17, <1>18, <1>19, <1>20, <1>21, <1>22, <1>23, <1>24, <1>25, <1>26, <1>27, <1>28,
     <1>29 DEF Next, Begin, Step, Around

-----------------------------------------------------------------------------
(* What one client's step must show for each part of the invariant.        *)

Steady == way' = way /\ serving' = serving

(* PlaceInv: the new state fits its place in the code.                     *)
LEMMA PlaceUpdate ==
    ASSUME TypeOK, PlaceInv, NEW c \in Client, NEW w, Become(c, w), Steady, PlaceOf(w)
    PROVE  PlaceInv'
<1> SUFFICES ASSUME NEW d \in Client PROVE PlaceOf(work[d])'
  BY DEF PlaceInv
<1>1. work'[d] = IF d = c THEN w ELSE work[d]
  BY DEF Become, TypeOK
<1>2. PlaceOf(work[d])
  BY DEF PlaceInv
<1> QED
  BY <1>1, <1>2 DEF PlaceOf, Steady

(* A client that does nothing fits.                                        *)
LEMMA PlaceOfFree == PlaceOf(Free)
BY DEF PlaceOf, Free, Folders, Attempting, Console

MineFresh(c, w) ==
    \A p \in Path : p \in w.mine /\ p \notin work[c].mine => ~Known(p) /\ ~Waits(c, p)

MintedRight(w) ==
    \A p \in Path : p \in w.minted /\ p \notin w.mine => Known(p) /\ w.doing = "submit"

(* InsertInv: what is inserted was free, what is minted was right.         *)
LEMMA InsertUpdate ==
    ASSUME TypeOK, InsertInv, NEW c \in Client, NEW w, Become(c, w), rows' = rows,
           MineFresh(c, w), MintedRight(w)
    PROVE  InsertInv'
<1>1. \A d \in Client : work'[d] = IF d = c THEN w ELSE work[d]
  BY DEF Become, TypeOK
<1>2. ASSUME NEW d \in Client, NEW p \in Path
      PROVE  /\ p \in work'[d].mine => ~Known(p)'
             /\ p \in work'[d].minted /\ p \notin work'[d].mine
                  => Known(p)' /\ Does(d, {"submit"})'
  BY <1>1, <1>2 DEF InsertInv, MineFresh, MintedRight, Known, Does
<1>3. ASSUME NEW d \in Client, NEW e \in Client, NEW p \in Path,
             p \in work'[d].mine, p \in work'[e].mine
      PROVE  d = e
  BY <1>1, <1>3 DEF InsertInv, MineFresh, Waits, Blocks
<1> QED
  BY <1>2, <1>3 DEF InsertInv

BytesOf(w) ==
    /\ w.pc = "commit" /\ w.doing = "upload" => disk = w.what \/ env.late
    /\ w.doing = "acquire" => Known(Form)
    /\ w.pc \in {"describe", "save"} => w.sha = disk /\ disk # NoDigest
    /\ w.pc = "save" =>
        /\ w.meta \in {NoDigest, w.sha}
        /\ rows[Form].meta \in {NoDigest, w.meta}

OneSaver(c, w) == w.pc = "save" => \A d \in Client \ {c} : ~At(d, "save")

SameBytes == rows' = rows /\ disk' = disk /\ env'.late = env.late

(* BytesInv, by a step that leaves rows and file alone.                    *)
LEMMA BytesUpdate ==
    ASSUME TypeOK, BytesInv, NEW c \in Client, NEW w, Become(c, w), Steady, SameBytes,
           BytesOf(w), OneSaver(c, w),
           fetch'.state = "none" \/ fetch.state # "none"
    PROVE  BytesInv'
<1>1. \A d \in Client : work'[d] = IF d = c THEN w ELSE work[d]
  BY DEF Become, TypeOK
<1>2. RowDescribesBytes'
  BY DEF BytesInv, RowDescribesBytes, SameBytes, Known
<1>3. ASSUME NEW d \in Client
      PROVE  /\ (At(d, "commit") /\ Does(d, {"upload"}))' => disk' = work'[d].what \/ env'.late
             /\ Does(d, {"acquire"})' => Known(Form)'
             /\ (At(d, "describe") \/ At(d, "save"))' => work'[d].sha = disk' /\ disk' # NoDigest
             /\ At(d, "save")' =>
                 /\ work'[d].meta \in {NoDigest, work'[d].sha}
                 /\ rows'[Form].meta \in {NoDigest, work'[d].meta}
  BY <1>1 DEF BytesInv, BytesOf, SameBytes, Known, At, Does
<1>4. ASSUME NEW d \in Client, NEW e \in Client, At(d, "save")', At(e, "save")'
      PROVE  d = e
  BY <1>1, <1>4 DEF BytesInv, OneSaver, At
<1>5. /\ fetch'.state # "none" => Known(Form)' /\ way' = "url"
      /\ way' = "url" => ~env'.late
      /\ way' = "url" /\ ~Known(Form)' => disk' = NoDigest
  BY DEF BytesInv, SameBytes, Steady, Known
<1> QED
  BY <1>2, <1>3, <1>4, <1>5 DEF BytesInv

(* To give everything up breaks nothing.                                   *)
LEMMA FreeFits == ASSUME NEW c \in Client
                  PROVE  MineFresh(c, Free) /\ MintedRight(Free) /\ BytesOf(Free) /\ OneSaver(c, Free)
BY DEF MineFresh, MintedRight, BytesOf, OneSaver, Free

(* RowsInv is about the rows alone.                                        *)
LEMMA SameRows == ASSUME RowsInv, rows' = rows PROVE RowsInv'
BY DEF RowsInv, Known

Core == PlaceInv /\ InsertInv /\ RowsInv /\ BytesInv

Suits(c, w) == PlaceOf(w) /\ MintedRight(w) /\ BytesOf(w) /\ OneSaver(c, w)

Fits(c, w) == Suits(c, w) /\ MineFresh(c, w)

(* The four parts together, by such a step.                                *)
LEMMA CoreUpdate ==
    ASSUME TypeOK, Core, NEW c \in Client, NEW w, Become(c, w), Steady, SameBytes, Fits(c, w),
           fetch'.state = "none" \/ fetch.state # "none"
    PROVE  Core'
BY PlaceUpdate, InsertUpdate, BytesUpdate, SameRows DEF Core, Fits, Suits, SameBytes

(* What the invariant says of one client.                                  *)
LEMMA OfClient ==
    ASSUME TypeOK, Core, NEW c \in Client
    PROVE  /\ PlaceOf(work[c])
           /\ Fits(c, work[c])
<1>1. PlaceOf(work[c])
  BY DEF Core, PlaceInv
<1>2. MineFresh(c, work[c])
  BY DEF MineFresh
<1>3. MintedRight(work[c])
  BY DEF Core, InsertInv, MintedRight, Does
<1>4. BytesOf(work[c])
  BY DEF Core, BytesInv, BytesOf, At, Does
<1>5. OneSaver(c, work[c])
  BY DEF Core, BytesInv, OneSaver, At
<1> QED
  BY <1>1, <1>2, <1>3, <1>4, <1>5 DEF Fits, Suits

(* The loop goes on after an insert: what the client's transaction holds   *)
(* has grown by the path it was at, or not.                                *)
Grown(c, w) ==
    /\ w.pc = "next" /\ w.doing = work[c].doing /\ w.what = work[c].what
    /\ w.todo = work[c].todo
    /\ w.mine \in {work[c].mine, work[c].mine \cup {work[c].at}}
    /\ w.minted \in {work[c].minted, work[c].minted \cup {work[c].at}}
    /\ w.mine # work[c].mine => ~Known(work[c].at)
    /\ work[c].at \in w.minted /\ work[c].at \notin w.mine
          => Known(work[c].at) /\ work[c].doing = "submit"

LEMMA GrownSuits ==
    ASSUME TypeOK, Core, NEW c \in Client, NEW w, work[c].pc = "insert", Grown(c, w)
    PROVE  Suits(c, w)
<1>c. PlaceOf(work[c]) /\ Fits(c, work[c]) /\ work[c].at \in Path /\ work[c].doing \in Folders
  BY OfClient DEF TypeOK, WorkType, PlaceOf
<1>1. PlaceOf(w)
  <2>1. ASSUME w.doing = "submit"
        PROVE  \E q \in Path :
                  /\ w.todo \cup w.mine \cup w.minted \subseteq {q}
                  /\ w.todo # {} => w.mine = {} /\ w.minted = {}
    BY <1>c, <2>1 DEF PlaceOf, Grown
  <2> QED
    BY <1>c, <2>1 DEF PlaceOf, Grown, Folders, Attempting, Console
<1>3. MintedRight(w)
  BY <1>c DEF Fits, Suits, MintedRight, Grown
<1>4. BytesOf(w) /\ OneSaver(c, w)
  BY <1>c DEF BytesOf, OneSaver, Grown, Folders
<1> QED
  BY <1>1, <1>3, <1>4 DEF Suits

(* Where the insert of a client leads: everything is given up, or grows.   *)
LEMMA AfterGrows ==
    ASSUME TypeOK, Core, NEW c \in Client, work[c].pc = "insert", NEW w, w # Free,
           \/ Known(work[c].at) /\ w = AfterKnown(c, work[c].at)
           \/ ~Known(work[c].at) /\ w = AfterInsert(c, work[c].at)
    PROVE  Grown(c, w)
<1> DEFINE r == work[c]
           p == r.at
           go == [r EXCEPT !.pc = "next"]
           ran == [r EXCEPT !.pc = "next", !.minted = @ \cup {p}]
           put == [r EXCEPT !.pc = "next", !.mine = @ \cup {p}]
           both == [r EXCEPT !.pc = "next", !.mine = @ \cup {p}, !.minted = @ \cup {p}]
<1>c. r \in WorkType /\ p \in Path /\ MintedRight(r)
  BY OfClient DEF TypeOK, Fits, Suits, WorkType
<1>1. /\ go.pc = "next" /\ go.doing = r.doing /\ go.what = r.what /\ go.todo = r.todo
      /\ go.mine = r.mine /\ go.minted = r.minted
  BY <1>c DEF WorkType
<1>2. /\ ran.pc = "next" /\ ran.doing = r.doing /\ ran.what = r.what /\ ran.todo = r.todo
      /\ ran.mine = r.mine /\ ran.minted = r.minted \cup {p}
  BY <1>c DEF WorkType
<1>3. /\ put.pc = "next" /\ put.doing = r.doing /\ put.what = r.what /\ put.todo = r.todo
      /\ put.mine = r.mine \cup {p} /\ put.minted = r.minted
  BY <1>c DEF WorkType
<1>4. /\ both.pc = "next" /\ both.doing = r.doing /\ both.what = r.what /\ both.todo = r.todo
      /\ both.mine = r.mine \cup {p} /\ both.minted = r.minted \cup {p}
  BY <1>c DEF WorkType
<1>5. \/ w = go /\ Known(p)
      \/ w = ran /\ Known(p) /\ r.doing = "submit"
      \/ w = put /\ ~Known(p)
      \/ w = both /\ ~Known(p)
  BY DEF AfterKnown, AfterInsert, Does
<1> HIDE DEF go, ran, put, both
<1> QED
  BY <1>c, <1>1, <1>2, <1>3, <1>4, <1>5 DEF Grown, MintedRight

(* The folder's clients.                                                   *)
LEMMA FolderStep ==
    ASSUME TypeOK, Core, NEW c \in Client,
           \/ SweepScan(c) \/ ConfirmScan(c) \/ EndOfBatch(c) \/ InsertRow(c)
           \/ \E p \in Path : SubmitPath(c, p) \/ TakeNext(c, p)
    PROVE  Core'
<1>c. PlaceOf(work[c]) /\ Fits(c, work[c]) /\ work[c] \in WorkType
  BY OfClient DEF TypeOK
<1>1. ASSUME SweepScan(c) PROVE Core'
  <2> PICK settled \in SUBSET Path :
        Become(c, [Free EXCEPT !.doing = "sweep", !.pc = "next", !.todo = settled])
    BY <1>1 DEF SweepScan, Listed, NetNew
  <2> DEFINE w == [Free EXCEPT !.doing = "sweep", !.pc = "next", !.todo = settled]
  <2>1. Fits(c, w)
    BY <1>1 DEF SweepScan, Fits, Suits, PlaceOf, MineFresh, MintedRight, BytesOf, OneSaver, Free, Folders,
                Attempting, Console
  <2> QED
    BY <1>1, <2>1, CoreUpdate DEF SweepScan, Steady, SameBytes
<1>2. ASSUME ConfirmScan(c) PROVE Core'
  <2> PICK listed \in SUBSET Path :
        Become(c, [Free EXCEPT !.doing = "confirm", !.pc = "next", !.todo = listed])
    BY <1>2 DEF ConfirmScan, Capped, NetNew
  <2> DEFINE w == [Free EXCEPT !.doing = "confirm", !.pc = "next", !.todo = listed]
  <2>1. Fits(c, w)
    BY <1>2 DEF ConfirmScan, Fits, Suits, PlaceOf, MineFresh, MintedRight, BytesOf, OneSaver, Free, Folders,
                Attempting, Console
  <2> QED
    BY <1>2, <2>1, CoreUpdate, AroundTyped DEF ConfirmScan, Steady, SameBytes
<1>3. ASSUME NEW p \in Path, SubmitPath(c, p) PROVE Core'
  <2> DEFINE w == [Free EXCEPT !.doing = "submit", !.pc = "next", !.todo = {p}]
  <2>1. Fits(c, w)
    BY <1>3 DEF SubmitPath, Fits, Suits, PlaceOf, MineFresh, MintedRight, BytesOf, OneSaver, Free, Folders,
                Attempting, Console
  <2> QED
    BY <1>3, <2>1, CoreUpdate, AroundTyped DEF SubmitPath, Steady, SameBytes
<1>4. ASSUME NEW p \in Path, TakeNext(c, p) PROVE Core'
  <2> DEFINE pc == IF Does(c, {"sweep"}) /\ ~SidecarReady(p) THEN "next" ELSE "insert"
             w == [work[c] EXCEPT !.todo = @ \ {p}, !.at = p, !.pc = pc]
  <2>1. pc \in {"next", "insert"} /\ (work[c].doing = "submit" => pc = "insert")
    BY Zenon DEF Does
  <2>2. p \in work[c].todo /\ work[c].pc = "next" /\ work[c].doing \in Folders
    BY <1>4, <1>c DEF TakeNext, At, PlaceOf
  <2> HIDE DEF pc
  <2>3. PlaceOf(w)
    BY <1>c, <2>1, <2>2 DEF PlaceOf, Folders, Attempting, Console, WorkType
  <2>4. Fits(c, w)
    BY <1>c, <2>1, <2>2, <2>3 DEF Fits, Suits, MineFresh, MintedRight, BytesOf, OneSaver, WorkType, Folders
  <2> QED
    BY <1>4, <2>4, CoreUpdate DEF TakeNext, Steady, SameBytes, pc
<1>5. ASSUME EndOfBatch(c) PROVE Core'
  <2> DEFINE w == [work[c] EXCEPT !.todo = {}, !.pc = "commit"]
  <2>1. work[c].pc = "next" /\ work[c].doing \in Folders
    BY <1>5, <1>c DEF EndOfBatch, At, PlaceOf
  <2>2. PlaceOf(w)
    BY <1>c, <2>1 DEF PlaceOf, Folders, Attempting, Console, WorkType
  <2>3. Fits(c, w)
    BY <1>c, <2>1, <2>2 DEF Fits, Suits, MineFresh, MintedRight, BytesOf, OneSaver, WorkType, Folders
  <2> QED
    BY <1>5, <2>3, CoreUpdate DEF EndOfBatch, Steady, SameBytes
<1>6. ASSUME InsertRow(c) PROVE Core'
  <2> DEFINE p == work[c].at
             w == IF Known(p) THEN AfterKnown(c, p) ELSE AfterInsert(c, p)
  <2>1. /\ work[c].pc = "insert" /\ work[c].doing \in Folders /\ p \in Path
        /\ Become(c, w)
    BY <1>6, <1>c DEF InsertRow, At, PlaceOf, WorkType
  <2>2. w = Free \/ Grown(c, w)
    BY <2>1, AfterGrows
  <2>3. ASSUME Grown(c, w) PROVE Fits(c, w)
    <3>1. Suits(c, w)
      BY <2>1, <2>3, GrownSuits
    <3>2. MineFresh(c, w)
      BY <1>6, <2>3 DEF MineFresh, Grown, InsertRow
    <3> QED
      BY <3>1, <3>2 DEF Fits
  <2>4. Fits(c, w)
    BY <2>2, <2>3, FreeFits, PlaceOfFree DEF Fits, Suits
  <2> QED
    BY <1>6, <2>1, <2>4, CoreUpdate DEF InsertRow, Steady, SameBytes
<1> QED
  BY <1>1, <1>2, <1>3, <1>4, <1>5, <1>6

(* One of two that wait for each other gives everything up, the other's    *)
(* insert goes through.                                                    *)
LEMMA DeadlockStep == ASSUME TypeOK, Core, NEW c \in Client, DeadlockVictim(c) PROVE Core'
<1> PICK d \in Client :
      /\ Blocks(d, c, work[c].at)
      /\ At(d, "insert") /\ Blocks(c, d, work[d].at)
      /\ work' = [work EXCEPT ![c] = Free, ![d] = AfterInsert(d, work[d].at)]
  BY DEF DeadlockVictim
<1> DEFINE p == work[d].at
           w == AfterInsert(d, p)
<1>1. /\ c # d /\ p \in work[c].mine /\ p \in Path /\ work[d].pc = "insert"
      /\ ~Known(p)
  BY DEF Blocks, At, TypeOK, WorkType, Core, InsertInv
<1>2. \A e \in Client : work'[e] = IF e = d THEN w ELSE IF e = c THEN Free ELSE work[e]
  BY <1>1 DEF TypeOK
<1> HIDE DEF w
<1>3. w = Free \/ Grown(d, w)
  BY <1>1, AfterGrows DEF w
<1>4. Suits(d, w) /\ Suits(c, Free) /\ (w = Free => w.mine = {}) /\ Free.mine = {} /\ Free.pc = "idle"
  <2>1. \A e \in Client : Suits(e, Free)
    BY FreeFits, PlaceOfFree DEF Suits
  <2>2. Free.mine = {} /\ Free.pc = "idle"
    BY DEF Free
  <2> QED
    BY <1>1, <1>3, <2>1, <2>2, GrownSuits
<1>5. \A e \in Client : Suits(e, work[e])
  BY OfClient DEF Fits
<1>6. Steady /\ SameBytes /\ fetch' = fetch
  BY DEF DeadlockVictim, Steady, SameBytes
<1>7. ASSUME NEW e \in Client
      PROVE  Suits(e, work'[e]) /\ (work'[e].mine # work[e].mine => e \in {c, d})
  <2>1. CASE e = d
    BY <1>2, <1>4, <2>1
  <2>2. CASE e = c /\ e # d
    BY <1>2, <1>4, <2>2
  <2>3. CASE e \notin {c, d}
    BY <1>2, <1>5, <2>3
  <2> QED
    BY <2>1, <2>2, <2>3
<1>8. PlaceInv'
  <2> SUFFICES ASSUME NEW e \in Client PROVE PlaceOf(work[e])'
    BY DEF PlaceInv
  <2>1. PlaceOf(work'[e])
    BY <1>7, Zenon DEF Suits
  <2>2. way' = way /\ serving' = serving
    BY <1>6, Zenon DEF Steady
  <2> QED
    BY <2>1, <2>2 DEF PlaceOf
<1>9. InsertInv'
  <2>1. ASSUME NEW e \in Client, NEW q \in Path, q \in work'[e].mine
        PROVE  ~Known(q) /\ e # c /\ (q \in work[e].mine \/ (e = d /\ q = p))
    BY <1>1, <1>2, <1>3, <1>4, <2>1 DEF Core, InsertInv, Grown
  <2>2. ASSUME NEW e \in Client, NEW f \in Client, NEW q \in Path,
               q \in work'[e].mine, q \in work'[f].mine
        PROVE  e = f
    BY <1>1, <2>1, <2>2 DEF Core, InsertInv
  <2>3. ASSUME NEW e \in Client, NEW q \in Path, q \in work'[e].minted, q \notin work'[e].mine
        PROVE  Known(q) /\ work'[e].doing = "submit"
    BY <1>7, <2>3 DEF Suits, MintedRight
  <2> QED
    BY <1>6, <2>1, <2>2, <2>3 DEF InsertInv, Known, Does, SameBytes
<1>10. BytesInv'
  <2>1. ASSUME NEW e \in Client PROVE BytesOf(work'[e])
    BY <1>7 DEF Suits
  <2>2. ASSUME NEW e \in Client, NEW f \in Client, work'[e].pc = "save", work'[f].pc = "save"
        PROVE  e = f
    <3>1. work[e].pc = "save" /\ work[f].pc = "save"
      BY <1>2, <1>3, <1>4, <2>2 DEF Grown
    <3> QED
      BY <3>1 DEF Core, BytesInv, At
  <2>3. RowDescribesBytes'
    BY <1>6 DEF Core, BytesInv, RowDescribesBytes, SameBytes, Known
  <2>4. ASSUME NEW e \in Client
        PROVE  /\ (At(e, "commit") /\ Does(e, {"upload"}))' => disk' = work'[e].what \/ env'.late
               /\ Does(e, {"acquire"})' => Known(Form)'
               /\ (At(e, "describe") \/ At(e, "save"))' => work'[e].sha = disk' /\ disk' # NoDigest
               /\ At(e, "save")' =>
                   /\ work'[e].meta \in {NoDigest, work'[e].sha}
                   /\ rows'[Form].meta \in {NoDigest, work'[e].meta}
    BY <1>6, <2>1 DEF BytesOf, SameBytes, Known, At, Does
  <2>5. /\ fetch'.state # "none" => Known(Form)' /\ way' = "url"
        /\ way' = "url" => ~env'.late
        /\ way' = "url" /\ ~Known(Form)' => disk' = NoDigest
    BY <1>6 DEF Core, BytesInv, SameBytes, Steady, Known
  <2> QED
    BY <2>2, <2>3, <2>4, <2>5 DEF BytesInv, At
<1> QED
  BY <1>6, <1>8, <1>9, <1>10, SameRows DEF Core, SameBytes

(* What a client does that leaves the rows and the file alone.             *)
LEMMA QuietStep ==
    ASSUME TypeOK, Core, NEW c \in Client,
           \/ \E what \in Digest : Post(c, what) \/ Download(c, what)
           \/ ClaimForm(c) \/ Sever(c) \/ Attempt(c) \/ PublishInfo(c) \/ Describe(c)
           \/ FailAttempt(c) \/ Die(c)
    PROVE  Core'
<1>c. PlaceOf(work[c]) /\ Fits(c, work[c]) /\ work[c] \in WorkType
  BY OfClient DEF TypeOK
<1>f. Fits(c, Free)
  BY FreeFits, PlaceOfFree DEF Fits, Suits
<1> USE DEF Fits, Suits
<1>1. ASSUME NEW what \in Digest, Post(c, what) PROVE Core'
  <2> DEFINE w == [Free EXCEPT !.doing = IF way = "upload" THEN "upload" ELSE "paste",
                               !.pc = "claim", !.what = what]
  <2>1. Fits(c, w)
    BY <1>1 DEF Post, PlaceOf, MineFresh, MintedRight, BytesOf, OneSaver, Free, Folders,
                Attempting, Console
  <2> QED
    BY <1>1, <2>1, CoreUpdate, AroundTyped DEF Post, Steady, SameBytes
<1>2. ASSUME NEW what \in Digest, Download(c, what) PROVE Core'
  <2> PICK info \in BOOLEAN :
        Become(c, [work[c] EXCEPT !.pc = "publish", !.what = what, !.info = info])
    BY <1>2 DEF Download
  <2> DEFINE w == [work[c] EXCEPT !.pc = "publish", !.what = what, !.info = info]
  <2>1. w.pc = "publish" /\ w.doing = "acquire" /\ w.what = what /\ w.mine = {} /\ w.minted = {}
    BY <1>2, <1>c DEF Download, At, PlaceOf, WorkType, Attempting
  <2>2. way = "url" /\ work[c].doing = "acquire"
    BY <1>2, <1>c DEF Download, At, PlaceOf, Attempting
  <2> HIDE DEF w
  <2>3. Fits(c, w)
    BY <1>c, <2>1, <2>2 DEF PlaceOf, MineFresh, MintedRight, BytesOf, OneSaver, Folders,
                            Attempting, Console
  <2> QED
    BY <1>2, <2>3, CoreUpdate DEF Download, Steady, SameBytes, w
<1>3. ASSUME ClaimForm(c) PROVE Core'
  <2> DEFINE w == [work[c] EXCEPT !.mine = {Form}, !.minted = {Form},
                            !.pc = IF Does(c, {"upload"}) THEN "replace" ELSE "commit"]
  <2>1. Steady /\ SameBytes /\ fetch' = fetch
    BY <1>3 DEF ClaimForm, Replayed, Steady, SameBytes
  <2>2. CASE Leave(c)
    BY <1>f, <2>1, <2>2, CoreUpdate DEF Leave
  <2>3. CASE ~Known(Form) /\ Become(c, w)
    <3>1. /\ w.pc = IF work[c].doing = "upload" THEN "replace" ELSE "commit"
          /\ w.doing = work[c].doing /\ w.what = work[c].what
          /\ w.mine = {Form} /\ w.minted = {Form}
      BY <1>c DEF WorkType, Does
    <3>2. work[c].doing \in {"upload", "paste"} /\ ~Waits(c, Form)
      BY <1>3, <1>c DEF ClaimForm, At, PlaceOf
    <3> HIDE DEF w
    <3>3. Fits(c, w)
      BY <1>c, <2>3, <3>1, <3>2 DEF PlaceOf, MineFresh, MintedRight, BytesOf, OneSaver, Folders,
                              Attempting, Console
    <3> QED
      BY <2>1, <2>3, <3>3, CoreUpdate
  <2> QED
    BY <1>3, <2>2, <2>3 DEF ClaimForm
<1>4. ASSUME Sever(c) PROVE Core'
  <2> DEFINE w == [work[c] EXCEPT !.mine = {}, !.minted = {}]
  <2>1. /\ w.pc = "replace" /\ w.doing = work[c].doing /\ w.what = work[c].what
        /\ w.mine = {} /\ w.minted = {}
    BY <1>4, <1>c DEF Sever, At, WorkType
  <2>2. work[c].doing = "upload"
    BY <1>4, <1>c DEF Sever, At, PlaceOf
  <2> HIDE DEF w
  <2>3. Fits(c, w)
    BY <1>c, <2>1, <2>2 DEF PlaceOf, MineFresh, MintedRight, BytesOf, OneSaver, Folders,
                            Attempting, Console
  <2> QED
    BY <1>4, <2>3, CoreUpdate, AroundTyped DEF Sever, Steady, SameBytes, w
<1>5. ASSUME Attempt(c) PROVE Core'
  <2> DEFINE sha == IF rows[Form].sha = NoDigest THEN disk ELSE rows[Form].sha
             fresh == [Free EXCEPT !.doing = "acquire", !.pc = "download"]
             again == [Free EXCEPT !.doing = "acquire", !.pc = "describe", !.sha = sha]
  <2>1. Known(Form) /\ way = "url" /\ ~env.late
    BY <1>5 DEF Attempt, Core, BytesInv
  <2>2. Become(c, IF disk = NoDigest THEN fresh ELSE again)
    BY <1>5 DEF Attempt
  <2>3. Fits(c, fresh)
    BY <2>1 DEF PlaceOf, MineFresh, MintedRight, BytesOf, OneSaver, Free, Folders,
                Attempting, Console
  <2>4. disk # NoDigest => sha = disk
    BY <2>1 DEF Core, BytesInv, RowDescribesBytes
  <2> HIDE DEF sha
  <2>5. disk # NoDigest => Fits(c, again)
    BY <2>1, <2>4 DEF PlaceOf, MineFresh, MintedRight, BytesOf, OneSaver, Free, Folders,
                Attempting, Console
  <2>6. Steady /\ SameBytes /\ fetch.state = "queued"
    BY <1>5 DEF Attempt, Steady, SameBytes
  <2> HIDE DEF fresh, again
  <2> QED
    BY <2>2, <2>3, <2>5, <2>6, CoreUpdate
<1>6. ASSUME PublishInfo(c) PROVE Core'
  <2> DEFINE w == [work[c] EXCEPT !.pc = "link"]
  <2>1. /\ w.pc = "link" /\ w.doing = work[c].doing /\ w.what = work[c].what
        /\ w.mine = work[c].mine /\ w.minted = work[c].minted
    BY <1>6, <1>c DEF WorkType
  <2>2. work[c].pc = "publish" /\ work[c].doing = "acquire" /\ work[c].what \in Digest
    BY <1>6, <1>c DEF PublishInfo, At, PlaceOf, Attempting
  <2> HIDE DEF w
  <2>3. Fits(c, w)
    BY <1>c, <2>1, <2>2 DEF PlaceOf, MineFresh, MintedRight, BytesOf, OneSaver, Folders,
                            Attempting, Console
  <2> QED
    BY <1>6, <2>3, CoreUpdate DEF PublishInfo, Steady, SameBytes, w
<1>7. ASSUME Describe(c) PROVE Core'
  <2> DEFINE meta == IF rows[Form].meta = NoDigest /\ work[c].sha \in beside
                     THEN work[c].sha ELSE rows[Form].meta
             w == [work[c] EXCEPT !.pc = "save", !.meta = meta]
  <2>1. /\ work[c].pc = "describe" /\ work[c].doing = "acquire" /\ work[c].sha = disk
        /\ disk # NoDigest /\ Known(Form) /\ ~env.late
        /\ \A d \in Client \ {c} : ~At(d, "save")
    BY <1>7, <1>c DEF Describe, At, PlaceOf, Attempting, BytesOf, Core, BytesInv
  <2>2. rows[Form].meta # NoDigest => rows[Form].meta = disk
    BY <2>1, IntakeAssumption DEF Core, RowsInv, BytesInv, RowDescribesBytes
  <2>3. meta \in {NoDigest, work[c].sha} /\ rows[Form].meta \in {NoDigest, meta}
    BY <2>1, <2>2
  <2>4. Become(c, w)
    BY <1>7 DEF Describe
  <2> HIDE DEF meta
  <2>5. /\ w.pc = "save" /\ w.doing = work[c].doing /\ w.what = work[c].what
        /\ w.sha = work[c].sha /\ w.meta = meta
        /\ w.mine = work[c].mine /\ w.minted = work[c].minted
    BY <1>c DEF WorkType
  <2> HIDE DEF w
  <2>6. Fits(c, w)
    BY <1>c, <2>1, <2>3, <2>5 DEF PlaceOf, MineFresh, MintedRight, BytesOf, OneSaver, Folders,
                            Attempting, Console
  <2> QED
    BY <1>7, <2>4, <2>6, CoreUpdate DEF Describe, Steady, SameBytes
<1>8. ASSUME FailAttempt(c) PROVE Core'
  <2>1. Steady /\ SameBytes /\ (fetch'.state = "none" \/ fetch.state # "none")
    BY <1>8, AroundTyped DEF FailAttempt, HasTurn, Running, Stopped, Steady, SameBytes
  <2> QED
    BY <1>8, <1>f, <2>1, CoreUpdate DEF FailAttempt, Leave
<1>9. ASSUME Die(c) PROVE Core'
  BY <1>9, <1>f, CoreUpdate, AroundTyped DEF Die, Leave, Steady, SameBytes
<1> QED
  BY <1>1, <1>2, <1>3, <1>4, <1>5, <1>6, <1>7, <1>8, <1>9

(* os.replace in a request whose claim still holds the row, or behind a    *)
(* broken connection.                                                      *)
LEMMA ReplaceStep == ASSUME TypeOK, Core, NEW c \in Client, ReplaceFile(c) PROVE Core'
<1>c. PlaceOf(work[c]) /\ Fits(c, work[c]) /\ work[c] \in WorkType
  BY OfClient DEF TypeOK
<1>1. /\ work[c].pc = "replace" /\ work[c].doing = "upload" /\ way = "upload"
      /\ work[c].mine \subseteq {Form} /\ work[c].minted = work[c].mine
      /\ work[c].what \in Digest /\ serving
  BY <1>c DEF ReplaceFile, At, PlaceOf, Console
<1>2. Steady /\ rows' = rows /\ fetch' = fetch /\ disk' = work[c].what
  BY DEF ReplaceFile, Steady
<1> DEFINE w == IF work[c].mine = {} THEN Free ELSE [work[c] EXCEPT !.pc = "commit"]
<1>3. Become(c, w)
  BY DEF ReplaceFile, Leave
<1>4. CASE work[c].mine = {}
  <2>1. w = Free /\ env'.late
    BY <1>4 DEF ReplaceFile, TypeOK
  <2>2. PlaceInv' /\ InsertInv' /\ RowsInv'
    BY <1>2, <1>3, <2>1, PlaceUpdate, InsertUpdate, SameRows, FreeFits, PlaceOfFree DEF Core
  <2>3. RowDescribesBytes'
    BY <2>1 DEF RowDescribesBytes
  <2>4. \A d \in Client : work'[d] = IF d = c THEN Free ELSE work[d]
    BY <1>3, <2>1 DEF Become, TypeOK
  <2>5. \A d \in Client : ~At(d, "describe") /\ ~At(d, "save") /\ ~Does(d, {"acquire"})
    BY <1>1 DEF Core, PlaceInv, PlaceOf, At, Does, Attempting
  <2>6. Free.pc = "idle" /\ Free.doing = "nothing"
    BY DEF Free
  <2>7. \A d \in Client : ~At(d, "describe")' /\ ~At(d, "save")' /\ ~Does(d, {"acquire"})'
    BY <2>4, <2>5, <2>6 DEF At, Does
  <2>8. BytesInv'
    BY <1>1, <1>2, <2>1, <2>3, <2>7 DEF Core, BytesInv, Steady, Known
  <2> QED
    BY <2>2, <2>8 DEF Core
<1>5. CASE work[c].mine = {Form}
  <2>1. /\ w.pc = "commit" /\ w.doing = "upload" /\ w.what = work[c].what
        /\ w.mine = {Form} /\ w.minted = {Form}
    BY <1>1, <1>5, <1>c DEF WorkType
  <2>2. env' = env
    BY <1>5 DEF ReplaceFile
  <2> HIDE DEF w
  <2>3. PlaceOf(w) /\ MineFresh(c, w) /\ MintedRight(w)
    BY <1>1, <1>5, <2>1 DEF PlaceOf, MineFresh, MintedRight, Attempting, Console, Folders
  <2>4. PlaceInv' /\ InsertInv' /\ RowsInv'
    BY <1>2, <1>3, <2>3, PlaceUpdate, InsertUpdate, SameRows DEF Core
  <2>5. ~Known(Form)
    BY <1>5, IntakeAssumption DEF Core, InsertInv
  <2>6. \A d \in Client : work'[d] = IF d = c THEN w ELSE work[d]
    BY <1>3 DEF Become, TypeOK
  <2>7. ASSUME NEW d \in Client, work'[d].pc = "commit", work'[d].doing = "upload"
        PROVE  d = c
    <3>1. d # c => Form \in work[d].mine
      BY <2>6, <2>7 DEF Core, PlaceInv, PlaceOf
    <3> QED
      BY <1>5, <3>1, IntakeAssumption DEF Core, InsertInv
  <2>8. \A d \in Client : ~At(d, "describe") /\ ~At(d, "save") /\ ~Does(d, {"acquire"})
    BY <1>1 DEF Core, PlaceInv, PlaceOf, At, Does, Attempting
  <2>9. \A d \in Client : ~At(d, "describe")' /\ ~At(d, "save")' /\ ~Does(d, {"acquire"})'
    BY <2>1, <2>6, <2>8 DEF At, Does
  <2>10. \A d \in Client : (At(d, "commit") /\ Does(d, {"upload"}))' => disk' = work'[d].what
    BY <1>2, <2>1, <2>6, <2>7 DEF At, Does
  <2>11. BytesInv'
    BY <1>1, <1>2, <2>2, <2>5, <2>9, <2>10 DEF Core, BytesInv, RowDescribesBytes, Steady, Known
  <2> QED
    BY <2>4, <2>11 DEF Core
<1> QED
  BY <1>1, <1>4, <1>5

(* os.link publishes the first file and adopts it afterwards.              *)
LEMMA LinkStep == ASSUME TypeOK, Core, NEW c \in Client, LinkFile(c) PROVE Core'
<1>c. PlaceOf(work[c]) /\ Fits(c, work[c]) /\ work[c] \in WorkType
  BY OfClient DEF TypeOK
<1> DEFINE w == [work[c] EXCEPT !.pc = "describe", !.sha = Linked(c)]
<1>1. /\ work[c].pc = "link" /\ work[c].doing = "acquire" /\ work[c].what \in Digest
      /\ way = "url" /\ ~env.late /\ Known(Form)
      /\ work[c].mine = {} /\ work[c].minted = {}
  BY <1>c DEF LinkFile, At, PlaceOf, Attempting, Core, BytesInv, Fits, Suits, BytesOf
<1>2. /\ Steady /\ rows' = rows /\ env' = env /\ fetch' = fetch
      /\ disk' = Linked(c) /\ Become(c, w)
  BY DEF LinkFile, Steady
<1>3. Linked(c) # NoDigest /\ (disk # NoDigest => Linked(c) = disk)
  BY <1>1, IntakeAssumption DEF Linked, NoDigest
<1> HIDE DEF Linked
<1>4. /\ w.pc = "describe" /\ w.doing = "acquire" /\ w.sha = Linked(c)
      /\ w.mine = {} /\ w.minted = {}
  BY <1>1, <1>c DEF WorkType
<1> HIDE DEF w
<1>5. PlaceOf(w) /\ MineFresh(c, w) /\ MintedRight(w)
  BY <1>1, <1>4 DEF PlaceOf, MineFresh, MintedRight, Attempting, Console, Folders
<1>6. PlaceInv' /\ InsertInv' /\ RowsInv'
  BY <1>2, <1>5, PlaceUpdate, InsertUpdate, SameRows DEF Core
<1>7. \A d \in Client : work'[d] = IF d = c THEN w ELSE work[d]
  BY <1>2 DEF Become, TypeOK
<1>8. RowDescribesBytes'
  BY <1>1, <1>2, <1>3 DEF Core, BytesInv, RowDescribesBytes, Known
<1>9. \A d \in Client : work[d].doing # "upload"
  BY <1>1 DEF Core, PlaceInv, PlaceOf
<1>10. ASSUME NEW d \in Client
       PROVE  /\ ~(At(d, "commit") /\ Does(d, {"upload"}))'
              /\ (At(d, "describe") \/ At(d, "save"))' => work'[d].sha = disk'
              /\ At(d, "save")' =>
                  /\ work'[d].meta \in {NoDigest, work'[d].sha}
                  /\ rows'[Form].meta \in {NoDigest, work'[d].meta}
  BY <1>2, <1>3, <1>4, <1>7, <1>9 DEF Core, BytesInv, At, Does
<1>11. \A d, e \in Client : At(d, "save")' /\ At(e, "save")' => d = e
  BY <1>4, <1>7 DEF Core, BytesInv, At
<1> QED
  BY <1>1, <1>2, <1>3, <1>6, <1>8, <1>10, <1>11 DEF Core, BytesInv, Steady, Known

(* The digest and the metadata of the published file are recorded.         *)
LEMMA SaveStep == ASSUME TypeOK, Core, NEW c \in Client, Save(c) PROVE Core'
<1>c. PlaceOf(work[c]) /\ Fits(c, work[c]) /\ work[c] \in WorkType
  BY OfClient DEF TypeOK
<1>f. Fits(c, Free)
  BY FreeFits, PlaceOfFree DEF Fits, Suits
<1>1. Steady /\ disk' = disk /\ env' = env /\ Become(c, Free)
  BY DEF Save, Steady, Leave
<1>2. CASE ~HasTurn(c)
  BY <1>1, <1>2, <1>f, CoreUpdate DEF Save, SameBytes
<1>3. CASE HasTurn(c)
  <2>1. /\ Known(Form) /\ work[c].pc = "save" /\ way = "url" /\ ~env.late
        /\ work[c].sha = disk /\ work[c].meta \in {NoDigest, work[c].sha}
    BY <1>c DEF Save, At, PlaceOf, Attempting, Core, BytesInv, Fits, Suits, BytesOf
  <2> DEFINE new == [rows EXCEPT ![Form].sha = work[c].sha, ![Form].meta = work[c].meta]
  <2>2. rows' = new /\ fetch' = Stopped("done")
    BY <1>3 DEF Save
  <2>3. /\ \A p \in Path : new[p].known = rows[p].known /\ (p # Form => new[p] = rows[p])
        /\ new[Form].sha = work[c].sha /\ new[Form].meta = work[c].meta
    BY IntakeAssumption DEF TypeOK, RowType
  <2> HIDE DEF new
  <2>4. \A p \in Path : Known(p)' <=> Known(p)
    BY <2>2, <2>3 DEF Known
  <2>5. \A d \in Client : work'[d] = IF d = c THEN Free ELSE work[d]
    BY <1>1 DEF Become, TypeOK
  <2>6. Free.pc = "idle" /\ Free.doing = "nothing" /\ Free.mine = {} /\ Free.minted = {}
    BY DEF Free
  <2>7. PlaceInv'
    BY <1>1, PlaceUpdate, PlaceOfFree DEF Core
  <2>8. InsertInv'
    <3>1. ASSUME NEW d \in Client, NEW p \in Path
          PROVE  /\ p \in work'[d].mine => ~Known(p)'
                 /\ p \in work'[d].minted /\ p \notin work'[d].mine
                      => Known(p)' /\ Does(d, {"submit"})'
      BY <2>4, <2>5, <2>6 DEF Core, InsertInv, Does
    <3>2. \A d, e \in Client, p \in Path : p \in work'[d].mine /\ p \in work'[e].mine => d = e
      BY <2>5, <2>6 DEF Core, InsertInv
    <3> QED
      BY <3>1, <3>2 DEF InsertInv
  <2>9. RowsInv'
    BY <2>1, <2>2, <2>3, <2>4 DEF Core, RowsInv
  <2>10. \A d \in Client : ~At(d, "save")'
    BY <2>1, <2>5, <2>6 DEF Core, BytesInv, At
  <2>11. RowDescribesBytes'
    BY <1>1, <2>1, <2>2, <2>3 DEF RowDescribesBytes
  <2>12. ASSUME NEW d \in Client
         PROVE  /\ (At(d, "commit") /\ Does(d, {"upload"}))' => disk' = work'[d].what \/ env'.late
                /\ At(d, "describe")' => work'[d].sha = disk' /\ disk' # NoDigest
    BY <1>1, <2>5, <2>6 DEF Core, BytesInv, At, Does
  <2>13. Known(Form)' /\ way' = "url" /\ ~env'.late
    BY <1>1, <2>1, <2>4, IntakeAssumption DEF Steady
  <2>14. BytesInv'
    BY <2>10, <2>11, <2>12, <2>13 DEF BytesInv
  <2> QED
    BY <2>7, <2>8, <2>9, <2>14 DEF Core
<1> QED
  BY <1>2, <1>3

(* What a commit leaves of a row, and which rows are known after it.       *)
LEMMA CommittedRow ==
    ASSUME TypeOK, Core, NEW c \in Client, NEW p \in Path
    PROVE  /\ Committed(c)[p].known <=> Known(p) \/ p \in work[c].mine
           /\ p \notin work[c].mine =>
                /\ Committed(c)[p].sha = rows[p].sha
                /\ Committed(c)[p].meta = rows[p].meta
                /\ p \notin work[c].minted => Committed(c)[p] = rows[p]
           /\ p \in work[c].mine =>
                /\ Committed(c)[p].meta = NoDigest
                /\ Committed(c)[p].sha = IF Does(c, {"upload"}) THEN work[c].what ELSE NoDigest
<1>1. rows[p] \in RowType
  BY DEF TypeOK
<1>2. CASE p \in work[c].mine
  BY <1>2 DEF Committed, Row
<1>3. CASE p \notin work[c].mine /\ p \notin work[c].minted
  BY <1>3 DEF Committed, Known
<1>4. CASE p \notin work[c].mine /\ p \in work[c].minted
  <2> DEFINE old == rows[p]
             new == [old EXCEPT !.runs = @ + 1, !.asked = @ + 1]
  <2>1. Committed(c)[p] = new
    BY <1>4 DEF Committed
  <2>2. new.known = old.known /\ new.sha = old.sha /\ new.meta = old.meta
    BY <1>1 DEF RowType
  <2> HIDE DEF new
  <2> QED
    BY <1>4, <2>1, <2>2 DEF Known
<1> QED
  BY <1>2, <1>3, <1>4

(* A transaction commits: what it inserted becomes known.                  *)
LEMMA CommitStep == ASSUME TypeOK, Core, NEW c \in Client, Commit(c) PROVE Core'
<1>c. PlaceOf(work[c]) /\ Fits(c, work[c]) /\ work[c] \in WorkType /\ work[c].pc = "commit"
  BY OfClient DEF TypeOK, Commit, At
<1>1. /\ Steady /\ disk' = disk /\ env' = env /\ Become(c, Free) /\ rows' = Committed(c)
      /\ fetch' = IF Does(c, {"paste"}) /\ Form \in work[c].mine
                  THEN [fetch EXCEPT !.state = "queued"] ELSE fetch
  BY DEF Commit, Steady, Leave
<1>2. /\ \A p \in Path : Known(p)' <=> Known(p) \/ p \in work[c].mine
      /\ \A p \in Path : p \notin work[c].mine =>
            /\ rows'[p].sha = rows[p].sha /\ rows'[p].meta = rows[p].meta
            /\ p \notin work[c].minted => rows'[p] = rows[p]
      /\ \A p \in Path : p \in work[c].mine =>
            /\ rows'[p].meta = NoDigest
            /\ rows'[p].sha = IF Does(c, {"upload"}) THEN work[c].what ELSE NoDigest
  BY <1>1, CommittedRow DEF Known
<1>3. \A d \in Client : work'[d] = IF d = c THEN Free ELSE work[d]
  BY <1>1 DEF Become, TypeOK
<1>4. Free.pc = "idle" /\ Free.doing = "nothing" /\ Free.mine = {} /\ Free.minted = {}
  BY DEF Free
<1>5. PlaceInv'
  BY <1>1, PlaceUpdate, PlaceOfFree DEF Core
<1>6. InsertInv'
  <2>1. ASSUME NEW d \in Client, NEW p \in Path, p \in work'[d].mine
        PROVE  ~Known(p)'
    BY <1>2, <1>3, <1>4, <2>1 DEF Core, InsertInv
  <2>2. ASSUME NEW d \in Client, NEW p \in Path, p \in work'[d].minted, p \notin work'[d].mine
        PROVE  Known(p)' /\ Does(d, {"submit"})'
    BY <1>2, <1>3, <1>4, <2>2 DEF Core, InsertInv, Does
  <2>3. \A d, e \in Client, p \in Path : p \in work'[d].mine /\ p \in work'[e].mine => d = e
    BY <1>3, <1>4 DEF Core, InsertInv
  <2> QED
    BY <2>1, <2>2, <2>3 DEF InsertInv
<1>7. RowsInv'
  <2>1. ASSUME NEW p \in Path, ~Known(p)' PROVE rows'[p] = NoRow
    <3>1. ~Known(p) /\ p \notin work[c].mine
      BY <1>2, <2>1
    <3>2. p \notin work[c].minted
      BY <3>1 DEF Core, InsertInv
    <3> QED
      BY <1>2, <3>1, <3>2 DEF Core, RowsInv
  <2>2. ASSUME NEW p \in Path, rows'[p].meta # NoDigest PROVE rows'[p].meta = rows'[p].sha
    BY <1>2, <2>2 DEF Core, RowsInv
  <2> QED
    BY <2>1, <2>2 DEF RowsInv
<1>8. BytesInv'
  <2>1. Form \in Path
    BY IntakeAssumption
  <2>2. RowDescribesBytes'
    <3>1. CASE Form \in work[c].mine
      BY <1>1, <1>2, <1>c, <2>1, <3>1 DEF Fits, Suits, BytesOf, RowDescribesBytes, Does
    <3>2. CASE Form \notin work[c].mine
      BY <1>1, <1>2, <2>1, <3>2 DEF Core, BytesInv, RowDescribesBytes
    <3> QED
      BY <3>1, <3>2
  <2>3. ASSUME NEW d \in Client
        PROVE  /\ (At(d, "commit") /\ Does(d, {"upload"}))' => disk' = work'[d].what \/ env'.late
               /\ Does(d, {"acquire"})' => Known(Form)'
               /\ (At(d, "describe") \/ At(d, "save"))' => work'[d].sha = disk' /\ disk' # NoDigest
    BY <1>1, <1>2, <1>3, <1>4, <2>1 DEF Core, BytesInv, At, Does
  <2>4. ASSUME NEW d \in Client, At(d, "save")'
        PROVE  /\ work'[d].meta \in {NoDigest, work'[d].sha}
               /\ rows'[Form].meta \in {NoDigest, work'[d].meta}
    <3>1. work'[d] = work[d] /\ At(d, "save")
      BY <1>3, <1>4, <2>4 DEF At
    <3>2. Known(Form)
      BY <3>1 DEF Core, BytesInv, PlaceInv, PlaceOf, At, Does, Attempting
    <3>3. Form \notin work[c].mine
      BY <2>1, <3>2 DEF Core, InsertInv
    <3> QED
      BY <1>2, <2>1, <3>1, <3>3 DEF Core, BytesInv
  <2>5. \A d, e \in Client : At(d, "save")' /\ At(e, "save")' => d = e
    BY <1>3, <1>4 DEF Core, BytesInv, At
  <2>6. fetch'.state # "none" => Known(Form)' /\ way' = "url"
    <3>1. CASE Does(c, {"paste"}) /\ Form \in work[c].mine
      BY <1>1, <1>2, <1>c, <2>1, <3>1 DEF PlaceOf, Does, Steady
    <3>2. CASE fetch' = fetch
      BY <1>1, <1>2, <2>1, <3>2 DEF Core, BytesInv, Steady
    <3> QED
      BY <1>1, <3>1, <3>2
  <2>7. /\ way' = "url" => ~env'.late
        /\ way' = "url" /\ ~Known(Form)' => disk' = NoDigest
    BY <1>1, <1>2, <2>1 DEF Core, BytesInv, Steady
  <2> QED
    BY <2>2, <2>3, <2>4, <2>5, <2>6, <2>7 DEF BytesInv
<1> QED
  BY <1>5, <1>6, <1>7, <1>8 DEF Core

(* What happens around the program leaves the clients as they are, or ends *)
(* the API's requests, or takes away what no row names.                    *)
LEMMA AroundStep ==
    ASSUME TypeOK, Core,
           \/ \E p \in Path : Settle(p) \/ Change(p)
           \/ ToggleWatching \/ LeaseExpires \/ FetchAgain \/ ApiDies \/ ApiStarts \/ Rest
    PROVE  Core'
<1>1. ASSUME UNCHANGED work, Steady, SameBytes, fetch'.state = "none" \/ fetch.state # "none"
      PROVE  Core'
  <2>1. PlaceInv'
    BY <1>1 DEF Core, PlaceInv, PlaceOf, Steady
  <2>2. InsertInv'
    BY <1>1 DEF Core, InsertInv, SameBytes, Known, Does
  <2>3. RowDescribesBytes'
    BY <1>1 DEF Core, BytesInv, RowDescribesBytes, SameBytes, Known
  <2>4. BytesInv'
    BY <1>1, <2>3 DEF Core, BytesInv, SameBytes, Steady, Known, At, Does
  <2> QED
    BY <1>1, <2>1, <2>2, <2>4, SameRows DEF Core, SameBytes
<1>2. ASSUME NEW p \in Path, Settle(p) \/ Change(p) PROVE Core'
  BY <1>1, <1>2, AroundTyped DEF Settle, Change, Steady, SameBytes
<1>3. ASSUME ToggleWatching PROVE Core'
  BY <1>1, <1>3, AroundTyped DEF ToggleWatching, Steady, SameBytes
<1>4. ASSUME LeaseExpires PROVE Core'
  BY <1>1, <1>4, AroundTyped DEF LeaseExpires, Steady, SameBytes
<1>5. ASSUME FetchAgain PROVE Core'
  BY <1>1, <1>5, AroundTyped DEF FetchAgain, Steady, SameBytes
<1>6. ASSUME Rest PROVE Core'
  BY <1>1, <1>6 DEF Rest, vars, Steady, SameBytes
<1>7. ASSUME ApiDies PROVE Core'
  <2>1. \A d \in Client : work'[d] = IF work[d].doing \in Console THEN Free ELSE work[d]
    BY <1>7 DEF ApiDies, Does
  <2>2. /\ way' = way /\ ~serving' /\ SameBytes /\ fetch' = fetch
    BY <1>7, AroundTyped DEF ApiDies, SameBytes
  <2>3. Free.pc = "idle" /\ Free.doing = "nothing" /\ Free.mine = {} /\ Free.minted = {}
    BY DEF Free
  <2>4. PlaceInv'
    <3>1. ASSUME NEW d \in Client PROVE PlaceOf(work[d])'
      <4>1. CASE work[d].doing \in Console
        BY <2>1, <2>3, <4>1 DEF PlaceOf, Folders, Attempting, Console
      <4>2. CASE work[d].doing \notin Console
        <5>1. work'[d] = work[d] /\ PlaceOf(work[d])
          BY <2>1, <4>2 DEF Core, PlaceInv
        <5> QED
          BY <2>2, <4>2, <5>1 DEF PlaceOf
      <4> QED
        BY <4>1, <4>2
    <3> QED
      BY <3>1 DEF PlaceInv
  <2>5. InsertInv'
    <3>1. ASSUME NEW d \in Client, NEW p \in Path
          PROVE  /\ p \in work'[d].mine => p \in work[d].mine /\ ~Known(p)'
                 /\ p \in work'[d].minted /\ p \notin work'[d].mine
                      => Known(p)' /\ Does(d, {"submit"})'
      BY <2>1, <2>2, <2>3 DEF Core, InsertInv, Does, SameBytes, Known
    <3> QED
      BY <3>1 DEF Core, InsertInv
  <2>6. BytesInv'
    <3>1. RowDescribesBytes'
      BY <2>2 DEF Core, BytesInv, RowDescribesBytes, SameBytes, Known
    <3>2. ASSUME NEW d \in Client
          PROVE  /\ (At(d, "commit") /\ Does(d, {"upload"}))' => disk' = work'[d].what \/ env'.late
                 /\ Does(d, {"acquire"})' => Known(Form)'
                 /\ (At(d, "describe") \/ At(d, "save"))' => work'[d].sha = disk' /\ disk' # NoDigest
                 /\ At(d, "save")' =>
                     /\ At(d, "save")
                     /\ work'[d].meta \in {NoDigest, work'[d].sha}
                     /\ rows'[Form].meta \in {NoDigest, work'[d].meta}
      BY <2>1, <2>2, <2>3 DEF Core, BytesInv, At, Does, SameBytes, Known
    <3>3. \A d, e \in Client : At(d, "save")' /\ At(e, "save")' => d = e
      BY <3>2 DEF Core, BytesInv
    <3> QED
      BY <2>2, <3>1, <3>2, <3>3 DEF Core, BytesInv, SameBytes, Known
  <2> QED
    BY <2>2, <2>4, <2>5, <2>6, SameRows DEF Core, SameBytes
<1>8. ASSUME ApiStarts PROVE Core'
  <2>1. /\ way' = way /\ ~serving /\ serving' /\ rows' = rows /\ env' = env /\ fetch' = fetch
        /\ disk' = IF Known(Form) THEN disk ELSE NoDigest
    BY <1>8 DEF ApiStarts
  <2>2. ASSUME NEW d \in Client
        PROVE  /\ work'[d].pc = work[d].pc /\ work'[d].doing = work[d].doing
               /\ work'[d].mine = work[d].mine /\ work'[d].minted = work[d].minted
               /\ work'[d].todo = work[d].todo /\ work'[d].at = work[d].at
               /\ work'[d].what = work[d].what /\ work'[d].sha = work[d].sha
               /\ work'[d].meta = work[d].meta
    <3>1. work[d] \in WorkType
      BY DEF TypeOK
    <3>2. work'[d] \in {work[d], [work[d] EXCEPT !.swept = TRUE]}
      BY <1>8 DEF ApiStarts
    <3> QED
      BY <3>1, <3>2 DEF WorkType
  <2>3. \A d \in Client : work[d].doing \notin Console
    BY <2>1 DEF Core, PlaceInv, PlaceOf
  <2>4. PlaceInv'
    <3>1. ASSUME NEW d \in Client PROVE PlaceOf(work[d])'
      <4>1. PlaceOf(work[d])
        BY DEF Core, PlaceInv
      <4> QED
        BY <2>1, <2>2, <4>1 DEF PlaceOf
    <3> QED
      BY <3>1 DEF PlaceInv
  <2>5. InsertInv'
    BY <2>1, <2>2 DEF Core, InsertInv, Known, Does
  <2>6. BytesInv'
    <3>1. RowDescribesBytes'
      BY <2>1 DEF Core, BytesInv, RowDescribesBytes, Known
    <3>2. ASSUME NEW d \in Client
          PROVE  /\ ~(At(d, "commit") /\ Does(d, {"upload"}))'
                 /\ Does(d, {"acquire"})' => Known(Form)'
      BY <2>1, <2>2, <2>3 DEF Core, BytesInv, At, Does, Known, Console
    <3>3. ASSUME NEW d \in Client, (At(d, "describe") \/ At(d, "save"))'
          PROVE  /\ work'[d].sha = disk' /\ disk' # NoDigest
                 /\ At(d, "save")' =>
                     /\ work'[d].meta \in {NoDigest, work'[d].sha}
                     /\ rows'[Form].meta \in {NoDigest, work'[d].meta}
      <4>1. At(d, "describe") \/ At(d, "save")
        BY <2>2, <3>3 DEF At
      <4>2. Known(Form)
        BY <4>1 DEF Core, BytesInv, PlaceInv, PlaceOf, At, Does, Attempting
      <4> QED
        BY <2>1, <2>2, <4>1, <4>2 DEF Core, BytesInv, At
    <3>4. \A d, e \in Client : At(d, "save")' /\ At(e, "save")' => d = e
      BY <2>2 DEF Core, BytesInv, At
    <3>5. /\ fetch'.state # "none" => Known(Form)' /\ way' = "url"
          /\ way' = "url" => ~env'.late
          /\ way' = "url" /\ ~Known(Form)' => disk' = NoDigest
      BY <2>1 DEF Core, BytesInv, Known
    <3> QED
      BY <3>1, <3>2, <3>3, <3>4, <3>5 DEF BytesInv
  <2> QED
    BY <2>1, <2>4, <2>5, <2>6, SameRows DEF Core
<1> QED
  BY <1>2, <1>3, <1>4, <1>5, <1>6, <1>7, <1>8

(* The four parts hold at first,                                           *)
LEMMA CoreInit == ASSUME Init PROVE Core
<1>1. \A c \in Client : work[c] = Free
  BY DEF Init
<1>2. \A p \in Path : rows[p] = NoRow
  BY DEF Init
<1>3. ~NoRow.known /\ NoRow.meta = NoDigest
  BY DEF NoRow, Row
<1>4. Form \in Path /\ Free.pc = "idle" /\ Free.doing = "nothing" /\ Free.mine = {} /\ Free.minted = {}
  BY IntakeAssumption DEF Free
<1>5. PlaceInv
  BY <1>1, PlaceOfFree DEF PlaceInv
<1>6. InsertInv
  BY <1>1, <1>4 DEF InsertInv
<1>7. RowsInv
  BY <1>2, <1>3 DEF RowsInv
<1>8. disk = NoDigest /\ ~env.late /\ fetch.state = "none"
  BY DEF Init, Stopped
<1>9. BytesInv
  BY <1>1, <1>2, <1>3, <1>4, <1>8 DEF BytesInv, RowDescribesBytes, At, Does, Known
<1> QED
  BY <1>5, <1>6, <1>7, <1>9 DEF Core

(* and every step keeps them.                                              *)
LEMMA CoreStep == ASSUME TypeOK, Core, Next PROVE Core'
BY FolderStep, DeadlockStep, QuietStep, ReplaceStep, LinkStep, SaveStep, CommitStep, AroundStep
   DEF Next, Begin, Step, Around

-----------------------------------------------------------------------------

(* The inductive invariant holds in every state that Intake can reach.     *)
THEOREM IntakeInvariant == Spec => []IInv
<1>1. ASSUME Init PROVE IInv
  BY <1>1, TypeInit, CoreInit DEF IInv, Core
<1>2. ASSUME IInv, [Next]_vars PROVE IInv'
  <2>1. TypeOK /\ PlaceInv /\ Core
    BY <1>2 DEF IInv, Core
  <2>2. CASE Next
    <3>1. TypeOK' /\ Core'
      BY <2>1, <2>2, TypeStep, CoreStep
    <3> QED
      BY <3>1 DEF IInv, Core
  <2>3. CASE UNCHANGED vars
    BY <1>2, <2>3 DEF IInv, TypeOK, PlaceInv, PlaceOf, InsertInv, RowsInv, BytesInv,
         RowDescribesBytes, Known, At, Does, vars
  <2> QED
    BY <1>2, <2>2, <2>3
<1> QED
  BY <1>1, <1>2, PTL DEF Spec

(* Every variable keeps its type: files, rows, the claim of ACQUIRE and    *)
(* the place of every client.                                              *)
THEOREM IntakeTypeCorrect == Spec => []TypeOK
BY IntakeInvariant, PTL DEF IInv

(* However many uploads, pasted addresses and ACQUIRE attempts overlap,    *)
(* end or die: what the row says of its bytes is true of the file.         *)
THEOREM RecordedDigestsHold == Spec => []RowDescribesBytes
<1>1. IInv => RowDescribesBytes
  BY DEF IInv, BytesInv
<1> QED
  BY <1>1, IntakeInvariant, PTL

-----------------------------------------------------------------------------
(* The rows implement MediaLedger. *)

(* At first nothing is entered.                                            *)
LEMMA LedgerBegins == ASSUME Init PROVE Ledger!LedgerInit
<1>1. rows = [p \in Path |-> NoRow]
  BY DEF Init
<1>2. NoRow = Ledger!NotEntered
  <2>1. /\ NoRow \in RowType
        /\ NoRow.known = FALSE /\ NoRow.runs = 0 /\ NoRow.asked = 0
        /\ NoRow.what = 0 /\ NoRow.sha = 0 /\ NoRow.meta = 0
    BY DEF NoRow, Row, RowType, MaybeDigest, NoDigest
  <2> HIDE DEF NoRow
  <2>2. NoRow = [known |-> NoRow.known, runs |-> NoRow.runs, asked |-> NoRow.asked,
                 what |-> NoRow.what, sha |-> NoRow.sha, meta |-> NoRow.meta]
    BY <2>1 DEF RowType
  <2> QED
    BY <2>1, <2>2 DEF Ledger!NotEntered, Ledger!None
<1> QED
  BY <1>1, <1>2 DEF Ledger!LedgerInit

(* A commit enters what the transaction inserted, or adds the run that was *)
(* asked for by path.                                                      *)
LEMMA CommitEnters ==
    ASSUME TypeOK, Core, NEW c \in Client, Commit(c)
    PROVE  Ledger!LedgerNext \/ UNCHANGED rows
<1> DEFINE r == work[c]
<1>c. PlaceOf(r) /\ r \in WorkType /\ MintedRight(r) /\ rows' = Committed(c)
      /\ rows \in [Path -> RowType] /\ r.what \in MaybeDigest
  BY OfClient DEF TypeOK, Commit, Fits, Suits, WorkType
<1>1. CASE r.minted \subseteq r.mine
  <2> DEFINE new(p) == Row(IF p \in r.minted THEN 1 ELSE 0,
                           IF p \in r.minted /\ Does(c, {"submit"}) THEN 1 ELSE 0,
                           r.what,
                           IF Does(c, {"upload"}) THEN r.what ELSE NoDigest)
             entry == [p \in Path |-> IF p \in r.mine THEN new(p) ELSE Ledger!NotEntered]
  <2>1. ASSUME NEW p \in Path PROVE new(p) \in Ledger!Entries
    <3> DEFINE runs == IF p \in r.minted THEN 1 ELSE 0
               asked == IF p \in r.minted /\ Does(c, {"submit"}) THEN 1 ELSE 0
               sha == IF Does(c, {"upload"}) THEN r.what ELSE NoDigest
    <3>1. runs \in {0, 1} /\ asked \in {0, 1} /\ asked <= runs /\ sha \in MaybeDigest
      BY <1>c DEF MaybeDigest
    <3> HIDE DEF runs, asked, sha
    <3>2. Row(runs, asked, r.what, sha) \in Ledger!Entries
      BY <1>c, <3>1 DEF Row, Ledger!Entries, Ledger!MaybeLedgerDigest, Ledger!None, MaybeDigest, NoDigest
    <3> QED
      BY <3>2 DEF runs, asked, sha
  <2>2. ASSUME NEW p \in Path
        PROVE  rows'[p] = IF Known(p) THEN rows[p] ELSE entry[p]
    <3>1. CASE p \in r.mine
      <4>1. ~Known(p)
        BY <3>1 DEF Core, InsertInv
      <4>2. rows'[p] = new(p)
        BY <1>c, <3>1 DEF Committed
      <4> HIDE DEF new
      <4> QED
        BY <3>1, <4>1, <4>2
    <3>2. CASE p \notin r.mine
      <4>1. rows'[p] = rows[p] /\ entry[p] = Ledger!NotEntered
        BY <1>1, <1>c, <3>2 DEF Committed
      <4>2. ~Known(p) => rows[p] = Ledger!NotEntered
        BY DEF Core, RowsInv, NoRow, Row, NoDigest, Ledger!NotEntered, Ledger!None
      <4> QED
        BY <4>1, <4>2
    <3> QED
      BY <3>1, <3>2
  <2>3. rows' = [p \in Path |-> rows'[p]]
    BY <1>c, CommittedTyped
  <2> HIDE DEF new
  <2>4. entry \in [Path -> Ledger!Entries \cup {Ledger!NotEntered}]
    BY <2>1
  <2> HIDE DEF entry
  <2>5. rows' = [p \in Path |-> IF Ledger!Entered(p) THEN rows[p] ELSE entry[p]]
    BY <2>2, <2>3 DEF Known, Ledger!Entered
  <2>6. Ledger!Enter
    BY <2>4, <2>5 DEF Ledger!Enter
  <2> QED
    BY <2>6 DEF Ledger!LedgerNext
<1>2. CASE ~(r.minted \subseteq r.mine)
  <2>1. PICK q \in Path : q \in r.minted /\ q \notin r.mine
    BY <1>2, <1>c DEF WorkType
  <2>2. Known(q) /\ r.doing = "submit"
    BY <1>c, <2>1 DEF MintedRight
  <2>3. r.minted = {q} /\ r.mine = {}
    <3>1. PICK t \in Path : r.todo \cup r.mine \cup r.minted \subseteq {t}
      BY <1>c, <2>2 DEF PlaceOf
    <3> QED
      BY <2>1, <3>1
  <2>4. rows' = [rows EXCEPT ![q].runs = @ + 1, ![q].asked = @ + 1]
    <3> DEFINE more(p) == [rows[p] EXCEPT !.runs = @ + 1, !.asked = @ + 1]
    <3>1. Committed(c) = [p \in Path |-> IF p = q THEN more(p) ELSE rows[p]]
      BY <2>3 DEF Committed
    <3> HIDE DEF more
    <3>2. Committed(c) = [rows EXCEPT ![q] = more(q)]
      BY <1>c, <3>1
    <3>3. [rows EXCEPT ![q].runs = @ + 1, ![q].asked = @ + 1] = [rows EXCEPT ![q] = more(q)]
      BY <1>c DEF more
    <3> QED
      BY <1>c, <3>2, <3>3
  <2>5. Ledger!RunAgain(q)
    BY <2>2, <2>4 DEF Ledger!RunAgain, Ledger!Entered, Known
  <2> QED
    BY <2>5 DEF Ledger!LedgerNext
<1> QED
  BY <1>1, <1>2

(* A saved attempt records a digest and metadata of the same bytes.        *)
LEMMA SaveRecords ==
    ASSUME TypeOK, Core, NEW c \in Client, Save(c)
    PROVE  Ledger!LedgerNext \/ UNCHANGED rows
<1>c. PlaceOf(work[c]) /\ Fits(c, work[c]) /\ work[c] \in WorkType
  BY OfClient DEF TypeOK
<1>1. CASE ~HasTurn(c)
  BY <1>1 DEF Save
<1>2. CASE HasTurn(c)
  <2> DEFINE sha == work[c].sha
             meta == work[c].meta
  <2>1. /\ Known(Form) /\ way = "url" /\ ~env.late /\ sha = disk /\ sha # NoDigest
        /\ meta \in {NoDigest, sha} /\ rows[Form].meta \in {NoDigest, meta}
    BY <1>c DEF Save, At, PlaceOf, Attempting, Core, BytesInv, Fits, Suits, BytesOf
  <2>2. rows[Form].sha \in {NoDigest, sha}
    BY <2>1 DEF Core, BytesInv, RowDescribesBytes
  <2>3. sha \in MaybeDigest /\ meta \in MaybeDigest
    BY <1>c DEF WorkType
  <2>4. rows' = [rows EXCEPT ![Form].sha = sha, ![Form].meta = meta]
    BY <1>2 DEF Save
  <2> HIDE DEF sha, meta
  <2>5. Ledger!Record(Form, sha, meta)
    BY <2>1, <2>2, <2>4 DEF Ledger!Record, Ledger!Entered, Ledger!None, Known, NoDigest
  <2> QED
    BY <2>3, <2>5, IntakeAssumption DEF Ledger!LedgerNext, Ledger!MaybeLedgerDigest, Ledger!None,
                                        MaybeDigest, NoDigest
<1> QED
  BY <1>1, <1>2

(* Every step is a step of MediaLedger or leaves the rows alone.           *)
LEMMA LedgerStep == ASSUME IInv, [Next]_vars PROVE [Ledger!LedgerNext]_rows
<1>1. TypeOK /\ Core
  BY DEF IInv, Core
<1>2. ASSUME NEW c \in Client, Begin(c) \/ Step(c) PROVE Ledger!LedgerNext \/ UNCHANGED rows
  <2>1. CASE Begin(c)
    BY <2>1, Zenon DEF Begin, SweepScan, ConfirmScan, SubmitPath, Post, Attempt
  <2>2. CASE Commit(c)
    BY <1>1, <2>2, CommitEnters, Zenon
  <2>3. CASE Save(c)
    BY <1>1, <2>3, SaveRecords, Zenon
  <2>4. CASE \/ \E p \in Path : TakeNext(c, p)
             \/ EndOfBatch(c) \/ InsertRow(c) \/ DeadlockVictim(c)
    BY <2>4, Zenon DEF TakeNext, EndOfBatch, InsertRow, DeadlockVictim
  <2>5. CASE ClaimForm(c) \/ ReplaceFile(c) \/ \E d \in Digest : Download(c, d)
    BY <2>5, Zenon DEF ClaimForm, ReplaceFile, Download
  <2>6. CASE PublishInfo(c) \/ LinkFile(c) \/ Describe(c) \/ FailAttempt(c)
    BY <2>6, Zenon DEF PublishInfo, LinkFile, Describe, FailAttempt
  <2> QED
    BY <1>2, <2>1, <2>2, <2>3, <2>4, <2>5, <2>6, Zenon DEF Step
<1>3. ASSUME Around \/ Rest PROVE UNCHANGED rows
  <2>1. CASE (\E p \in Path : Settle(p) \/ Change(p)) \/ ToggleWatching \/ LeaseExpires
    BY <2>1, Zenon DEF Settle, Change, ToggleWatching, LeaseExpires
  <2>2. CASE FetchAgain \/ (\E c \in Client : Sever(c) \/ Die(c)) \/ ApiDies \/ ApiStarts
    BY <2>2, Zenon DEF FetchAgain, Sever, Die, ApiDies, ApiStarts
  <2>3. CASE Rest
    BY <2>3, Zenon DEF Rest, vars
  <2> QED
    BY <1>3, <2>1, <2>2, <2>3, Zenon DEF Around
<1> QED
  BY <1>2, <1>3 DEF Next, vars

(* A path is entered once and gets at most one run that nobody asked for   *)
(* by name; its digest and its metadata are written once and agree: for    *)
(* every set of paths, clients and contents the rows implement MediaLedger.*)
THEOREM IntakeImplementsLedger == Spec => ImplementsLedger
<1> QED
  BY IntakeInvariant, LedgerBegins, LedgerStep, PTL DEF Spec, ImplementsLedger, Ledger!LedgerSpec

-----------------------------------------------------------------------------
(* What the ledger's promise amounts to in the rows. *)

(* What a step of the ledger makes of one entry.                           *)
EntryMoves(p) ==
    \/ rows'[p] = rows[p]
    \/ ~Known(p) /\ rows'[p] \in Ledger!Entries \cup {Ledger!NotEntered}
    \/ Known(p) /\ rows'[p] = [rows[p] EXCEPT !.runs = @ + 1, !.asked = @ + 1]
    \/ /\ Known(p)
       /\ \E digest, meta \in MaybeDigest :
             /\ digest # NoDigest /\ meta \in {NoDigest, digest}
             /\ rows[p].sha \in {NoDigest, digest} /\ rows[p].meta \in {NoDigest, meta}
             /\ rows'[p] = [rows[p] EXCEPT !.sha = digest, !.meta = meta]

LEMMA EntryStep ==
    ASSUME TypeOK, [Ledger!LedgerNext]_rows, NEW p \in Path
    PROVE  EntryMoves(p)
<1>1. rows \in [Path -> RowType]
  BY DEF TypeOK
<1>2. CASE UNCHANGED rows
  BY <1>2 DEF EntryMoves
<1>3. CASE Ledger!Enter
  <2>1. PICK entry \in [Path -> Ledger!Entries \cup {Ledger!NotEntered}] :
            rows' = [q \in Path |-> IF Ledger!Entered(q) THEN rows[q] ELSE entry[q]]
    BY <1>3 DEF Ledger!Enter
  <2>2. entry[p] \in Ledger!Entries \cup {Ledger!NotEntered}
    BY <2>1
  <2>3. rows'[p] = IF Known(p) THEN rows[p] ELSE entry[p]
    BY <2>1 DEF Ledger!Entered, Known
  <2> QED
    BY <2>2, <2>3, Zenon DEF EntryMoves
<1>4. ASSUME NEW q \in Path, Ledger!RunAgain(q) PROVE EntryMoves(p)
  BY <1>1, <1>4 DEF Ledger!RunAgain, Ledger!Entered, Known, EntryMoves
<1>5. ASSUME NEW q \in Path, NEW digest \in MaybeDigest, NEW meta \in MaybeDigest,
             Ledger!Record(q, digest, meta)
      PROVE  EntryMoves(p)
  <2>1. /\ Known(q) /\ digest # NoDigest /\ meta \in {NoDigest, digest}
        /\ rows[q].sha \in {NoDigest, digest} /\ rows[q].meta \in {NoDigest, meta}
        /\ rows' = [rows EXCEPT ![q].sha = digest, ![q].meta = meta]
    BY <1>5 DEF Ledger!Record, Ledger!Entered, Ledger!None, Known, NoDigest
  <2>2. CASE p = q
    <3>1. rows'[p] = [rows[p] EXCEPT !.sha = digest, !.meta = meta]
      BY <1>1, <2>1, <2>2
    <3> QED
      BY <2>1, <2>2, <3>1, Zenon DEF EntryMoves
  <2>3. CASE p # q
    <3>1. rows'[p] = rows[p]
      BY <1>1, <2>1, <2>3
    <3> QED
      BY <3>1 DEF EntryMoves
  <2> QED
    BY <2>2, <2>3
<1>6. Ledger!MaybeLedgerDigest = MaybeDigest
  BY DEF Ledger!MaybeLedgerDigest, Ledger!None, MaybeDigest, NoDigest
<1> QED
  BY <1>2, <1>3, <1>4, <1>5, <1>6, Zenon DEF Ledger!LedgerNext

LEMMA EntryTyped ==
    ASSUME TypeOK, NEW p \in Path
    PROVE  /\ rows[p] \in RowType /\ rows[p].runs \in Nat /\ rows[p].asked \in Nat
           /\ rows[p].known \in BOOLEAN
BY DEF TypeOK, RowType

LEMMA BlankRow ==
    NoRow.runs = 0 /\ NoRow.asked = 0 /\ NoRow.sha = NoDigest /\ NoRow.meta = NoDigest
BY DEF NoRow, Row

LEMMA HonestStep ==
    ASSUME TypeOK, Ledger!EntriesHonest, [Ledger!LedgerNext]_rows
    PROVE  Ledger!EntriesHonest'
<1> SUFFICES ASSUME NEW p \in Path
             PROVE  /\ rows'[p].runs <= rows'[p].asked + 1
                    /\ rows'[p].meta \in {NoDigest, rows'[p].sha}
  BY DEF Ledger!EntriesHonest, Ledger!None, NoDigest
<1>1. rows[p].runs <= rows[p].asked + 1 /\ rows[p].meta \in {NoDigest, rows[p].sha}
  BY DEF Ledger!EntriesHonest, Ledger!None, NoDigest
<1>2. /\ rows[p] \in RowType /\ rows[p].runs \in Nat /\ rows[p].asked \in Nat
      /\ rows[p].known \in BOOLEAN
  BY EntryTyped
<1>3. EntryMoves(p)
  BY EntryStep
<1>4. CASE rows'[p] = rows[p]
  BY <1>1, <1>4
<1>5. CASE rows'[p] \in Ledger!Entries \cup {Ledger!NotEntered}
  <2>1. \A e \in Ledger!Entries : e.runs \in {0, 1} /\ e.asked \in {0, 1} /\ e.meta = NoDigest
    BY DEF Ledger!Entries, Ledger!None, NoDigest
  <2>2. /\ Ledger!NotEntered.runs = 0 /\ Ledger!NotEntered.asked = 0
        /\ Ledger!NotEntered.meta = NoDigest
    BY DEF Ledger!NotEntered, Ledger!None, NoDigest
  <2>3. \A m, n \in {0, 1} : m <= n + 1
    OBVIOUS
  <2> QED
    BY <1>5, <2>1, <2>2, <2>3
<1>6. CASE rows'[p] = [rows[p] EXCEPT !.runs = @ + 1, !.asked = @ + 1]
  <2>1. /\ rows'[p].runs = rows[p].runs + 1 /\ rows'[p].asked = rows[p].asked + 1
        /\ rows'[p].meta = rows[p].meta /\ rows'[p].sha = rows[p].sha
    BY <1>2, <1>6 DEF RowType
  <2> QED
    BY <1>1, <1>2, <2>1
<1>7. CASE \E digest, meta \in MaybeDigest :
             /\ digest # NoDigest /\ meta \in {NoDigest, digest}
             /\ rows'[p] = [rows[p] EXCEPT !.sha = digest, !.meta = meta]
  <2>1. PICK digest \in MaybeDigest, meta \in MaybeDigest :
             /\ meta \in {NoDigest, digest}
             /\ rows'[p] = [rows[p] EXCEPT !.sha = digest, !.meta = meta]
    BY <1>7
  <2>2. /\ rows'[p].runs = rows[p].runs /\ rows'[p].asked = rows[p].asked
        /\ rows'[p].meta = meta /\ rows'[p].sha = digest
    BY <1>2, <2>1 DEF RowType
  <2> QED
    BY <1>1, <2>1, <2>2
<1> QED
  BY <1>3, <1>4, <1>5, <1>6, <1>7, Zenon DEF EntryMoves

LEMMA StandStep ==
    ASSUME TypeOK, RowsInv, [Ledger!LedgerNext]_rows
    PROVE  Ledger!EntriesStand
<1> SUFFICES ASSUME NEW p \in Path
             PROVE  /\ Known(p) => /\ rows'[p].known /\ rows'[p].what = rows[p].what
                                   /\ rows'[p].runs >= rows[p].runs
                    /\ rows[p].sha # NoDigest => rows'[p].sha = rows[p].sha
                    /\ rows[p].meta # NoDigest => rows'[p].meta = rows[p].meta
  BY DEF Ledger!EntriesStand, Ledger!Entered, Ledger!None, NoDigest, Known
<1>1. /\ rows[p] \in RowType /\ rows[p].runs \in Nat /\ rows[p].asked \in Nat
      /\ rows[p].known \in BOOLEAN
  BY EntryTyped
<1>2. EntryMoves(p)
  BY EntryStep
<1>3. CASE rows'[p] = rows[p]
  BY <1>1, <1>3 DEF Known
<1>4. CASE ~Known(p)
  <2>1. rows[p].sha = NoDigest /\ rows[p].meta = NoDigest
    BY <1>4, BlankRow DEF RowsInv
  <2> QED
    BY <1>4, <2>1
<1>5. CASE Known(p) /\ rows'[p] = [rows[p] EXCEPT !.runs = @ + 1, !.asked = @ + 1]
  BY <1>1, <1>5 DEF RowType, Known
<1>6. CASE /\ Known(p)
           /\ \E digest, meta \in MaybeDigest :
                 /\ digest # NoDigest
                 /\ rows[p].sha \in {NoDigest, digest} /\ rows[p].meta \in {NoDigest, meta}
                 /\ rows'[p] = [rows[p] EXCEPT !.sha = digest, !.meta = meta]
  <2>1. PICK digest \in MaybeDigest, meta \in MaybeDigest :
             /\ rows[p].sha \in {NoDigest, digest} /\ rows[p].meta \in {NoDigest, meta}
             /\ rows'[p] = [rows[p] EXCEPT !.sha = digest, !.meta = meta]
    BY <1>6
  <2>2. /\ rows'[p].runs = rows[p].runs /\ rows'[p].known = rows[p].known
        /\ rows'[p].what = rows[p].what /\ rows'[p].meta = meta /\ rows'[p].sha = digest
    BY <1>1, <2>1 DEF RowType
  <2> QED
    BY <1>1, <1>6, <2>1, <2>2 DEF Known
<1> QED
  BY <1>2, <1>3, <1>4, <1>5, <1>6, Zenon DEF EntryMoves

(* However scans, posts and attempts overlap and die, a recording gets at  *)
(* most one run that nobody asked for by name, and metadata of no bytes    *)
(* but those whose digest it records.                                      *)
THEOREM OneRunUnasked == Spec => []Ledger!EntriesHonest
<1>1. Init => Ledger!EntriesHonest
  BY BlankRow DEF Init, NoDigest, Ledger!EntriesHonest, Ledger!None
<1>2. IInv /\ Ledger!EntriesHonest /\ [Next]_vars => Ledger!EntriesHonest'
  BY LedgerStep, HonestStep DEF IInv
<1> QED
  BY <1>1, <1>2, IntakeInvariant, PTL DEF Spec

(* No late scan, post or attempt rewrites what is known of a recording.    *)
THEOREM RecordsAreNotRewritten == Spec => Ledger!NothingRewritten
<1>1. IInv /\ [Next]_vars => [Ledger!EntriesStand]_rows
  BY LedgerStep, StandStep DEF IInv
<1> QED
  BY <1>1, IntakeInvariant, PTL DEF Spec, Ledger!NothingRewritten

=============================================================================
