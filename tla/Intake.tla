--------------------------------- MODULE Intake --------------------------------
(***************************************************************************)
(* Taking recordings in: the ways of FolderIntake and FormIntake over the  *)
(* same rows, and what they promise together.                              *)
(***************************************************************************)
EXTENDS FolderIntake, FormIntake

\* What lies in a folder at first: recordings that are still being copied, that
\* have a sidecar with a problem, or a broken pack.
Lying == [media : {"copying"}, side : {"none"}, pack : {"ok"}]
    \cup [media : {"settled"}, side : {"bad"}, pack : {"ok"}]
    \cup [media : {"settled"}, side : {"none"}, pack : {"broken"}]

Nothing == [media : {"absent"}, side : {"none"}, pack : {"ok"}]

\* A form's path lies under incoming/, which no scan enters.
Init ==
    /\ way \in Way
    /\ watching = TRUE
    /\ \E state \in IF way = "folder" THEN Lying ELSE Nothing :
          files = [p \in Path |-> state]
    /\ rows = [p \in Path |-> NoRow]
    /\ disk = NoDigest
    /\ beside = {}
    /\ fetch = Stopped("none")
    /\ serving = TRUE
    /\ work = [c \in Client |-> Free]
    /\ env = [ops |-> MaxOps[way], trouble |-> MaxTrouble[way], late |-> FALSE]

\* What a client goes on with by itself.
Step(c) ==
    \/ \E p \in Path : TakeNext(c, p)
    \/ EndOfBatch(c)
    \/ InsertRow(c)
    \/ DeadlockVictim(c)
    \/ ClaimForm(c)
    \/ ReplaceFile(c)
    \/ Commit(c)
    \/ \E d \in Digest : Download(c, d)
    \/ PublishInfo(c)
    \/ LinkFile(c)
    \/ Describe(c)
    \/ Save(c)
    \/ FailAttempt(c)

Begin(c) ==
    \/ SweepScan(c)
    \/ ConfirmScan(c)
    \/ \E p \in Path : SubmitPath(c, p)
    \/ \E d \in Digest : Post(c, d)
    \/ Attempt(c)

Around ==
    \/ \E p \in Path : Settle(p) \/ Change(p)
    \/ ToggleWatching
    \/ LeaseExpires
    \/ FetchAgain
    \/ \E c \in Client : Sever(c) \/ Die(c)
    \/ ApiDies
    \/ ApiStarts

\* Nobody is in the middle of anything.
Rest ==
    /\ \A c \in Client : ~Busy(c)
    /\ UNCHANGED vars

Next == (\E c \in Client : Begin(c) \/ Step(c)) \/ Around \/ Rest

Spec == Init /\ [][Next]_vars

\* Beat runs the sweep again and again and delivers a queued run, processes and
\* the database go on, the recovery sweep finds a lease that ran out.
FairSpec ==
    /\ Spec
    /\ WF_vars(\E c \in Client : SweepScan(c))
    /\ WF_vars(\E c \in Client : Attempt(c))
    /\ \A c \in Client : WF_vars(Step(c))
    /\ WF_vars(LeaseExpires)

-----------------------------------------------------------------------------
(* Properties. *)

FileType == [media : MediaState, side : SidecarState, pack : {"ok", "broken"}]

RowType == [known : BOOLEAN, runs : Nat, asked : Nat, what : MaybeDigest,
            sha : MaybeDigest, meta : MaybeDigest]

FetchType == [state : {"none", "queued", "running", "failed", "done"},
              turn : Client \cup {Nobody}]

WorkType ==
    [doing : Doing, at : Path, todo : SUBSET Path, mine : SUBSET Path, minted : SUBSET Path,
     pc : {"idle", "next", "insert", "commit", "claim", "replace", "download", "publish",
           "link", "describe", "save"},
     what : MaybeDigest, sha : MaybeDigest, meta : MaybeDigest,
     info : BOOLEAN, swept : BOOLEAN]

TypeOK ==
    /\ way \in Way /\ watching \in BOOLEAN /\ serving \in BOOLEAN
    /\ files \in [Path -> FileType]
    /\ rows \in [Path -> RowType]
    /\ disk \in MaybeDigest
    /\ beside \subseteq Digest
    /\ fetch \in FetchType
    /\ work \in [Client -> WorkType]
    /\ env \in [ops : Nat, trouble : Nat, late : BOOLEAN]

(* "can never os.replace over the winner's bytes and leave the committed   *)
(* sha256/size describing a file that is no longer there"                  *)
(* (ingest/service.py:1989), "the row can never describe different bytes   *)
(* than source_path" (acquire.py:147): in whatever order overlapping posts *)
(* and attempts end, die and are swept, a recorded digest is the file's.   *)
(* An os.replace behind a broken connection (env.late) is the exception.   *)
RowDescribesBytes ==
    (Known(Form) /\ rows[Form].sha # NoDigest) => (disk = rows[Form].sha \/ env.late)

(* "a double-clicked confirm, a re-scan, or two concurrent confirms cannot *)
(* each queue another run for a file already ingested" (service.py:779);   *)
(* digests and metadata are written once: Intake implements MediaLedger.   *)
Ledger == INSTANCE MediaLedger WITH
    LedgerPath <- Path, LedgerDigest <- Digest, ledger <- rows

ImplementsLedger == Ledger!LedgerSpec

(* "a few permanently held files at the front of the walk order would      *)
(* occupy every cap slot and starve every file behind them forever"        *)
(* (setup_wizard.py:378), if the sweep capped its scan: a recording that   *)
(* stays settled in a watched folder, with a sidecar that stays fit, comes *)
(* in whatever else is held.  And a URL's run does not stay without an     *)
(* answer when its attempts die or are overtaken.                          *)
ArrivalsComeIn ==
    /\ \A p \in Path :
        []<>(\/ way # "folder" \/ ~watching \/ ~Settled(p) \/ ~SidecarReady(p)
             \/ Known(p))
    /\ fetch.state = "queued" ~> fetch.state \in {"failed", "done"}

(* "this inserts the MediaItem and mints its run atomically"               *)
(* (ingest/service.py:777): a recording that is known has a run.           *)
KnownHasRun == \A p \in Path : Known(p) => rows[p].runs > 0

(* "media published => its sidecar (if metadata was captured) is already   *)
(* beside it, closing the crash-between-publish-and-commit window"         *)
(* (acquire.py:137): an attempt that published captured metadata finds it. *)
InfoSurvives ==
    \A c \in Client :
        (At(c, "describe") /\ work[c].info /\ work[c].sha = work[c].what)
            => work[c].sha \in beside
=============================================================================
