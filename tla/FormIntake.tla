------------------------------- MODULE FormIntake ------------------------------
(***************************************************************************)
(* One submission_id of the console's forms.  An upload claims the path's  *)
(* row, puts the bytes in place and commits; a pasted URL claims the row,  *)
(* and attempts of the run's ACQUIRE stage, which may overlap, download    *)
(* the bytes and publish them without overwriting.  At its start the API   *)
(* removes the files under incoming/ that no row names.                    *)
(***************************************************************************)
EXTENDS IntakeRows

\* Another POST of the form may carry other bytes or another address.
Post(c, what) ==
    /\ way \in {"upload", "url"} /\ serving /\ At(c, "idle") /\ Ask
    /\ Become(c, [Free EXCEPT !.doing = IF way = "upload" THEN "upload" ELSE "paste",
                              !.pc = "claim", !.what = what])
    /\ UNCHANGED <<way, watching, files, rows, disk, beside, fetch, serving>>

\* Faulty variant of Replayed: the bytes go to their place before the claim.
ReplayedLate(c) == disk' = work[c].what

\* _replay_run, _replay_url_run: the original run or 409, and nothing written.
Replayed(c) == disk' = disk

\* The SAVEPOINT insert of submit_upload and submit_url.
ClaimForm(c) ==
    /\ At(c, "claim") /\ ~Waits(c, Form)
    /\ \/ Known(Form) /\ Replayed(c) /\ Leave(c)
       \/ /\ ~Known(Form) /\ disk' = disk
          /\ Become(c, [work[c] EXCEPT !.mine = {Form}, !.minted = {Form},
                            !.pc = IF Does(c, {"upload"}) THEN "replace" ELSE "commit"])
    /\ UNCHANGED <<way, watching, files, rows, beside, fetch, serving, env>>

\* os.replace; the request does not know whether its transaction still lives,
\* and fails at its next statement when it does not.
ReplaceFile(c) ==
    /\ At(c, "replace")
    /\ disk' = work[c].what
    /\ IF work[c].mine = {}
       THEN Leave(c) /\ env' = [env EXCEPT !.late = TRUE]
       ELSE Become(c, [work[c] EXCEPT !.pc = "commit"]) /\ UNCHANGED env
    /\ UNCHANGED <<way, watching, files, rows, beside, fetch, serving>>

\* The connection breaks between the claim and os.replace.
Sever(c) ==
    /\ At(c, "replace") /\ work[c].mine # {} /\ GoWrong
    /\ Become(c, [work[c] EXCEPT !.mine = {}, !.minted = {}])
    /\ UNCHANGED <<way, watching, files, rows, disk, beside, fetch, serving>>

-----------------------------------------------------------------------------
(* Attempts of ACQUIRE. *)

Running(turn) == [state |-> "running", turn |-> turn]
Stopped(state) == [state |-> state, turn |-> Nobody]
HasTurn(c) == fetch = Running(c)

\* A file at the path is a download that was published: only its digest is
\* taken again.
Attempt(c) ==
    /\ way = "url" /\ At(c, "idle") /\ fetch.state = "queued"
    /\ fetch' = Running(c)
    /\ Become(c, IF disk = NoDigest
                 THEN [Free EXCEPT !.doing = "acquire", !.pc = "download"]
                 ELSE [Free EXCEPT !.doing = "acquire", !.pc = "describe",
                                   !.sha = IF rows[Form].sha = NoDigest THEN disk ELSE rows[Form].sha])
    /\ UNCHANGED <<way, watching, files, rows, disk, beside, serving, env>>

\* The site may answer with other bytes than last time; metadata is captured or
\* not.
Download(c, what) ==
    /\ At(c, "download") /\ ~work[c].swept
    /\ \E info \in BOOLEAN :
        Become(c, [work[c] EXCEPT !.pc = "publish", !.what = what, !.info = info])
    /\ UNCHANGED <<way, watching, files, rows, disk, beside, fetch, serving, env>>

\* The metadata goes beside the media file, under the digest's name, first.
PublishInfo(c) ==
    /\ At(c, "publish") /\ ~work[c].swept
    /\ beside' = IF work[c].info THEN beside \cup {work[c].what} ELSE beside
    /\ Become(c, [work[c] EXCEPT !.pc = "link"])
    /\ UNCHANGED <<way, watching, files, rows, disk, fetch, serving, env>>

\* Faulty variant of Linked: os.replace instead of os.link.
LinkedOver(c) == work[c].what

\* os.link: the first file published stays, a later attempt adopts it.
Linked(c) == IF disk = NoDigest THEN work[c].what ELSE disk

LinkFile(c) ==
    /\ At(c, "link") /\ ~work[c].swept
    /\ disk' = Linked(c)
    /\ Become(c, [work[c] EXCEPT !.pc = "describe", !.sha = Linked(c)])
    /\ UNCHANGED <<way, watching, files, rows, beside, fetch, serving, env>>

\* _ensure_source_metadata_row, behind any other transaction that updated the
\* row: only a sidecar of the authoritative digest is loaded, and only once.
Describe(c) ==
    /\ At(c, "describe") /\ \A d \in Client \ {c} : ~At(d, "save")
    /\ Become(c, [work[c] EXCEPT !.pc = "save",
            !.meta = IF rows[Form].meta = NoDigest /\ work[c].sha \in beside
                     THEN work[c].sha ELSE rows[Form].meta])
    /\ UNCHANGED <<way, watching, files, rows, disk, beside, fetch, serving, env>>

\* The stage's transaction commits with the run's CAS or not at all.
Save(c) ==
    /\ At(c, "save")
    /\ IF HasTurn(c)
       THEN /\ rows' = [rows EXCEPT ![Form].sha = work[c].sha, ![Form].meta = work[c].meta]
            /\ fetch' = Stopped("done")
       ELSE UNCHANGED <<rows, fetch>>
    /\ Leave(c)
    /\ UNCHANGED <<way, watching, files, disk, beside, serving, env>>

\* The site refuses, or the attempt's temporary files are gone: AcquisitionError
\* or OSError, no automatic retry.
FailAttempt(c) ==
    /\ \/ At(c, "download") /\ ~work[c].swept /\ GoWrong
       \/ work[c].swept /\ UNCHANGED env
    /\ fetch' = IF HasTurn(c) THEN Stopped("failed") ELSE fetch
    /\ Leave(c)
    /\ UNCHANGED <<way, watching, files, rows, disk, beside, serving>>

\* The recovery sweep takes the claim of a dead attempt, or of a living one
\* whose lease ran out.
LeaseExpires ==
    /\ fetch.state = "running"
    /\ \/ ~Does(fetch.turn, {"acquire"}) /\ UNCHANGED env
       \/ Does(fetch.turn, {"acquire"}) /\ GoWrong
    /\ fetch' = Stopped("queued")
    /\ UNCHANGED <<way, watching, files, rows, disk, beside, serving, work>>

\* Requeue of the failed run, restart of the completed one.
FetchAgain ==
    /\ fetch.state \in {"failed", "done"} /\ Ask
    /\ fetch' = Stopped("queued")
    /\ UNCHANGED <<way, watching, files, rows, disk, beside, serving, work>>

-----------------------------------------------------------------------------
(* Processes die and start. *)

Busy(c) == ~At(c, "idle")

\* A worker, a command or the database connection of a request dies.
Die(c) ==
    /\ Busy(c) /\ ~At(c, "replace") /\ GoWrong
    /\ Leave(c)
    /\ UNCHANGED <<way, watching, files, rows, disk, beside, fetch, serving>>

ApiDies ==
    /\ serving /\ GoWrong
    /\ serving' = FALSE
    /\ work' = [c \in Client |-> IF Does(c, Console) THEN Free ELSE work[c]]
    /\ UNCHANGED <<way, watching, files, rows, disk, beside, fetch>>

\* reconcile_orphaned_incoming: workers go on while it removes every file that
\* no row names, the temporary files and metadata sidecars of ACQUIRE too.
ApiStarts ==
    /\ ~serving
    /\ serving' = TRUE
    /\ disk' = IF Known(Form) THEN disk ELSE NoDigest
    /\ beside' = {}
    /\ work' = [c \in Client |->
                  IF work[c].pc \in {"download", "publish", "link"}
                  THEN [work[c] EXCEPT !.swept = TRUE] ELSE work[c]]
    /\ UNCHANGED <<way, watching, files, rows, fetch, env>>
=============================================================================
