------------------------------ MODULE FolderIntake -----------------------------
(***************************************************************************)
(* Recordings that lie in the operator's folders: the beat task            *)
(* watch_sweep, the wizard's "scan for existing media" and a submission    *)
(* by path.  The recording, its YAML sidecar and the folder's domain pack  *)
(* change under all of them.  A scan lists a directory in no order the     *)
(* program chooses.                                                        *)
(***************************************************************************)
EXTENDS IntakeRows

MediaState == {"absent", "copying", "settled"}
SidecarState == {"none", "writing", "bad", "good"}

Present(p) == files[p].media # "absent"
Settled(p) == files[p].media = "settled"

\* scan_media_folders: what lies in the folders and no media row claims.
NetNew == {p \in Path : Present(p) /\ ~Known(p)}

\* _paired_sidecar: no problem with it, and nobody is writing it.
SidecarReady(p) == files[p].side \in {"none", "good"}

\* Faulty variant of Listed: the wizard's file cap on the sweep's scan.
ListedCapped(S) == {T \in SUBSET S : Cardinality(T) = IF Cardinality(S) > FileCap THEN FileCap ELSE Cardinality(S)}

\* What a sweep takes from its scan: everything (apply_file_cap=False).
Listed(S) == {S}

\* What a confirm takes: as much as the file cap lets through.
Capped(S) ==
    {T \in SUBSET S : \/ Cardinality(S) <= FileCap /\ T = S
                      \/ Cardinality(S) > FileCap /\ Cardinality(T) = FileCap}

\* The sweep drops what is still being copied, once, by one clock reading.
SweepScan(c) ==
    /\ way = "folder" /\ watching /\ At(c, "idle")
    /\ \E listed \in Listed(NetNew) :
        LET settled == {p \in listed : Settled(p)} IN
        /\ settled # {}
        /\ Become(c, [Free EXCEPT !.doing = "sweep", !.pc = "next", !.todo = settled])
    /\ UNCHANGED <<way, watching, files, rows, disk, beside, fetch, serving, env>>

\* setup_scan_confirm: looks at no settle window and at no sidecar.
ConfirmScan(c) ==
    /\ way = "folder" /\ serving /\ At(c, "idle") /\ Ask
    /\ \E listed \in Capped(NetNew) :
        /\ listed # {}
        /\ Become(c, [Free EXCEPT !.doing = "confirm", !.pc = "next", !.todo = listed])
    /\ UNCHANGED <<way, watching, files, rows, disk, beside, fetch, serving>>

\* `voxint submit` and the library's re-run: one path, known or not.
SubmitPath(c, p) ==
    /\ way = "folder" /\ At(c, "idle") /\ Present(p) /\ Ask
    /\ Become(c, [Free EXCEPT !.doing = "submit", !.pc = "next", !.todo = {p}])
    /\ UNCHANGED <<way, watching, files, rows, disk, beside, fetch, serving>>

Full(c) == Does(c, {"sweep"}) /\ Cardinality(work[c].minted) >= BatchLimit

\* One turn of the loop: the sweep looks at the sidecar first and passes over a
\* recording whose sidecar is being written or has a problem.
TakeNext(c, p) ==
    /\ At(c, "next") /\ p \in work[c].todo /\ ~Full(c)
    /\ Become(c, [work[c] EXCEPT !.todo = @ \ {p}, !.at = p,
                    !.pc = IF Does(c, {"sweep"}) /\ ~SidecarReady(p) THEN "next" ELSE "insert"])
    /\ UNCHANGED <<way, watching, files, rows, disk, beside, fetch, serving, env>>

EndOfBatch(c) ==
    /\ At(c, "next") /\ (work[c].todo = {} \/ Full(c))
    /\ Become(c, [work[c] EXCEPT !.todo = {}, !.pc = "commit"])
    /\ UNCHANGED <<way, watching, files, rows, disk, beside, fetch, serving, env>>

\* Freezing the run's config raises DomainPackError.
PackBroken(p) == files[p].pack = "broken"

\* Faulty variant of AfterKnown: a path that is known gets one more run.
AfterKnownRerun(c, p) == [work[c] EXCEPT !.pc = "next", !.minted = @ \cup {p}]

\* The insert met a committed row: a batch passes over it, a submission by path
\* adopts it and mints one more run.
AfterKnown(c, p) ==
    CASE ~Does(c, {"submit"}) -> [work[c] EXCEPT !.pc = "next"]
      [] PackBroken(p) -> Free
      [] OTHER -> [work[c] EXCEPT !.pc = "next", !.minted = @ \cup {p}]

\* The insert went through.  The sweep catches a DomainPackError and goes on
\* with the row in its transaction; the others roll everything back.
AfterInsert(c, p) ==
    CASE ~PackBroken(p) ->
            [work[c] EXCEPT !.pc = "next", !.mine = @ \cup {p}, !.minted = @ \cup {p}]
      [] Does(c, {"sweep"}) -> [work[c] EXCEPT !.pc = "next", !.mine = @ \cup {p}]
      [] OTHER -> Free

\* submit_media_item_if_new, submit_media_item.
InsertRow(c) ==
    LET p == work[c].at IN
    /\ At(c, "insert") /\ Does(c, {"sweep", "confirm", "submit"})
    /\ ~Waits(c, p)
    /\ Become(c, IF Known(p) THEN AfterKnown(c, p) ELSE AfterInsert(c, p))
    /\ UNCHANGED <<way, watching, files, rows, disk, beside, fetch, serving, env>>

\* Two transactions wait for one another: the database aborts one of them, its
\* task or request ends with the error, and the other's insert goes through.
DeadlockVictim(c) ==
    /\ At(c, "insert")
    /\ \E d \in Client :
        /\ Blocks(d, c, work[c].at)
        /\ At(d, "insert") /\ Blocks(c, d, work[d].at)
        /\ work' = [work EXCEPT ![c] = Free, ![d] = AfterInsert(d, work[d].at)]
    /\ UNCHANGED <<way, watching, files, rows, disk, beside, fetch, serving, env>>

-----------------------------------------------------------------------------
(* What happens around the program. *)

ToggleWatching ==
    /\ way = "folder" /\ Ask
    /\ watching' = ~watching
    /\ UNCHANGED <<way, files, rows, disk, beside, fetch, serving, work>>

\* A copy ends; the writer of a sidecar closes it, right or wrong.
Settle(p) ==
    /\ way = "folder"
    /\ \/ files[p].media = "copying" /\ files' = [files EXCEPT ![p].media = "settled"]
       \/ /\ files[p].side = "writing"
          /\ \E side \in {"bad", "good"} : files' = [files EXCEPT ![p].side = side]
    /\ UNCHANGED <<way, watching, rows, disk, beside, fetch, serving, work, env>>

\* Somebody copies a recording over, takes it away, writes or removes its
\* sidecar, breaks or repairs its folder's pack.
Change(p) ==
    /\ way = "folder" /\ GoWrong
    /\ \/ \E state \in {"absent", "copying"} :
            files[p].media # state /\ files' = [files EXCEPT ![p].media = state]
       \/ \E state \in {"none", "writing"} :
            files[p].side # state /\ files' = [files EXCEPT ![p].side = state]
       \/ \E state \in {"ok", "broken"} :
            files[p].pack # state /\ files' = [files EXCEPT ![p].pack = state]
    /\ UNCHANGED <<way, watching, rows, disk, beside, fetch, serving, work>>
=============================================================================
