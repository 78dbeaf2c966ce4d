------------------------------- MODULE IntakeInv -------------------------------
(***************************************************************************)
(* The inductive invariant of Intake.                                      *)
(***************************************************************************)
EXTENDS Intake

Folders == {"sweep", "confirm", "submit"}
Attempting == {"download", "publish", "link", "describe", "save"}

(* Where a client is says what it does, and what its transaction holds.    *)
PlaceOf(w) ==
    /\ (w.pc = "idle") <=> (w.doing = "nothing")
    /\ w.pc \in {"next", "insert"} => w.doing \in Folders
    /\ w.pc = "claim" => w.doing \in {"upload", "paste"} /\ w.mine = {} /\ w.minted = {}
    /\ w.pc = "replace" => w.doing = "upload" /\ w.mine \subseteq {Form} /\ w.minted = w.mine
    /\ w.pc = "commit" => w.doing \in Folders \cup {"upload", "paste"}
    /\ (w.pc = "commit" /\ w.doing \in {"upload", "paste"})
          => w.mine = {Form} /\ w.minted = {Form}
    /\ (w.pc \in Attempting) <=> (w.doing = "acquire")
    /\ w.doing \in {"nothing", "acquire"} => w.mine = {} /\ w.minted = {}
    /\ w.doing \in Folders => way = "folder" /\ w.what = NoDigest
    /\ w.doing = "upload" => way = "upload" /\ w.what \in Digest
    /\ w.doing \in {"paste", "acquire"} => way = "url"
    /\ w.pc \in {"publish", "link"} => w.what \in Digest
    /\ w.doing \in Console => serving
    /\ w.doing = "submit" =>
         \E q \in Path :
            /\ w.todo \cup w.mine \cup w.minted \subseteq {q}
            /\ w.todo # {} => w.mine = {} /\ w.minted = {}
            /\ w.pc = "insert" => w.at = q /\ w.todo = {} /\ w.mine = {} /\ w.minted = {}

PlaceInv == \A c \in Client : PlaceOf(work[c])

(* An uncommitted insert is of a path that is not known, and its           *)
(* transaction's alone; only a submission by path mints a run for a row    *)
(* that it did not insert.                                                 *)
InsertInv ==
    /\ \A c \in Client, p \in Path :
        /\ p \in work[c].mine => ~Known(p)
        /\ p \in work[c].minted /\ p \notin work[c].mine => Known(p) /\ Does(c, {"submit"})
    /\ \A c, d \in Client, p \in Path :
        p \in work[c].mine /\ p \in work[d].mine => c = d

RowsInv == \A p \in Path :
    /\ ~Known(p) => rows[p] = NoRow
    /\ rows[p].meta # NoDigest => rows[p].meta = rows[p].sha

(* The bytes an upload is about to commit are in place; what an attempt is *)
(* about to record is the digest of the published file.                    *)
BytesInv ==
    /\ RowDescribesBytes
    /\ \A c \in Client :
        /\ At(c, "commit") /\ Does(c, {"upload"}) => disk = work[c].what \/ env.late
        /\ Does(c, {"acquire"}) => Known(Form)
        /\ At(c, "describe") \/ At(c, "save") => work[c].sha = disk /\ disk # NoDigest
        /\ At(c, "save") =>
            /\ work[c].meta \in {NoDigest, work[c].sha}
            /\ rows[Form].meta \in {NoDigest, work[c].meta}
    /\ \A c, d \in Client : At(c, "save") /\ At(d, "save") => c = d
    /\ fetch.state # "none" => Known(Form) /\ way = "url"
    /\ way = "url" => ~env.late
    /\ way = "url" /\ ~Known(Form) => disk = NoDigest

IInv ==
    /\ TypeOK
    /\ PlaceInv
    /\ InsertInv
    /\ RowsInv
    /\ BytesInv
=============================================================================
