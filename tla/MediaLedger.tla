------------------------------ MODULE MediaLedger ------------------------------
(***************************************************************************)
(* What taking recordings in promises: a path is entered once and stays;   *)
(* it gets at most one run that nobody asked for by name; the digest of    *)
(* its bytes is recorded once and never changed; its metadata describes    *)
(* those bytes and is written once.                                        *)
(***************************************************************************)
EXTENDS Naturals

CONSTANTS LedgerPath, LedgerDigest

VARIABLE ledger

None == 0
MaybeLedgerDigest == LedgerDigest \cup {None}

NotEntered ==
    [known |-> FALSE, runs |-> 0, asked |-> 0, what |-> None, sha |-> None, meta |-> None]

Entered(p) == ledger[p].known

Entries ==
    {e \in [known : {TRUE}, runs : {0, 1}, asked : {0, 1}, what : MaybeLedgerDigest,
            sha : MaybeLedgerDigest, meta : {None}] : e.asked <= e.runs}

LedgerInit == ledger = [p \in LedgerPath |-> NotEntered]

\* A batch enters some recordings.
Enter ==
    \E entry \in [LedgerPath -> Entries \cup {NotEntered}] :
        ledger' = [p \in LedgerPath |-> IF Entered(p) THEN ledger[p] ELSE entry[p]]

\* An operator asks for one more run.
RunAgain(p) ==
    /\ Entered(p)
    /\ ledger' = [ledger EXCEPT ![p].runs = @ + 1, ![p].asked = @ + 1]

\* The digest, and metadata of the same bytes.
Record(p, digest, meta) ==
    /\ Entered(p) /\ digest # None
    /\ ledger[p].sha \in {None, digest}
    /\ ledger[p].meta \in {None, meta}
    /\ meta \in {None, digest}
    /\ ledger' = [ledger EXCEPT ![p].sha = digest, ![p].meta = meta]

LedgerNext ==
    \/ Enter
    \/ \E p \in LedgerPath :
        \/ RunAgain(p)
        \/ \E digest, meta \in MaybeLedgerDigest : Record(p, digest, meta)

LedgerSpec == LedgerInit /\ [][LedgerNext]_ledger

-----------------------------------------------------------------------------
(* What a ledger kept this way can be read for. *)

\* Of a recording's runs at most one was not asked for by name, however often the
\* folder was scanned or the form posted; and its metadata is of its digest.
EntriesHonest ==
    \A p \in LedgerPath :
        /\ ledger[p].runs <= ledger[p].asked + 1
        /\ ledger[p].meta \in {None, ledger[p].sha}

\* What is entered stands: a path stays known as what it came as, no run is taken
\* back, and a digest or metadata once recorded is not recorded again otherwise,
\* by whichever attempt comes late.
EntriesStand ==
    \A p \in LedgerPath :
        /\ Entered(p) => /\ ledger'[p].known /\ ledger'[p].what = ledger[p].what
                        /\ ledger'[p].runs >= ledger[p].runs
        /\ ledger[p].sha # None => ledger'[p].sha = ledger[p].sha
        /\ ledger[p].meta # None => ledger'[p].meta = ledger[p].meta

NothingRewritten == [][EntriesStand]_ledger
=============================================================================
