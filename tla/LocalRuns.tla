----------------------------- MODULE LocalRuns -----------------------------
(***************************************************************************)
(* The .pctr directory of a workspace (store.mjs, keys.mjs) and the         *)
(* commands "pctr protect" and "pctr simulate" that share it, each a        *)
(* process of its own.  A command reads the receipts on disk, loads or      *)
(* makes the signing key, issues a receipt that names the newest one it     *)
(* read, and saves it.  Files are written in place: opened and truncated,   *)
(* then filled; between the two, or after a crash between the two, a file   *)
(* is torn.                                                                 *)
(*                                                                          *)
(* A key is known by the run that made it, a receipt by its run.            *)
(***************************************************************************)
EXTENDS Integers, SequencesExt

CONSTANTS
  Runs,   \* the commands that are run, each once
  None    \* no key, no receipt

ASSUME RunsAssumption == Runs \cap {None, "torn"} = {} /\ None # "torn"

VARIABLES
  now,        \* the time, which passes between the launches of two commands
  key,        \* .pctr/keys/signing-key.pem
  files,      \* the receipt files in .pctr/receipts
  runs,       \* how far each run is and the receipt it issues
  overlaps,   \* the pairs of runs that were in progress together (history)
  makers      \* the runs that set out to make the key (history)

vars == <<now, key, files, runs, overlaps, makers>>

Phases == {"idle", "started", "making", "writing", "keyed", "issued", "saving",
           "saved", "failed"}

Run == [phase: Phases, prior: Runs \cup {None}, key: Runs \cup {None}, at: Nat]

TypeOK ==
  /\ now \in Nat
  /\ key \in Runs \cup {None, "torn"}
  /\ files \in [Runs -> {"none", "torn", "whole"}]
  /\ runs \in [Runs -> Run]
  /\ overlaps \subseteq SUBSET Runs
  /\ makers \subseteq Runs

Init ==
  /\ now = 0
  /\ key = None
  /\ files = [r \in Runs |-> "none"]
  /\ runs = [r \in Runs |-> [phase |-> "idle", prior |-> None, key |-> None, at |-> 0]]
  /\ overlaps = {}
  /\ makers = {}

InProgress(r) == runs[r].phase \notin {"idle", "saved", "failed"}

At(r, phase) == runs[r].phase = phase

Goes(r, phase) == runs' = [runs EXCEPT ![r].phase = phase]

-----------------------------------------------------------------------------
(* The receipts on disk. *)

Torn == {r \in Runs : files[r] = "torn"}

Whole == {r \in Runs : files[r] = "whole"}

\* Mutant: the receipts are listed like the runs, the newest first.
ListNewestFirst ==
  CHOOSE q \in SetToSeqs(Whole) :
    \A i, j \in DOMAIN q : i < j => runs[q[i]].at >= runs[q[j]].at

\* listReceipts, sorted by the time of issue.
listReceipts ==
  CHOOSE q \in SetToSeqs(Whole) :
    \A i, j \in DOMAIN q : i < j => runs[q[i]].at <= runs[q[j]].at

\* The receipts that may come last: those of one millisecond are listed in the
\* order of their random names.
Newest == {r \in Whole : \A s \in Whole : runs[s].at <= runs[r].at}

\* verifyReceiptChain.
verifyReceiptChain ==
  \A k \in 1..Len(listReceipts) :
    runs[listReceipts[k]].prior = IF k = 1 THEN None ELSE listReceipts[k - 1]

-----------------------------------------------------------------------------
(* The steps of a run. *)

Begins(r, priors) ==
  /\ At(r, "idle")
  /\ now' = now + 1
  /\ overlaps' = overlaps \cup {{r, s} : s \in {s \in Runs : InProgress(s)}}
  /\ \/ Torn # {} /\ Goes(r, "failed")
     \/ /\ Torn = {}
        /\ \E p \in IF Whole = {} THEN {None} ELSE priors :
             runs' = [runs EXCEPT ![r].phase = "started", ![r].prior = p]
  /\ UNCHANGED <<key, files, makers>>

\* The receipts are read; a torn one does not parse, and the command fails.
Start(r) == Begins(r, Newest)

HoldsKey(r, k) == runs' = [runs EXCEPT ![r].phase = "keyed", ![r].key = k]

\* Mutant: every run signs with a key of its own.
LoadKeyAnew(r) ==
  /\ At(r, "started")
  /\ \/ key \notin Runs /\ Goes(r, "making") /\ makers' = makers \cup {r}
     \/ key \in Runs /\ HoldsKey(r, r) /\ UNCHANGED makers
  /\ UNCHANGED <<now, key, files, overlaps>>

\* loadOrCreateKeyPair: the key on disk, or one to be made; a torn key does not
\* parse, and defaultKeyPair falls back to a key that is not kept.
LoadKey(r) ==
  /\ At(r, "started")
  /\ \/ key = None /\ Goes(r, "making") /\ makers' = makers \cup {r}
     \/ key = "torn" /\ HoldsKey(r, r) /\ UNCHANGED makers
     \/ key \in Runs /\ HoldsKey(r, key) /\ UNCHANGED makers
  /\ UNCHANGED <<now, key, files, overlaps>>

CreateKey(r) ==
  /\ At(r, "making")
  /\ key' = "torn"
  /\ Goes(r, "writing")
  /\ UNCHANGED <<now, files, overlaps, makers>>

FillKey(r) ==
  /\ At(r, "writing")
  /\ key' = r
  /\ HoldsKey(r, r)
  /\ UNCHANGED <<now, files, overlaps, makers>>

\* The key cannot be written: defaultKeyPair makes another, which is not kept.
KeyFails(r) ==
  /\ At(r, "making") \/ At(r, "writing")
  /\ HoldsKey(r, r)
  /\ UNCHANGED <<now, key, files, overlaps, makers>>

issueReceipt(r) ==
  /\ At(r, "keyed")
  /\ runs' = [runs EXCEPT ![r].phase = "issued", ![r].at = now]
  /\ UNCHANGED <<now, key, files, overlaps, makers>>

\* saveReceipt, in two steps.
CreateReceipt(r) ==
  /\ At(r, "issued")
  /\ files' = [files EXCEPT ![r] = "torn"]
  /\ Goes(r, "saving")
  /\ UNCHANGED <<now, key, overlaps, makers>>

FillReceipt(r) ==
  /\ At(r, "saving")
  /\ files' = [files EXCEPT ![r] = "whole"]
  /\ Goes(r, "saved")
  /\ UNCHANGED <<now, key, overlaps, makers>>

\* The process ends, or an awaited step of the command throws.
Crash(r) ==
  /\ InProgress(r)
  /\ Goes(r, "failed")
  /\ UNCHANGED <<now, key, files, overlaps, makers>>

\* A receipt is removed from the directory.
Delete(r) ==
  /\ files[r] = "whole"
  /\ files' = [files EXCEPT ![r] = "none"]
  /\ UNCHANGED <<now, key, runs, overlaps, makers>>

Next ==
  \E r \in Runs :
    \/ Start(r) \/ LoadKey(r) \/ CreateKey(r) \/ FillKey(r) \/ KeyFails(r)
    \/ issueReceipt(r) \/ CreateReceipt(r) \/ FillReceipt(r)
    \/ Crash(r) \/ Delete(r)

Spec == Init /\ [][Next]_vars

-----------------------------------------------------------------------------
(* Properties. *)

\* Two receipts on disk that continue the same receipt were issued by runs that
\* were in progress together.
ForksAreOverlaps ==
  \A r, s \in Whole :
    r # s /\ runs[r].prior = runs[s].prior => {r, s} \in overlaps

\* When runs do not overlap, the chain verifies exactly if every receipt that a
\* receipt on disk continues is still on disk.
ChainTells ==
  overlaps = {} /\ Torn = {} =>
    (verifyReceiptChain <=> \A r \in Whole : runs[r].prior \in Whole \cup {None})

\* A receipt is signed with the key on disk, once that is complete, unless its run
\* set out to make the key itself or was in progress together with one that did.
SignedByStore ==
  key \in Runs =>
    \A r \in Whole : runs[r].key = key \/ \E m \in makers : m = r \/ {m, r} \in overlaps

\* What concurrent commands leave of the workspace: forks and foreign keys only where
\* commands were in progress together, and a chain that tells what is gone.
WorkspaceInv == TypeOK /\ ForksAreOverlaps /\ SignedByStore /\ ChainTells
=============================================================================
