---------------------------- MODULE EpochJournal ----------------------------
(***************************************************************************)
(* One Normalized epoch journal of capture_v2/epoch.py: the directory of   *)
(* one epoch on the hot volume, the NormalizedEpochJournal object that the *)
(* capture process drives, and the startup scan that a later process runs  *)
(* over the directory before it opens any network connection.              *)
(*                                                                         *)
(* Every durable file is created by an atomic create-if-absent link, so a  *)
(* write is one step with one of three outcomes: it returns, it fails      *)
(* before the link ("early"), or it fails after the link, in the directory *)
(* fsync or the reload check, with the file already visible ("late").  The *)
(* process may stop between any two steps; memory is lost, files remain.   *)
(* A hash is modelled by the record it is the hash of.                     *)
(***************************************************************************)
EXTENDS Naturals, Sequences, FiniteSets

CONSTANTS
  Segments,        \* Raw segments the epoch may reference
  Stamps,          \* values a call's created_at may take
  MaxPartRows,     \* max_part_rows: rows after which the open part is sealed
  MaxRows,         \* bound: records appended
  MaxCalls,        \* bound: finalize and abort calls of one process
  MaxFaults,       \* bound: I/O errors
  MaxCrashes,      \* bound: crashes
  LateFaults,      \* whether a write may fail after its file became visible
  InProcessRetry,  \* whether the caller may finalize or abort after a failed finalize
  None

ASSUME BoundsAssumption ==
  /\ MaxPartRows \in Nat \ {0}
  /\ MaxRows \in Nat /\ MaxCalls \in Nat /\ MaxFaults \in Nat /\ MaxCrashes \in Nat
  /\ LateFaults \in BOOLEAN /\ InProcessRetry \in BOOLEAN

VARIABLES
  \* The epoch directory and the snapshots of the lake.
  parts,      \* the number of the last row of each sealed part-N file, in order
  openPart,   \* rows of part-open.ndjson known to be on disk, None when absent
  prepared,   \* transaction-prepared-* files
  snapshots,  \* published Normalized snapshots of this epoch
  receipts,   \* receipt-* files (COMMITTED)
  aborts,     \* aborted-* files (explicit ABORTED, not retryable)
  failures,   \* finalize-failure-* files (ABORTED, retryable)
  \* The process and its journal object.
  proc,       \* what the process is doing
  pc,         \* where in the journal's code it is
  state,      \* _state
  memParts,   \* _parts
  openRows,   \* _open_rows
  records,    \* _records
  refs,       \* _raw_references
  nFail,      \* _finalize_failures
  nAttempt,   \* _finalize_attempts
  tx,         \* _prepared_transaction
  \* The call in progress.
  op,         \* which call
  stamp,      \* its created_at
  prep,       \* finalize: local variable prepared
  result,     \* finalize: local variable result
  calls,      \* calls made by this process
  \* The environment.
  faults, crashes

disk   == <<parts, openPart, prepared, snapshots, receipts, aborts, failures>>
memory == <<state, memParts, openRows, records, refs, nFail, nAttempt, tx>>
call   == <<op, stamp, prep, result, calls>>
env    == <<faults, crashes>>
vars   == <<disk, proc, pc, memory, call, env>>

-----------------------------------------------------------------------------
(* The files' contents. *)

\* A part is recorded by the number of the journal's last row in it, so the
\* rows of a sequence of parts are those up to its last part.
Rows(s) == IF s = <<>> THEN 0 ELSE s[Len(s)]

Transaction ==
  [attempt : Nat, created : Stamps, records : Nat, refs : SUBSET Segments, parts : Seq(Nat)]

Snapshot == [refs : SUBSET Segments, parts : Seq(Nat)]

\* _NormalizationSummary: an epoch without records publishes no snapshot and
\* still counts zero accepted rows.
Summary == [snapshot : Snapshot \cup {None}, accepted : Nat]

Terminal ==
  [prep : Transaction \cup {None}, created : Stamps, records : Nat,
   refs : SUBSET Segments, parts : Seq(Nat)]

Receipt == [prep : Transaction, records : Nat, refs : SUBSET Segments,
            parts : Seq(Nat), result : Summary]

Failure == [prep : Transaction \cup {None}, ordinal : Nat, records : Nat,
            refs : SUBSET Segments, parts : Seq(Nat), result : Summary \cup {None}]

ASSUME NoneAssumption ==
  /\ None \notin Nat /\ None \notin Segments /\ None \notin Stamps
  /\ None \notin Transaction /\ None \notin Snapshot /\ None \notin Summary

TypeOK ==
  /\ parts \in Seq(Nat) /\ openPart \in Nat \cup {None}
  /\ prepared \subseteq Transaction /\ snapshots \subseteq Snapshot
  /\ receipts \subseteq Receipt /\ aborts \subseteq Terminal /\ failures \subseteq Failure
  /\ proc \in {"capture", "down", "reconcile", "network", "blocked"}
  /\ pc \in {"idle", "seal", "unlink", "reopen", "prepare", "publish", "receipt", "fail", "abort"}
  /\ state \in {"OPEN", "PREPARED", "FINALIZED", "ABORTED"}
  /\ memParts \in Seq(Nat) /\ openRows \in Nat /\ records \in Nat
  /\ refs \in SUBSET Segments /\ nFail \in Nat /\ nAttempt \in Nat
  /\ tx \in Transaction \cup {None}
  /\ op \in {"append", "failed", "finalize", "abort"}
  /\ stamp \in Stamps \cup {None} /\ prep \in Transaction \cup {None}
  /\ result \in Summary \cup {None} /\ calls \in Nat
  /\ faults \in 0..MaxFaults /\ crashes \in 0..MaxCrashes

(* A new journal: its directory and its empty open part exist, nothing else. *)
Init ==
  /\ parts = <<>> /\ openPart = 0 /\ prepared = {} /\ snapshots = {}
  /\ receipts = {} /\ aborts = {} /\ failures = {}
  /\ proc = "capture" /\ pc = "idle"
  /\ state = "OPEN" /\ memParts = <<>> /\ openRows = 0 /\ records = 0 /\ refs = {}
  /\ nFail = 0 /\ nAttempt = 0 /\ tx = None
  /\ op = "append" /\ stamp = None /\ prep = None /\ result = None /\ calls = 0
  /\ faults = 0 /\ crashes = 0

-----------------------------------------------------------------------------
(* Outcomes of a write. *)

Ok == faults' = faults

Fault == faults < MaxFaults /\ faults' = faults + 1

LateFault == LateFaults /\ Fault

(* An exception leaves the call: finalize goes to its failure record, abort *)
(* and append go back to the caller, who appends no more.                   *)
Raise ==
  /\ pc' = IF op = "finalize" THEN "fail" ELSE "idle"
  /\ op' = IF op = "append" THEN "failed" ELSE op

\* Mutation of AfterSeal: finalize publishes before it writes PREPARED.
AfterSealPublish ==
  CASE op = "append" -> "idle" [] op = "finalize" -> "publish" [] op = "abort" -> "abort"

AfterSeal ==
  CASE op = "append" -> "idle" [] op = "finalize" -> "prepare" [] op = "abort" -> "abort"

-----------------------------------------------------------------------------
(* Streaming: append and record_segment. *)

RequireOpen == state = "OPEN"

\* The runner appends to the epoch only until its first finalize or abort.
Streaming == proc = "capture" /\ pc = "idle" /\ RequireOpen /\ op = "append"

(* One more record; the flush limits may or may not be reached, and a full *)
(* part is sealed before append returns.                                   *)
AppendRecord ==
  /\ Streaming
  /\ records < MaxRows
  /\ openRows' = openRows + 1
  /\ records' = records + 1
  /\ openPart' \in {openPart, openRows + 1}
  /\ pc' = IF openRows + 1 >= MaxPartRows THEN "seal" ELSE "idle"
  /\ UNCHANGED <<parts, prepared, snapshots, receipts, aborts, failures, proc, state,
                 memParts, refs, nFail, nAttempt, tx, call, env>>

RecordSegment(s) ==
  /\ Streaming
  /\ s \notin refs
  /\ refs' = refs \cup {s}
  /\ UNCHANGED <<disk, proc, pc, state, memParts, openRows, records, nFail, nAttempt, tx,
                 call, env>>

-----------------------------------------------------------------------------
(* _seal_part: link the open part under its final name, unlink it, verify, *)
(* remember it, and open a new part.                                       *)

Sealable == openPart # None /\ Len(parts) = Len(memParts)

\* Mutation of SealSkip: finalize and abort may leave the open part unsealed.
SealSkipAlways ==
  /\ pc = "seal"
  /\ pc' = AfterSeal
  /\ UNCHANGED <<disk, proc, memory, call, env>>

SealSkip ==
  /\ pc = "seal" /\ openRows = 0
  /\ pc' = AfterSeal
  /\ UNCHANGED <<disk, proc, memory, call, env>>

SealLink ==
  /\ pc = "seal" /\ openRows > 0 /\ Sealable
  /\ parts' = Append(parts, Rows(parts) + openRows)
  /\ openPart' = openRows
  /\ pc' = "unlink"
  /\ UNCHANGED <<prepared, snapshots, receipts, aborts, failures, proc, memory, call, env>>

(* The link or the hash of the open part cannot be made: an I/O error, or a *)
(* part that an earlier, interrupted seal already linked or unlinked.       *)
SealFails ==
  /\ pc = "seal" /\ openRows > 0
  /\ IF Sealable THEN Fault ELSE Ok
  /\ Raise
  /\ UNCHANGED <<disk, proc, memory, stamp, prep, result, calls, crashes>>

SealUnlink ==
  /\ pc = "unlink"
  /\ openPart' = None
  /\ pc' = "reopen"
  /\ UNCHANGED <<parts, prepared, snapshots, receipts, aborts, failures, proc, memory, call, env>>

SealLateFails ==
  /\ pc \in {"unlink", "reopen"}
  /\ LateFault
  /\ Raise
  /\ UNCHANGED <<disk, proc, memory, stamp, prep, result, calls, crashes>>

SealRemember ==
  /\ pc = "reopen"
  /\ memParts' = Append(memParts, Rows(memParts) + openRows)
  /\ openRows' = 0
  /\ \/ Ok /\ openPart' = 0 /\ pc' = AfterSeal /\ UNCHANGED op
     \/ Fault /\ Raise /\ UNCHANGED openPart
  /\ UNCHANGED <<parts, prepared, snapshots, receipts, aborts, failures, proc, state, records,
                 refs, nFail, nAttempt, tx, stamp, prep, result, calls, crashes>>

Seal == SealSkip \/ SealLink \/ SealFails \/ SealUnlink \/ SealLateFails \/ SealRemember

-----------------------------------------------------------------------------
(* finalize. *)

FinalizeCall(c) ==
  /\ proc = "capture" /\ pc = "idle" /\ RequireOpen
  /\ op = "append" \/ InProcessRetry
  /\ calls < MaxCalls
  /\ op' = "finalize" /\ stamp' = c /\ prep' = None /\ result' = None /\ calls' = calls + 1
  /\ pc' = "seal"
  /\ UNCHANGED <<disk, proc, memory, env>>

NoLineage == records > 0 /\ refs = {}

LineageMissing ==
  /\ pc = "prepare" /\ NoLineage
  /\ pc' = "fail"
  /\ UNCHANGED <<disk, proc, memory, call, env>>

(* _prepare_transaction with a pending transaction that recover reloaded.  *)
SameTransaction == tx.records = records /\ tx.refs = refs /\ tx.parts = memParts

AdoptPrepared ==
  /\ pc = "prepare" /\ ~NoLineage /\ tx # None /\ SameTransaction
  /\ state' = "PREPARED"
  /\ prep' = tx
  /\ pc' = "publish"
  /\ UNCHANGED <<disk, proc, memParts, openRows, records, refs, nFail, nAttempt, tx, op, stamp,
                 result, calls, env>>

NewTransaction ==
  [attempt |-> nAttempt + 1, created |-> stamp, records |-> records, refs |-> refs,
   parts |-> memParts]

WritePrepared ==
  /\ pc = "prepare" /\ ~NoLineage /\ tx = None
  /\ \/ /\ Ok
        /\ prepared' = prepared \cup {NewTransaction}
        /\ nAttempt' = nAttempt + 1
        /\ tx' = NewTransaction /\ prep' = NewTransaction
        /\ state' = "PREPARED"
        /\ pc' = "publish"
     \/ /\ Fault
        /\ pc' = "fail"
        /\ UNCHANGED <<prepared, nAttempt, tx, prep, state>>
     \/ /\ LateFault
        /\ prepared' = prepared \cup {NewTransaction}
        /\ pc' = "fail"
        /\ UNCHANGED <<nAttempt, tx, prep, state>>
  /\ UNCHANGED <<parts, openPart, snapshots, receipts, aborts, failures, proc, memParts, openRows,
                 records, refs, nFail, op, stamp, result, calls, crashes>>

PublishNothing ==
  /\ pc = "publish" /\ records = 0
  /\ result' = [snapshot |-> None, accepted |-> 0]
  /\ pc' = "receipt"
  /\ UNCHANGED <<disk, proc, memory, op, stamp, prep, calls, env>>

NewSnapshot == [refs |-> refs, parts |-> memParts]

PublishNormalized ==
  /\ pc = "publish" /\ records > 0
  /\ \/ /\ Ok
        /\ snapshots' = snapshots \cup {NewSnapshot}
        /\ result' = [snapshot |-> NewSnapshot, accepted |-> records]
        /\ pc' = "receipt"
     \/ /\ Fault
        /\ pc' = "fail"
        /\ UNCHANGED <<snapshots, result>>
     \/ /\ LateFault
        /\ snapshots' = snapshots \cup {NewSnapshot}
        /\ pc' = "fail"
        /\ UNCHANGED result
  /\ UNCHANGED <<parts, openPart, prepared, receipts, aborts, failures, proc, memory, op, stamp,
                 prep, calls, crashes>>

NewReceipt ==
  [prep |-> prep, records |-> records, refs |-> refs, parts |-> memParts, result |-> result]

WriteReceipt ==
  /\ pc = "receipt"
  /\ \/ /\ Ok
        /\ receipts' = receipts \cup {NewReceipt}
        /\ state' = "FINALIZED" /\ tx' = None
        /\ pc' = "idle"
     \/ /\ Fault
        /\ pc' = "fail"
        /\ UNCHANGED <<receipts, state, tx>>
     \/ /\ LateFault
        /\ receipts' = receipts \cup {NewReceipt}
        /\ pc' = "fail"
        /\ UNCHANGED <<state, tx>>
  /\ UNCHANGED <<parts, openPart, prepared, snapshots, aborts, failures, proc, memParts, openRows,
                 records, refs, nFail, nAttempt, call, crashes>>

NewFailure ==
  [prep |-> prep, ordinal |-> nFail + 1, records |-> records, refs |-> refs, parts |-> memParts,
   result |-> result]

(* _record_finalize_failure and the rest of finalize's handler: only after *)
(* a durable failure record does the journal forget the transaction.       *)
RecordFailure ==
  /\ pc = "fail"
  /\ nFail' = nFail + 1
  /\ pc' = "idle"
  /\ \/ /\ Ok
        /\ failures' = failures \cup {NewFailure}
        /\ state' = "OPEN" /\ tx' = None
     \/ /\ Fault
        /\ UNCHANGED <<failures, state, tx>>
     \/ /\ LateFault
        /\ failures' = failures \cup {NewFailure}
        /\ UNCHANGED <<state, tx>>
  /\ UNCHANGED <<parts, openPart, prepared, snapshots, receipts, aborts, proc, memParts, openRows,
                 records, refs, nAttempt, call, crashes>>

Finalize ==
  \/ LineageMissing \/ AdoptPrepared \/ WritePrepared \/ PublishNothing \/ PublishNormalized
  \/ WriteReceipt \/ RecordFailure

-----------------------------------------------------------------------------
(* abort_visible. *)

\* The collector aborts after a failed finalize only if it was cancelled during
\* the cleanup that finalizes; InProcessRetry includes that case.
\* Mutation of MayAbort: the caller also aborts after a failed finalize.
MayAbortAnytime == state \in {"OPEN", "PREPARED"}

MayAbort == state \in {"OPEN", "PREPARED"} /\ (op # "finalize" \/ InProcessRetry)

AbortCall(c) ==
  /\ proc = "capture" /\ pc = "idle" /\ MayAbort
  /\ calls < MaxCalls
  /\ op' = "abort" /\ stamp' = c /\ prep' = None /\ result' = None /\ calls' = calls + 1
  /\ pc' = IF state = "OPEN" THEN "seal" ELSE "abort"
  /\ UNCHANGED <<disk, proc, memory, env>>

NewAbort ==
  [prep |-> tx, created |-> IF tx = None THEN stamp ELSE tx.created, records |-> records,
   refs |-> refs, parts |-> memParts]

WriteAbort ==
  /\ pc = "abort"
  /\ pc' = "idle"
  /\ \/ /\ Ok
        /\ aborts' = aborts \cup {NewAbort}
        /\ state' = "ABORTED" /\ tx' = None
     \/ /\ Fault
        /\ UNCHANGED <<aborts, state, tx>>
     \/ /\ LateFault
        /\ aborts' = aborts \cup {NewAbort}
        /\ UNCHANGED <<state, tx>>
  /\ UNCHANGED <<parts, openPart, prepared, snapshots, receipts, failures, proc, memParts, openRows,
                 records, refs, nFail, nAttempt, call, crashes>>

-----------------------------------------------------------------------------
(* The process ends: by a crash anywhere, or because the caller is done.   *)
(* The rows still buffered for the open part may or may not reach it.      *)

LoseMemory ==
  /\ proc' = "down" /\ pc' = "idle"
  /\ openPart' \in IF openPart = None \/ pc \in {"unlink", "reopen"}
                   THEN {openPart} ELSE openPart..openRows
  /\ state' = "OPEN" /\ memParts' = <<>> /\ openRows' = 0 /\ records' = 0 /\ refs' = {}
  /\ nFail' = 0 /\ nAttempt' = 0 /\ tx' = None
  /\ op' = "failed" /\ stamp' = None /\ prep' = None /\ result' = None /\ calls' = 0
  /\ UNCHANGED <<parts, prepared, snapshots, receipts, aborts, failures, faults>>

Crash ==
  /\ proc \in {"capture", "reconcile"} /\ crashes < MaxCrashes
  /\ crashes' = crashes + 1
  /\ LoseMemory

Exit ==
  /\ proc \in {"capture", "reconcile"} /\ pc = "idle" /\ op # "append"
  /\ ~(proc = "reconcile" /\ state = "FINALIZED")
  /\ UNCHANGED crashes
  /\ LoseMemory

-----------------------------------------------------------------------------
(* reconcile_pending and recover: what the next process finds.             *)

Terminals == receipts \cup aborts \cup failures

\* _validate_prepared_binding: the file names exactly the sealed parts, and
\* records have Raw lineage.
BindsJournal(t) ==
  /\ t.parts = parts
  /\ t.records = Rows(parts)
  /\ Rows(parts) > 0 => t.refs # {}

\* _validate_terminal_binding: so does a terminal file, with the lineage of its
\* transaction.
BindsTerminal(t) ==
  /\ BindsJournal(t)
  /\ t.prep # None => t.refs = t.prep.refs

\* _validate_snapshot_binding: every record is accounted for, and the snapshot
\* named is visible, has the file's references and is what the journal's parts
\* produce.
BindsSnapshot(t) ==
  /\ t.result.accepted = t.records
  /\ IF t.result.snapshot = None
     THEN t.result.accepted = 0
     ELSE /\ t.result.snapshot \in snapshots
          /\ t.result.snapshot = [refs |-> t.refs, parts |-> parts]

\* A failure record may be replayed only if it names a snapshot with its row
\* counts, or neither.
ReplayableFailure(f) ==
  /\ f.prep # None => f.prep \in prepared
  /\ f.result # None => f.result.snapshot # None /\ BindsSnapshot(f)

\* No two terminal files for one transaction (or for the lack of one).
OneTerminalEach ==
  /\ \A f, g \in failures : f.prep = g.prep => f = g
  /\ \A r \in receipts : \A f \in failures : r.prep # f.prep
  /\ \A a \in aborts : a.prep # None => \A f \in failures : a.prep # f.prep

Pending == {p \in prepared : \A t \in Terminals : t.prep # p}

Decided == receipts # {} \/ aborts # {}

WellFormed ==
  /\ openPart \in {None, 0}
  /\ \A p \in prepared : BindsJournal(p)
  /\ \A t \in Terminals : BindsTerminal(t)
  /\ \A r \in receipts : r.prep \in prepared /\ BindsSnapshot(r)
  /\ \A a \in aborts : a.prep # None => a.prep \in prepared
  /\ \A f \in failures : ReplayableFailure(f)
  /\ Cardinality(receipts) <= 1 /\ Cardinality(aborts) <= 1
  /\ receipts = {} \/ aborts = {}
  /\ OneTerminalEach
  /\ Cardinality(Pending) <= 1

Settled == WellFormed /\ Decided /\ Pending = {}

\* Mutation of Replayable: a retryable ABORTED transaction is not replayed.
ReplayablePending ==
  /\ WellFormed /\ ~Decided
  /\ failures = {}
  /\ prepared # {}

Replayable ==
  /\ WellFormed /\ ~Decided
  /\ \A f \in failures : f.prep # None
  /\ prepared # {}

\* The transaction a replay starts from: the pending one, else the last.
LastTransaction(p) ==
  IF Pending # {} THEN p \in Pending ELSE p \in prepared /\ \A q \in prepared : q.attempt <= p.attempt

Block ==
  /\ proc = "down" /\ ~Settled /\ ~Replayable
  /\ proc' = "blocked"
  /\ UNCHANGED <<disk, pc, memory, call, env>>

Skip ==
  /\ proc = "down" /\ Settled
  /\ proc' = "network"
  /\ UNCHANGED <<disk, pc, memory, call, env>>

LastAttempt ==
  IF prepared = {} THEN 0
  ELSE CHOOSE n \in {p.attempt : p \in prepared} : \A p \in prepared : p.attempt <= n

Recover ==
  /\ proc = "down" /\ Replayable
  /\ \E p \in prepared :
       /\ LastTransaction(p)
       /\ stamp' = p.created
       /\ refs' = p.refs
       /\ tx' = IF Pending # {} THEN p ELSE None
  /\ proc' = "reconcile" /\ pc' = "seal"
  /\ openPart' = 0
  /\ state' = "OPEN" /\ memParts' = parts /\ openRows' = 0 /\ records' = Rows(parts)
  /\ nFail' = Cardinality(failures)
  /\ nAttempt' = LastAttempt
  /\ op' = "finalize" /\ prep' = None /\ result' = None /\ calls' = 0
  /\ UNCHANGED <<parts, prepared, snapshots, receipts, aborts, failures, env>>

StartNetwork ==
  /\ proc = "reconcile" /\ pc = "idle" /\ state = "FINALIZED"
  /\ proc' = "network"
  /\ UNCHANGED <<disk, pc, memory, call, env>>

(* The scan's verdict is final for this epoch. *)
Done == proc \in {"network", "blocked"} /\ UNCHANGED vars

-----------------------------------------------------------------------------
Step == Seal \/ Finalize \/ WriteAbort

Next ==
  \/ AppendRecord
  \/ \E s \in Segments : RecordSegment(s)
  \/ \E c \in Stamps : FinalizeCall(c) \/ AbortCall(c)
  \/ Step
  \/ Crash \/ Exit
  \/ Block \/ Skip \/ Recover \/ StartNetwork
  \/ Done

Spec == Init /\ [][Next]_vars

(***************************************************************************)
(* Fairness.  finalize, abort_visible and _seal_part are synchronous code: *)
(* once entered they run to their end.  A runner whose terminal call has   *)
(* failed returns, and the operator starts the collector again.            *)
(***************************************************************************)
FairSpec ==
  /\ Spec
  /\ WF_vars(Step)
  /\ WF_vars(Exit)
  /\ WF_vars(Block \/ Skip \/ Recover \/ StartNetwork)

-----------------------------------------------------------------------------
(* Properties. *)

\* Write-ahead: no snapshot of the epoch is ever visible that a durable
\* PREPARED transaction with the same parts and lineage did not announce,
\* whatever write failed and wherever the process died.
WriteAhead ==
  \A s \in snapshots : \E p \in prepared : p.refs = s.refs /\ p.parts = s.parts

\* An epoch ends in one decision: never two receipts, never two explicit
\* aborts, never a receipt beside an abort, over any retries and restarts.
OneDecision ==
  /\ Cardinality(receipts) <= 1 /\ Cardinality(aborts) <= 1
  /\ receipts = {} \/ aborts = {}

\* A COMMITTED receipt speaks for the whole journal: its PREPARED file exists,
\* every record appended before the receipt is in the sealed parts it names,
\* and the snapshot it names is visible and was built from those parts.
CommittedIsComplete ==
  \A r \in receipts :
    /\ r.prep \in prepared
    /\ openPart \in {None, 0}
    /\ BindsJournal(r) /\ BindsSnapshot(r)

\* After a receipt or an explicit abort is durable nothing in the epoch
\* directory, nor any snapshot of the epoch, changes any more.
DecisionIsFinal == [][Decided => UNCHANGED disk]_disk

\* A finalize attempt failed before its PREPARED file existed, and said so.
Unprepared == \E f \in failures : f.prep = None

\* Once PREPARED is durable for an epoch with records, crashes and I/O errors
\* only delay the receipt, unless they make a later attempt record a failure
\* without a PREPARED file.
PreparedCommits == (prepared # {} /\ parts # <<>>) ~> (receipts # {} \/ Unprepared)

\* The journal implements the abstract decision.
DecisionView ==
  IF receipts # {} THEN "committed"
  ELSE IF aborts # {} THEN "aborted"
  ELSE IF prepared # {} THEN "prepared" ELSE "open"

Abstract == INSTANCE EpochDecision WITH decision <- DecisionView, visible <- snapshots # {}

ImplementsDecision == Abstract!Spec

=============================================================================
