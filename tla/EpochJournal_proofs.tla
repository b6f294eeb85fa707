------------------------ MODULE EpochJournal_proofs ------------------------
(* What holds of the epoch journal for every value of the constants: any    *)
(* number of segments, rows, calls, I/O errors and crashes.                 *)
EXTENDS EpochJournal, FiniteSetTheorems, TLAPS

-----------------------------------------------------------------------------
(* Types.  Where the code is decides which of its locals are set. *)

Locals ==
  /\ pc \in {"seal", "unlink", "reopen"} => op # "failed"
  /\ op \in {"finalize", "abort"} => stamp \in Stamps
  /\ pc \in {"prepare", "publish", "receipt", "fail"} => op = "finalize"
  /\ pc = "abort" => op = "abort"
  /\ pc \in {"publish", "receipt"} => prep \in Transaction
  /\ pc = "receipt" => result \in Summary

\* The files the startup scan counts are finitely many, and the attempt it
\* continues from exists.
Countable ==
  /\ IsFiniteSet(failures)
  /\ prepared = {} \/ \E p \in prepared : \A q \in prepared : q.attempt <= p.attempt

TypeInv == TypeOK /\ Locals /\ Countable

\* The number of rows a sequence of parts ends at is a number.
LEMMA RowsType == \A s \in Seq(Nat) : Rows(s) \in Nat
  BY DEF Rows

\* A file set with one more attempt still has a last attempt.
LEMMA LastAttemptKept ==
  ASSUME NEW P \in SUBSET Transaction, NEW t \in Transaction,
         P = {} \/ \E p \in P : \A q \in P : q.attempt <= p.attempt
  PROVE  \E p \in P \cup {t} : \A q \in P \cup {t} : q.attempt <= p.attempt
<1>1. CASE P = {}
  BY <1>1 DEF Transaction
<1>2. CASE \E p \in P : \A q \in P : q.attempt <= p.attempt
  <2>1. PICK p \in P : \A q \in P : q.attempt <= p.attempt
    BY <1>2
  <2>2. p.attempt \in Nat /\ t.attempt \in Nat
    BY DEF Transaction
  <2>3. CASE t.attempt <= p.attempt
    BY <2>1, <2>3
  <2>4. CASE p.attempt <= t.attempt
    <3>1. \A q \in P : q.attempt \in Nat
      BY DEF Transaction
    <3>2. \A q \in P \cup {t} : q.attempt <= t.attempt
      BY <2>1, <2>2, <2>4, <3>1
    <3> QED BY <3>2
  <2> QED BY <2>2, <2>3, <2>4
<1> QED BY <1>1, <1>2

\* LastAttempt is the attempt of a PREPARED file, or zero.
LEMMA LastAttemptType ==
  ASSUME prepared \subseteq Transaction, Countable
  PROVE  LastAttempt \in Nat
<1>1. CASE prepared = {}
  BY <1>1 DEF LastAttempt
<1>2. CASE prepared # {}
  <2>1. PICK p \in prepared : \A q \in prepared : q.attempt <= p.attempt
    BY <1>2 DEF Countable
  <2>2. p.attempt \in {q.attempt : q \in prepared}
    BY <2>1
  <2>3. LastAttempt \in {q.attempt : q \in prepared}
    BY <1>2, <2>1, <2>2 DEF LastAttempt
  <2>4. \A q \in prepared : q.attempt \in Nat
    BY DEF Transaction
  <2> QED BY <2>3, <2>4
<1> QED BY <1>1, <1>2

LEMMA TypeInit == Init => TypeInv
  BY BoundsAssumption, FS_EmptySet
  DEF Init, TypeInv, TypeOK, Locals, Countable, BoundsAssumption, Transaction, Snapshot, Receipt, Terminal, Failure

LEMMA TypeStreaming ==
  ASSUME TypeInv,
         AppendRecord \/ \E s \in Segments : RecordSegment(s)
  PROVE  TypeInv'
<1> USE DEF TypeInv, TypeOK, Locals, Countable, Streaming, disk, memory, call, env
<1>1. CASE AppendRecord
  BY <1>1 DEF AppendRecord
<1>2. ASSUME NEW s \in Segments, RecordSegment(s) PROVE TypeInv'
  BY <1>2 DEF RecordSegment
<1> QED BY <1>1, <1>2

LEMMA TypeSeal == TypeInv /\ Seal => TypeInv'
<1> SUFFICES ASSUME TypeInv, Seal PROVE TypeInv'
  OBVIOUS
<1> USE DEF TypeInv, TypeOK, Locals, Countable, disk, memory, call, env
<1>1. AfterSeal \in {"idle", "prepare", "abort"} /\ (AfterSeal = "prepare" => op = "finalize")
      /\ (AfterSeal = "abort" => op = "abort")
  <2>1. op \in {"append", "finalize", "abort"}
    BY DEF Seal, SealSkip, SealLink, SealFails, SealUnlink, SealLateFails, SealRemember
  <2> QED BY <2>1 DEF AfterSeal
<1>2. CASE SealSkip
  BY <1>1, <1>2 DEF SealSkip
<1>3. CASE SealLink
  <2>1. parts' \in Seq(Nat)
    BY <1>3, RowsType DEF SealLink
  <2> QED BY <1>3, <2>1 DEF SealLink
<1>4. CASE SealFails
  BY <1>4, BoundsAssumption DEF SealFails, Fault, Ok, Raise, BoundsAssumption
<1>5. CASE SealUnlink
  BY <1>5 DEF SealUnlink
<1>6. CASE SealLateFails
  BY <1>6, BoundsAssumption DEF SealLateFails, LateFault, Fault, Raise, BoundsAssumption
<1>7. CASE SealRemember
  <2>1. memParts' \in Seq(Nat)
    BY <1>7, RowsType DEF SealRemember
  <2>2. faults' \in 0..MaxFaults
    BY <1>7, BoundsAssumption DEF SealRemember, Fault, Ok, BoundsAssumption
  <2> QED BY <1>1, <1>7, <2>1, <2>2 DEF SealRemember, Raise
<1> QED BY <1>2, <1>3, <1>4, <1>5, <1>6, <1>7 DEF Seal

LEMMA TypeCalls ==
  ASSUME TypeInv, NEW c \in Stamps, FinalizeCall(c) \/ AbortCall(c)
  PROVE  TypeInv'
  BY DEF FinalizeCall, AbortCall, TypeInv, TypeOK, Locals, Countable, disk, memory, env

LEMMA TypeNewTransaction ==
  ASSUME TypeInv, pc = "prepare"
  PROVE  NewTransaction \in Transaction
  BY DEF TypeInv, TypeOK, Locals, NewTransaction, Transaction

LEMMA TypeFinalize == TypeInv /\ Finalize => TypeInv'
<1> SUFFICES ASSUME TypeInv, Finalize PROVE TypeInv'
  OBVIOUS
<1> USE DEF TypeInv, TypeOK, Locals, Countable, disk, memory, call, env
<1>1. CASE LineageMissing
  BY <1>1 DEF LineageMissing
<1>2. CASE AdoptPrepared
  BY <1>2 DEF AdoptPrepared
<1>3. CASE WritePrepared
  <2>1. NewTransaction \in Transaction
    BY <1>3, TypeNewTransaction DEF WritePrepared
  <2>2. prepared' \subseteq Transaction /\ Countable'
    <3>1. prepared' \in {prepared, prepared \cup {NewTransaction}} /\ failures' = failures
      BY <1>3 DEF WritePrepared
    <3>2. CASE prepared' = prepared
      BY <3>1, <3>2
    <3>3. CASE prepared' = prepared \cup {NewTransaction}
      <4> HIDE DEF TypeInv, TypeOK, Locals
      <4>1. prepared \in SUBSET Transaction
        BY DEF TypeInv, TypeOK
      <4>2. prepared = {} \/ \E p \in prepared : \A q \in prepared : q.attempt <= p.attempt
        BY DEF TypeInv
      <4>3. \E p \in prepared \cup {NewTransaction} :
              \A q \in prepared \cup {NewTransaction} : q.attempt <= p.attempt
        BY <2>1, <4>1, <4>2, LastAttemptKept
      <4>4. IsFiniteSet(failures')
        BY <3>1 DEF TypeInv
      <4> QED BY <2>1, <3>3, <4>1, <4>3, <4>4
    <3> QED BY <3>1, <3>2, <3>3
  <2>3. faults' \in 0..MaxFaults
    BY <1>3, BoundsAssumption DEF WritePrepared, LateFault, Fault, Ok, BoundsAssumption
  <2> QED BY <1>3, <2>1, <2>2, <2>3 DEF WritePrepared
<1>4. CASE PublishNothing
  BY <1>4 DEF PublishNothing, Summary
<1>5. CASE PublishNormalized
  <2>1. NewSnapshot \in Snapshot
    BY DEF NewSnapshot, Snapshot
  <2>2. [snapshot |-> NewSnapshot, accepted |-> records] \in Summary
    BY <2>1 DEF Summary
  <2>3. faults' \in 0..MaxFaults
    BY <1>5, BoundsAssumption DEF PublishNormalized, LateFault, Fault, Ok, BoundsAssumption
  <2> QED BY <1>5, <2>1, <2>2, <2>3 DEF PublishNormalized
<1>6. CASE WriteReceipt
  <2>1. NewReceipt \in Receipt
    BY <1>6 DEF WriteReceipt, NewReceipt, Receipt
  <2>2. faults' \in 0..MaxFaults
    BY <1>6, BoundsAssumption DEF WriteReceipt, LateFault, Fault, Ok, BoundsAssumption
  <2> QED BY <1>6, <2>1, <2>2 DEF WriteReceipt
<1>7. CASE RecordFailure
  <2>1. NewFailure \in Failure
    BY DEF NewFailure, Failure
  <2>2. faults' \in 0..MaxFaults
    BY <1>7, BoundsAssumption DEF RecordFailure, LateFault, Fault, Ok, BoundsAssumption
  <2>3. IsFiniteSet(failures')
    <3>1. failures' \in {failures, failures \cup {NewFailure}}
      BY <1>7 DEF RecordFailure
    <3>2. IsFiniteSet(failures \cup {NewFailure})
      BY FS_AddElement
    <3> QED BY <3>1, <3>2
  <2> QED BY <1>7, <2>1, <2>2, <2>3 DEF RecordFailure
<1> QED BY <1>1, <1>2, <1>3, <1>4, <1>5, <1>6, <1>7 DEF Finalize

LEMMA TypeAbort == TypeInv /\ WriteAbort => TypeInv'
<1> SUFFICES ASSUME TypeInv, WriteAbort PROVE TypeInv'
  OBVIOUS
<1> USE DEF TypeInv, TypeOK, Locals, Countable, disk, memory, call, env
<1>1. NewAbort \in Terminal
  <2>1. tx # None => tx.created \in Stamps
    BY DEF Transaction
  <2> QED BY <2>1 DEF WriteAbort, NewAbort, Terminal
<1>2. faults' \in 0..MaxFaults
  BY BoundsAssumption DEF WriteAbort, LateFault, Fault, Ok, BoundsAssumption
<1> QED BY <1>1, <1>2 DEF WriteAbort

LEMMA TypeRestart ==
  ASSUME TypeInv,
         Crash \/ Exit \/ Block \/ Skip \/ Recover \/ StartNetwork \/ Done \/ UNCHANGED vars
  PROVE  TypeInv'
<1> USE DEF TypeInv, TypeOK, Locals, Countable, disk, memory, call, env
<1>1. CASE LoseMemory /\ crashes' \in 0..MaxCrashes
  <2>1. openPart' \in Nat \cup {None}
    BY <1>1 DEF LoseMemory
  <2> QED BY <1>1, <2>1 DEF LoseMemory
<1>2. CASE Crash
  BY <1>1, <1>2, BoundsAssumption DEF Crash, BoundsAssumption
<1>3. CASE Exit
  BY <1>1, <1>3 DEF Exit
<1>4. CASE Block \/ Skip \/ StartNetwork
  <2>1. CASE Block
    BY <2>1 DEF Block
  <2>2. CASE Skip
    BY <2>2 DEF Skip
  <2>3. CASE StartNetwork
    BY <2>3 DEF StartNetwork
  <2> QED BY <1>4, <2>1, <2>2, <2>3
<1>6. CASE Done \/ UNCHANGED vars
  BY <1>6 DEF Done, vars
<1>5. CASE Recover
  <2>1. PICK p \in prepared :
          /\ stamp' = p.created
          /\ refs' = p.refs
          /\ tx' = IF Pending # {} THEN p ELSE None
    BY <1>5 DEF Recover
  <2>2. stamp' \in Stamps /\ refs' \in SUBSET Segments /\ tx' \in Transaction \cup {None}
    <3>1. p \in Transaction
      OBVIOUS
    <3>2. p.created \in Stamps /\ p.refs \in SUBSET Segments
      BY <3>1 DEF Transaction
    <3> QED BY <2>1, <3>1, <3>2
  <2>3. nFail' \in Nat
    BY <1>5, FS_CardinalityType DEF Recover
  <2>4. nAttempt' \in Nat
    BY <1>5, LastAttemptType DEF Recover
  <2>5. records' \in Nat
    BY <1>5, RowsType DEF Recover
  <2> QED BY <1>5, <2>2, <2>3, <2>4, <2>5 DEF Recover
<1> QED BY <1>2, <1>3, <1>4, <1>5, <1>6

LEMMA TypeStep == TypeInv /\ [Next]_vars => TypeInv'
<1> SUFFICES ASSUME TypeInv, [Next]_vars PROVE TypeInv'
  OBVIOUS
<1>1. CASE AppendRecord \/ \E s \in Segments : RecordSegment(s)
  BY <1>1, TypeStreaming
<1>2. ASSUME NEW c \in Stamps, FinalizeCall(c) \/ AbortCall(c) PROVE TypeInv'
  BY <1>2, TypeCalls
<1>3. CASE Step
  BY <1>3, TypeSeal, TypeFinalize, TypeAbort DEF Step
<1>4. CASE Crash \/ Exit \/ Block \/ Skip \/ Recover \/ StartNetwork \/ Done \/ UNCHANGED vars
  BY <1>4, TypeRestart
<1> QED BY <1>1, <1>2, <1>3, <1>4 DEF Next

\* Every variable of the journal keeps its type, and a file is written only
\* from locals that the code has set before it gets there.
THEOREM TypeCorrect == Spec => []TypeOK
<1>1. TypeInv => TypeOK
  BY DEF TypeInv
<1> QED BY TypeInit, TypeStep, <1>1, PTL DEF Spec

-----------------------------------------------------------------------------
(* Write-ahead, for every choice of constants: late failures included. *)

\* A transaction the journal holds is durable, and when it publishes, the
\* transaction says what is published.
Announced ==
  /\ tx # None => tx \in prepared
  /\ pc = "publish" => prep \in prepared /\ prep.refs = refs /\ prep.parts = memParts

WriteAheadInv == WriteAhead /\ Announced

LEMMA WriteAheadInit == Init => WriteAheadInv
  BY DEF Init, WriteAheadInv, WriteAhead, Announced

LEMMA WriteAheadStep == TypeInv /\ WriteAheadInv /\ [Next]_vars => WriteAheadInv'
<1> SUFFICES ASSUME TypeInv, WriteAheadInv, [Next]_vars PROVE WriteAheadInv'
  OBVIOUS
<1> USE DEF WriteAheadInv, WriteAhead, Announced, disk, memory, call, env
<1>1. CASE AppendRecord
  BY <1>1 DEF AppendRecord
<1>2. ASSUME NEW s \in Segments, RecordSegment(s) PROVE WriteAheadInv'
  BY <1>2 DEF RecordSegment, Streaming
<1>3. ASSUME NEW c \in Stamps, FinalizeCall(c) \/ AbortCall(c) PROVE WriteAheadInv'
  BY <1>3 DEF FinalizeCall, AbortCall
<1>4. CASE Seal
  <2>1. AfterSeal # "publish"
    <3>1. op \in {"append", "finalize", "abort"}
      BY <1>4 DEF TypeInv, TypeOK, Locals, Seal, SealSkip, SealLink, SealFails, SealUnlink,
                  SealLateFails, SealRemember
    <3> QED BY <3>1 DEF AfterSeal
  <2>2. UNCHANGED <<prepared, snapshots, tx>> /\ pc' # "publish"
    BY <1>4, <2>1 DEF Seal, SealSkip, SealLink, SealFails, SealUnlink, SealLateFails,
                      SealRemember, Raise
  <2> QED BY <2>2
<1>5. CASE Finalize
  <2>1. CASE LineageMissing
    BY <2>1 DEF LineageMissing
  <2>2. CASE AdoptPrepared
    BY <2>2 DEF AdoptPrepared, SameTransaction
  <2>3. CASE WritePrepared
    BY <2>3 DEF WritePrepared, NewTransaction
  <2>4. CASE PublishNothing
    BY <2>4 DEF PublishNothing
  <2>5. CASE PublishNormalized
    BY <2>5 DEF PublishNormalized, NewSnapshot
  <2>6. CASE WriteReceipt
    BY <2>6 DEF WriteReceipt
  <2>7. CASE RecordFailure
    BY <2>7 DEF RecordFailure
  <2> QED BY <1>5, <2>1, <2>2, <2>3, <2>4, <2>5, <2>6, <2>7 DEF Finalize
<1>6. CASE WriteAbort
  BY <1>6 DEF WriteAbort
<1>7. CASE Crash \/ Exit
  BY <1>7 DEF Crash, Exit, LoseMemory
<1>8. CASE Recover
  BY <1>8 DEF Recover
<1>9. CASE Block \/ Skip
  BY <1>9 DEF Block, Skip
<1>10. CASE StartNetwork \/ Done \/ UNCHANGED vars
  BY <1>10 DEF StartNetwork, Done, vars
<1> QED BY <1>1, <1>2, <1>3, <1>4, <1>5, <1>6, <1>7, <1>8, <1>9, <1>10 DEF Next, Step

\* A visible snapshot of the epoch was announced by a durable PREPARED file
\* with its parts and its lineage, however many writes failed, before or after
\* their file was visible, and however often the process died.
THEOREM WriteAheadHolds == Spec => []WriteAhead
<1>1. WriteAheadInv => WriteAhead
  BY DEF WriteAheadInv
<1> QED BY TypeInit, TypeStep, WriteAheadInit, WriteAheadStep, <1>1, PTL DEF Spec

-----------------------------------------------------------------------------
(* The journal object and the directory agree, whatever write failed and    *)
(* whether or not it left its file behind.                                  *)

Running == proc \in {"capture", "reconcile"}

\* Past the seal nothing is left in the open part.
Sealed ==
  /\ ~Running => pc = "idle"
  /\ Running => openPart = None \/ openPart <= openRows
  /\ pc = "reopen" => openPart = None
  /\ pc \in {"seal", "unlink", "reopen"} => state = "OPEN"
  /\ state # "OPEN" \/ pc \in {"prepare", "publish", "receipt", "abort"} =>
       openRows = 0 /\ openPart \in {None, 0}

\* A part is linked that the journal object does not know: its seal is under
\* way, or it was cut short and none will succeed again.
HalfSealed ==
  /\ openRows > 0
  /\ parts = Append(memParts, Rows(memParts) + openRows)
  /\ pc \in {"unlink", "reopen"} \/ (pc \in {"idle", "fail", "seal"} /\ op # "append")

\* Else the journal object knows what the sealed parts hold.
Remembered ==
  Running =>
    /\ records = Rows(memParts) + openRows
    /\ HalfSealed \/ (parts = memParts /\ pc \notin {"unlink", "reopen"})

\* Behind a receipt nothing is left to seal.
Behind ==
  receipts # {} => openPart \in {None, 0} /\ (Running => openRows = 0 /\ op # "append")

\* What the receipt will say is already durable when it is written.
Drafted ==
  /\ pc \in {"publish", "receipt"} => prep \in prepared /\ ~NoLineage
  /\ pc = "receipt" =>
       /\ result.accepted = records
       /\ IF result.snapshot = None THEN result.accepted = 0
          ELSE result.snapshot \in snapshots /\ result.snapshot = NewSnapshot

\* And what it says stays true.
Backed == \A r \in receipts : r.prep \in prepared /\ BindsJournal(r) /\ BindsSnapshot(r)

JournalInv == Sealed /\ Remembered /\ Behind /\ Drafted /\ Backed

LEMMA JournalInit == Init => JournalInv
  BY NoneAssumption
  DEF Init, JournalInv, Sealed, Remembered, Behind, Drafted, Backed, Running, Rows

LEMMA RowsAppend == \A s \in Seq(Nat), n \in Nat : Append(s, n) # <<>> /\ Rows(Append(s, n)) = n
  BY DEF Rows

LEMMA LenAppend == \A s \in Seq(Nat), n \in Nat : Len(Append(s, n)) # Len(s)
  OBVIOUS

\* Receipts stay true while files are only added and no part is.
LEMMA BackedKept ==
  ASSUME Backed, receipts' = receipts, receipts = {} \/ parts' = parts,
         prepared \subseteq prepared', snapshots \subseteq snapshots'
  PROVE  Backed'
  BY DEF Backed, BindsJournal, BindsSnapshot

LEMMA JournalStreaming ==
  ASSUME TypeInv, JournalInv, AppendRecord \/ \E s \in Segments : RecordSegment(s)
  PROVE  JournalInv'
<1> USE DEF Streaming, RequireOpen, disk, memory, call, env, JournalInv
<1>0. Rows(memParts) \in Nat /\ openRows \in Nat /\ records \in Nat
  BY RowsType DEF TypeInv, TypeOK
<1>1. CASE AppendRecord
  <2>1. Running /\ receipts = {} /\ receipts' = {} /\ parts = memParts
    BY <1>1 DEF AppendRecord, Behind, Remembered, HalfSealed, Running
  <2>2. Sealed'
    BY <1>0, <1>1 DEF AppendRecord, Sealed, Running, TypeInv, TypeOK
  <2>3. Remembered'
    BY <1>0, <1>1, <2>1 DEF AppendRecord, Remembered, Running
  <2>4. Behind' /\ Drafted' /\ Backed'
    BY <1>1, <2>1 DEF AppendRecord, Behind, Drafted, Backed
  <2> QED BY <2>2, <2>3, <2>4
<1>2. ASSUME NEW s \in Segments, RecordSegment(s) PROVE JournalInv'
  <2>1. UNCHANGED <<disk, proc, pc, state, memParts, openRows, records, op>> /\ pc = "idle"
    BY <1>2 DEF RecordSegment
  <2>2. Backed'
    BY <2>1, BackedKept
  <2> QED BY <2>1, <2>2 DEF Sealed, Remembered, HalfSealed, Behind, Drafted, Running
<1> QED BY <1>1, <1>2

LEMMA JournalCalls ==
  ASSUME TypeInv, JournalInv, NEW c \in Stamps, FinalizeCall(c) \/ AbortCall(c)
  PROVE  JournalInv'
<1> USE DEF disk, memory, JournalInv
<1>1. UNCHANGED <<disk, proc, memory>> /\ Running /\ pc = "idle" /\ state \in {"OPEN", "PREPARED"}
      /\ pc' = (IF state = "OPEN" THEN "seal" ELSE "abort") /\ op' \in {"finalize", "abort"}
  BY DEF FinalizeCall, AbortCall, RequireOpen, MayAbort, Running
<1>2. Backed'
  BY <1>1, BackedKept
<1>3. Remembered'
  <2>1. CASE HalfSealed
    <3>1. state = "OPEN"
      BY <2>1 DEF Sealed, HalfSealed, TypeInv, TypeOK
    <3> QED BY <1>1, <2>1, <3>1 DEF Remembered, HalfSealed, Running
  <2>2. CASE parts = memParts
    BY <1>1, <2>2 DEF Remembered, Running
  <2> QED BY <1>1, <2>1, <2>2 DEF Remembered
<1> QED
  BY <1>1, <1>2, <1>3 DEF Sealed, Behind, Drafted, Running

LEMMA JournalSeal ==
  ASSUME TypeInv, JournalInv, Seal
  PROVE  JournalInv'
<1> USE DEF disk, memory, call, env, JournalInv
<1>1. Running /\ state = "OPEN" /\ pc \in {"seal", "unlink", "reopen"}
  BY DEF Seal, SealSkip, SealLink, SealFails, SealUnlink, SealLateFails, SealRemember, Sealed
<1>2. Rows(memParts) \in Nat /\ openRows \in Nat /\ memParts \in Seq(Nat)
      /\ Rows(memParts) + openRows \in Nat
  BY RowsType DEF TypeInv, TypeOK
<1>3. op \in {"append", "finalize", "abort"}
  BY <1>1 DEF TypeInv, TypeOK, Locals
<1>4. AfterSeal \in {"idle", "prepare", "abort"} /\ (AfterSeal = "idle" => op = "append")
  BY <1>3 DEF AfterSeal
<1>5. UNCHANGED <<prepared, snapshots, receipts, proc, state, records>>
      /\ pc' \notin {"publish", "receipt"} /\ (op # "append" => op' = op)
  BY <1>4 DEF Seal, SealSkip, SealLink, SealFails, SealUnlink, SealLateFails, SealRemember,
     Raise
<1>6. Drafted'
  BY <1>5 DEF Drafted
<1>7. CASE SealSkip
  <2>1. openRows = 0 /\ openPart \in {None, 0} /\ pc' = AfterSeal
        /\ UNCHANGED <<parts, openPart, memParts, openRows, op>>
    BY <1>1, <1>7, NoneAssumption DEF SealSkip, Sealed, TypeInv, TypeOK
  <2>2. parts = memParts
    BY <1>1, <2>1 DEF Remembered, HalfSealed
  <2>3. Sealed' /\ Remembered' /\ Behind'
    BY <1>1, <1>4, <1>5, <2>1, <2>2 DEF Sealed, Remembered, Behind, Running
  <2> QED BY <1>5, <1>6, <2>1, <2>3, BackedKept
<1>8. CASE SealLink
  <2>1. openRows > 0 /\ Len(parts) = Len(memParts) /\ UNCHANGED <<memParts, openRows, op>>
        /\ parts' = Append(parts, Rows(parts) + openRows) /\ openPart' = openRows /\ pc' = "unlink"
    BY <1>8 DEF SealLink, Sealable
  <2>2. parts = memParts
    BY <1>1, <1>2, <2>1, LenAppend DEF Remembered, HalfSealed
  <2>3. receipts = {}
    BY <1>1, <1>2, <2>1 DEF Behind
  <2>4. Sealed' /\ Remembered' /\ Behind'
    BY <1>1, <1>2, <1>5, <2>1, <2>2, <2>3 DEF Sealed, Remembered, HalfSealed, Behind, Running
  <2> QED BY <1>5, <1>6, <2>3, <2>4, BackedKept
<1>9. CASE SealFails \/ SealLateFails
  <2>1. UNCHANGED <<parts, openPart, memParts, openRows>> /\ openRows >= 0
        /\ op' # "append" /\ pc' \in {"idle", "fail"}
    BY <1>2, <1>3, <1>9 DEF SealFails, SealLateFails, Raise
  <2>2. Remembered'
    BY <1>1, <1>5, <2>1 DEF Remembered, HalfSealed, Running
  <2>3. Sealed' /\ Behind'
    BY <1>1, <1>5, <2>1 DEF Sealed, Behind, Running
  <2> QED BY <1>5, <1>6, <2>1, <2>2, <2>3, BackedKept
<1>10. CASE SealUnlink
  <2>1. pc = "unlink" /\ pc' = "reopen" /\ openPart' = None
        /\ UNCHANGED <<parts, memParts, openRows, op>>
    BY <1>10 DEF SealUnlink
  <2>2. Sealed' /\ Remembered' /\ Behind'
    BY <1>1, <1>5, <2>1 DEF Sealed, Remembered, HalfSealed, Behind, Running
  <2> QED BY <1>5, <1>6, <2>1, <2>2, BackedKept
<1>11. CASE SealRemember
  <2>1. HalfSealed /\ openPart = None /\ records = Rows(memParts) + openRows
    BY <1>1, <1>11 DEF SealRemember, Sealed, Remembered
  <2>2. receipts = {}
    BY <1>1, <1>2, <2>1 DEF Behind, HalfSealed
  <2>3. memParts' = Append(memParts, Rows(memParts) + openRows) /\ parts' = parts
    BY <1>11 DEF SealRemember
  <2>4. Rows(memParts') = Rows(memParts) + openRows
    BY <1>2, <2>3, RowsAppend
  <2>5. openPart' \in {None, 0} /\ openRows' = 0 /\ pc' \in {"idle", "prepare", "abort", "fail"}
    BY <1>4, <1>11, <2>1 DEF SealRemember, Raise
  <2>6. Sealed'
    BY <1>1, <1>5, <2>5 DEF Sealed, Running
  <2>7. Remembered'
    BY <1>1, <1>2, <1>5, <2>1, <2>3, <2>4, <2>5 DEF Remembered, HalfSealed, Running
  <2> QED BY <1>5, <1>6, <2>2, <2>3, <2>6, <2>7, BackedKept DEF Behind
<1> QED BY <1>7, <1>8, <1>9, <1>10, <1>11 DEF Seal

\* Past the seal the journal object, the parts on disk and the transaction agree.
LEMMA PastSeal ==
  ASSUME TypeInv, JournalInv, pc \in {"prepare", "publish", "receipt", "abort"}
  PROVE  /\ Running /\ parts = memParts /\ records = Rows(parts)
         /\ openRows = 0 /\ openPart \in {None, 0} /\ op \in {"finalize", "abort"}
<1>1. Running /\ openRows = 0 /\ openPart \in {None, 0} /\ op \in {"finalize", "abort"}
  BY DEF JournalInv, Sealed, TypeInv, TypeOK, Locals
<1>2. parts = memParts /\ records = Rows(memParts) + openRows /\ Rows(memParts) \in Nat
  BY <1>1, RowsType DEF JournalInv, Remembered, HalfSealed, TypeInv, TypeOK
<1> QED BY <1>1, <1>2

\* A step past the seal that adds files other than parts and receipts.
LEMMA JournalGoesOn ==
  ASSUME TypeInv, JournalInv, pc \in {"prepare", "publish", "receipt", "abort"},
         UNCHANGED <<parts, openPart, proc, memParts, openRows, records, op>>,
         pc' \in {"publish", "receipt", "fail", "idle"}
  PROVE  Sealed' /\ Remembered' /\ Behind'
<1>1. Running /\ parts = memParts /\ openRows = 0 /\ openPart \in {None, 0} /\ op # "append"
      /\ records = Rows(memParts) + openRows
  BY PastSeal DEF JournalInv, Remembered
<1> QED BY <1>1 DEF Sealed, Remembered, Behind, Running

LEMMA JournalPrepare ==
  ASSUME TypeInv, WriteAheadInv, JournalInv, LineageMissing \/ AdoptPrepared \/ WritePrepared
  PROVE  JournalInv'
<1> USE DEF disk, memory, call, env
<1>1. /\ UNCHANGED <<parts, openPart, proc, memParts, openRows, records, refs, op>>
      /\ pc = "prepare" /\ pc' \in {"publish", "fail"}
      /\ UNCHANGED <<snapshots, receipts>> /\ prepared \subseteq prepared'
  BY DEF LineageMissing, AdoptPrepared, WritePrepared
<1>2. Sealed' /\ Remembered' /\ Behind'
  BY <1>1, JournalGoesOn
<1>3. Backed'
  BY <1>1, BackedKept DEF JournalInv
<1>4. pc' = "publish" => prep' \in prepared' /\ ~NoLineage
  <2>1. CASE AdoptPrepared
    BY <2>1 DEF AdoptPrepared, WriteAheadInv, Announced
  <2>2. CASE WritePrepared
    BY <2>2 DEF WritePrepared
  <2>3. CASE LineageMissing
    BY <2>3 DEF LineageMissing
  <2> QED BY <2>1, <2>2, <2>3
<1>5. Drafted'
  BY <1>1, <1>4 DEF Drafted, NoLineage
<1> QED BY <1>2, <1>3, <1>5 DEF JournalInv

LEMMA JournalPublish ==
  ASSUME TypeInv, JournalInv, PublishNothing \/ PublishNormalized
  PROVE  JournalInv'
<1> USE DEF disk, memory, call, env
<1>1. /\ UNCHANGED <<parts, openPart, prepared, receipts, proc, memory, prep, op>> /\ pc = "publish"
      /\ pc' \in {"receipt", "fail"} /\ snapshots \subseteq snapshots'
  BY DEF PublishNothing, PublishNormalized
<1>2. Sealed' /\ Remembered' /\ Behind'
  BY <1>1, JournalGoesOn
<1>3. Backed'
  BY <1>1, BackedKept DEF JournalInv
<1>4. pc' = "receipt" =>
        /\ result'.accepted = records'
        /\ IF result'.snapshot = None THEN result'.accepted = 0
           ELSE result'.snapshot \in snapshots' /\ result'.snapshot = NewSnapshot
  <2>1. CASE PublishNothing
    BY <2>1 DEF PublishNothing
  <2>2. CASE PublishNormalized
    <3>1. NewSnapshot # None
      BY NoneAssumption DEF NewSnapshot, Snapshot, TypeInv, TypeOK
    <3> QED BY <2>2, <3>1 DEF PublishNormalized, LateFault
  <2> QED BY <2>1, <2>2
<1>5. NewSnapshot' = NewSnapshot /\ NoLineage' = NoLineage
  BY <1>1 DEF NewSnapshot, NoLineage
<1>6. Drafted'
  BY <1>1, <1>4, <1>5 DEF JournalInv, Drafted
<1> QED BY <1>2, <1>3, <1>6 DEF JournalInv

LEMMA JournalReceipt ==
  ASSUME TypeInv, JournalInv, WriteReceipt
  PROVE  JournalInv'
<1> USE DEF disk, memory, call, env
<1>1. /\ UNCHANGED <<parts, openPart, prepared, snapshots, proc, memParts, openRows, records, op>>
      /\ pc = "receipt" /\ pc' \in {"idle", "fail"} /\ receipts' \in {receipts, receipts \cup {NewReceipt}}
  BY DEF WriteReceipt
<1>2. Sealed' /\ Remembered' /\ Behind'
  BY <1>1, JournalGoesOn
<1>3. Drafted'
  BY <1>1 DEF Drafted
<1>4. /\ NewReceipt.prep = prep /\ NewReceipt.records = records /\ NewReceipt.refs = refs
      /\ NewReceipt.parts = memParts /\ NewReceipt.result = result
  BY DEF NewReceipt
<1>5. parts = memParts /\ records = Rows(parts) /\ prep \in prepared /\ ~NoLineage
  BY <1>1, PastSeal DEF JournalInv, Drafted
<1>6. NewReceipt.prep \in prepared /\ BindsJournal(NewReceipt)
  BY <1>4, <1>5 DEF BindsJournal, NoLineage
<1>7. BindsSnapshot(NewReceipt)
  BY <1>1, <1>4, <1>5 DEF BindsSnapshot, JournalInv, Drafted, NewSnapshot
<1>8. Backed'
  BY <1>1, <1>6, <1>7 DEF JournalInv, Backed, BindsJournal, BindsSnapshot
<1> QED BY <1>2, <1>3, <1>8 DEF JournalInv

LEMMA JournalFailure ==
  ASSUME TypeInv, JournalInv, RecordFailure
  PROVE  JournalInv'
<1> USE DEF disk, memory, call, env, JournalInv
<1>1. UNCHANGED <<parts, openPart, prepared, snapshots, receipts, proc, memParts, openRows, records, op>>
      /\ pc = "fail" /\ pc' = "idle" /\ state' \in {state, "OPEN"} /\ op # "append"
  BY DEF RecordFailure, TypeInv, Locals
<1>2. Backed'
  BY <1>1, BackedKept
<1>3. Remembered'
  BY <1>1 DEF Remembered, HalfSealed, Running
<1> QED BY <1>1, <1>2, <1>3 DEF Sealed, Behind, Drafted, Running

LEMMA JournalAbort ==
  ASSUME TypeInv, JournalInv, WriteAbort
  PROVE  JournalInv'
<1> USE DEF disk, memory, call, env
<1>1. /\ UNCHANGED <<parts, openPart, prepared, snapshots, receipts, proc, memParts, openRows, records, op>>
      /\ pc = "abort" /\ pc' = "idle"
  BY DEF WriteAbort
<1>2. Sealed' /\ Remembered' /\ Behind'
  BY <1>1, JournalGoesOn
<1> QED BY <1>1, <1>2, BackedKept DEF JournalInv, Drafted

LEMMA JournalRestart ==
  ASSUME TypeInv, JournalInv,
         Crash \/ Exit \/ Block \/ Skip \/ Recover \/ StartNetwork \/ Done \/ UNCHANGED vars
  PROVE  JournalInv'
<1> USE DEF disk, memory, call, env, JournalInv
<1>0. Backed'
  BY BackedKept DEF Crash, Exit, LoseMemory, Block, Skip, Recover, StartNetwork, Done, vars
<1>1. CASE Crash \/ Exit
  <2>1. LoseMemory /\ Running
    BY <1>1 DEF Crash, Exit, Running
  <2>2. /\ UNCHANGED <<parts, prepared, snapshots, receipts>>
        /\ proc' = "down" /\ pc' = "idle" /\ state' = "OPEN" /\ openRows' = 0
    BY <2>1 DEF LoseMemory
  <2>3. receipts # {} => openPart' \in {None, 0}
    <3>1. receipts # {} => openRows = 0 /\ openPart \in {None, 0}
      BY <2>1 DEF Behind
    <3>2. openPart = 0 /\ openRows = 0 => openPart' = 0
      BY <2>1 DEF LoseMemory
    <3>3. openPart = None => openPart' = None
      BY <2>1 DEF LoseMemory
    <3> QED BY <3>1, <3>2, <3>3
  <2> QED BY <1>0, <2>2, <2>3 DEF Sealed, Remembered, Behind, Drafted, Running
<1>2. CASE Recover
  <2>1. Rows(parts) \in Nat
    BY RowsType DEF TypeInv, TypeOK
  <2> QED BY <1>0, <1>2, <2>1 DEF Recover, Sealed, Remembered, Behind, Drafted, Running
<1>3. CASE Block \/ Skip \/ StartNetwork
  <2>1. /\ UNCHANGED <<disk, pc, memory, op>> /\ ~Running'
        /\ pc' = "idle"
    BY <1>3 DEF Block, Skip, StartNetwork, Running, Sealed
  <2> QED BY <1>0, <2>1 DEF Sealed, Remembered, Behind, Drafted
<1>4. CASE Done \/ UNCHANGED vars
  <2>1. UNCHANGED <<disk, proc, pc, memory, call>>
    BY <1>4 DEF Done, vars
  <2> QED BY <1>0, <2>1 DEF Sealed, Remembered, HalfSealed, Behind, Drafted, Running,
      NoLineage, NewSnapshot
<1> QED BY <1>1, <1>2, <1>3, <1>4

LEMMA JournalStep == TypeInv /\ WriteAheadInv /\ JournalInv /\ [Next]_vars => JournalInv'
<1> SUFFICES ASSUME TypeInv, WriteAheadInv, JournalInv, [Next]_vars
             PROVE  JournalInv'
  OBVIOUS
<1>1. CASE AppendRecord \/ \E s \in Segments : RecordSegment(s)
  BY <1>1, JournalStreaming
<1>2. ASSUME NEW c \in Stamps, FinalizeCall(c) \/ AbortCall(c) PROVE JournalInv'
  BY <1>2, JournalCalls
<1>3. CASE Step
  <2>1. CASE Finalize
    BY <2>1, JournalPrepare, JournalPublish, JournalReceipt, JournalFailure DEF Finalize
  <2> QED BY <1>3, <2>1, JournalSeal, JournalAbort DEF Step
<1>4. CASE Crash \/ Exit \/ Block \/ Skip \/ Recover \/ StartNetwork \/ Done \/ UNCHANGED vars
  BY <1>4, JournalRestart
<1> QED BY <1>1, <1>2, <1>3, <1>4 DEF Next

LEMMA JournalInvariant == Spec => [](TypeInv /\ WriteAheadInv /\ JournalInv)
<1>1. Init => TypeInv /\ WriteAheadInv /\ JournalInv
  BY TypeInit, WriteAheadInit, JournalInit
<1>2. TypeInv /\ WriteAheadInv /\ JournalInv /\ [Next]_vars => (TypeInv /\ WriteAheadInv /\ JournalInv)'
  BY TypeStep, WriteAheadStep, JournalStep
<1> QED BY <1>1, <1>2, PTL DEF Spec

\* A receipt covers every record of the journal, its PREPARED file is durable
\* and the snapshot it names is the one its parts and lineage produce, also
\* when a write failed behind it and when the caller goes on after a failure.
THEOREM CommittedIsCompleteHolds == Spec => []CommittedIsComplete
<1>1. JournalInv => CommittedIsComplete
  BY DEF JournalInv, Behind, Backed, CommittedIsComplete
<1> QED BY JournalInvariant, <1>1, PTL

-----------------------------------------------------------------------------
(* One final decision, when a write that fails leaves no file.             *)

\* A decision is alone, and the object that took it does nothing more.
Single ==
  /\ receipts = {} \/ aborts = {}
  /\ \A r, q \in receipts : r = q
  /\ \A a, b \in aborts : a = b
  /\ receipts # {} /\ Running => state = "FINALIZED" /\ pc = "idle"
  /\ aborts # {} /\ Running => state = "ABORTED" /\ pc = "idle"
  /\ Decided => openPart \in {None, 0}

\* While nothing is decided, nothing but a decision can break Single.
LEMMA Undecided ==
  ASSUME receipts = {}, aborts = {}, UNCHANGED <<receipts, aborts>>
  PROVE  Single'
  BY DEF Single, Decided

LEMMA SingleStep ==
  TypeInv /\ JournalInv /\ Single /\ ~LateFaults /\ [Next]_vars => Single'
<1> SUFFICES ASSUME TypeInv, JournalInv, Single, ~LateFaults, [Next]_vars
             PROVE  Single'
  OBVIOUS
<1> USE DEF disk, memory, call, env
<1>1. CASE AppendRecord \/ \E s \in Segments : RecordSegment(s)
  <2>1. receipts = {} /\ aborts = {} /\ UNCHANGED <<receipts, aborts>>
    BY <1>1 DEF AppendRecord, RecordSegment, Streaming, RequireOpen, Running, Single
  <2> QED BY <2>1, Undecided
<1>2. ASSUME NEW c \in Stamps, FinalizeCall(c) \/ AbortCall(c) PROVE Single'
  <2>1. receipts = {} /\ aborts = {} /\ UNCHANGED <<receipts, aborts>>
    BY <1>2 DEF FinalizeCall, AbortCall, RequireOpen, MayAbort, Running, Single
  <2> QED BY <2>1, Undecided
<1>3. CASE Step
  <2>1. Running /\ pc # "idle"
    BY <1>3 DEF Step, Seal, SealSkip, SealLink, SealFails, SealUnlink, SealLateFails,
       SealRemember,
       Finalize, LineageMissing, AdoptPrepared, WritePrepared, PublishNothing, PublishNormalized,
       WriteReceipt, RecordFailure, WriteAbort, JournalInv, Sealed
  <2>2. receipts = {} /\ aborts = {}
    BY <2>1 DEF Single
  <2>3. CASE WriteReceipt
    <3>1. CASE receipts' = receipts \cup {NewReceipt} /\ state' = "FINALIZED" /\ pc' = "idle"
      <4>1. receipts' = {NewReceipt} /\ aborts' = {} /\ openPart' \in {None, 0}
        BY <2>2, <2>3, <3>1, PastSeal DEF WriteReceipt
      <4> QED BY <3>1, <4>1 DEF Single
    <3>2. CASE UNCHANGED receipts
      BY <2>2, <2>3, <3>2, Undecided DEF WriteReceipt
    <3> QED BY <2>3, <3>1, <3>2 DEF WriteReceipt, LateFault
  <2>4. CASE WriteAbort
    <3>1. CASE aborts' = aborts \cup {NewAbort} /\ state' = "ABORTED" /\ pc' = "idle"
      <4>1. aborts' = {NewAbort} /\ receipts' = {} /\ openPart' \in {None, 0}
        BY <2>2, <2>4, <3>1, PastSeal DEF WriteAbort
      <4> QED BY <3>1, <4>1 DEF Single
    <3>2. CASE UNCHANGED aborts
      BY <2>2, <2>4, <3>2, Undecided DEF WriteAbort
    <3> QED BY <2>4, <3>1, <3>2 DEF WriteAbort, LateFault
  <2>5. CASE Step /\ ~WriteReceipt /\ ~WriteAbort
    <3>1. UNCHANGED <<receipts, aborts>>
      BY <2>5 DEF Step, Seal, SealSkip, SealLink, SealFails, SealUnlink, SealLateFails,
         SealRemember,
         Finalize, LineageMissing, AdoptPrepared, WritePrepared, PublishNothing, PublishNormalized,
         RecordFailure
    <3> QED BY <2>2, <3>1, Undecided
  <2> QED BY <1>3, <2>3, <2>4, <2>5
<1>4. CASE Crash \/ Exit
  <2>1. Running /\ UNCHANGED <<receipts, aborts>> /\ ~Running'
    BY <1>4 DEF Crash, Exit, LoseMemory, Running
  <2>2. Decided => openRows = 0 /\ openPart \in {None, 0}
    BY <2>1 DEF Decided, Single, JournalInv, Sealed
  <2>3. openPart \in {None, 0} /\ openRows = 0 => openPart' \in {None, 0}
    <3>1. openPart = 0 /\ openRows = 0 => openPart' = 0
      BY <1>4 DEF Crash, Exit, LoseMemory
    <3>2. openPart = None => openPart' = None
      BY <1>4 DEF Crash, Exit, LoseMemory
    <3> QED BY <3>1, <3>2
  <2> QED BY <2>1, <2>2, <2>3 DEF Single, Decided
<1>5. CASE Recover
  <2>1. receipts = {} /\ aborts = {} /\ UNCHANGED <<receipts, aborts>>
    BY <1>5 DEF Recover, Replayable, Decided
  <2> QED BY <2>1, Undecided
<1>6. CASE Block \/ Skip \/ StartNetwork
  BY <1>6 DEF Block, Skip, StartNetwork, Single, Decided, Running
<1>7. CASE Done \/ UNCHANGED vars
  BY <1>7 DEF Done, vars, Single, Decided, Running
<1> QED BY <1>1, <1>2, <1>3, <1>4, <1>5, <1>6, <1>7 DEF Next

LEMMA DecisionInvariant == ~LateFaults /\ Spec => [](TypeInv /\ JournalInv /\ Single)
<1> SUFFICES ASSUME ~LateFaults PROVE Spec => [](TypeInv /\ JournalInv /\ Single)
  OBVIOUS
<1>1. Init => Single
  BY DEF Init, Single, Decided
<1>2. TypeInv /\ JournalInv /\ Single /\ [Next]_vars => Single'
  BY SingleStep
<1> QED BY JournalInvariant, <1>1, <1>2, PTL DEF Spec

LEMMA AtMostOne ==
  ASSUME NEW S, \A x, y \in S : x = y
  PROVE  Cardinality(S) <= 1
<1>1. CASE S = {}
  BY <1>1, FS_EmptySet
<1>2. CASE S # {}
  <2>1. PICK x \in S : TRUE
    BY <1>2
  <2>2. S = {x}
    BY <2>1
  <2> QED BY <2>2, FS_Singleton
<1> QED BY <1>1, <1>2

\* An epoch ends in at most one receipt or one explicit abort, never both, over
\* any number of finalize and abort calls, retries, I/O errors and restarts.
THEOREM OneDecisionHolds == ~LateFaults /\ Spec => []OneDecision
<1>1. Single => OneDecision
  BY AtMostOne DEF Single, OneDecision
<1> QED BY DecisionInvariant, <1>1, PTL

\* Once a receipt or an explicit abort is durable, no step of any process changes
\* a file of the epoch or makes another snapshot of it visible.
THEOREM DecisionIsFinalHolds == ~LateFaults /\ Spec => DecisionIsFinal
<1>1. ASSUME TypeInv, JournalInv, Single, [Next]_vars, Decided PROVE UNCHANGED disk
  <2>1. Running => pc = "idle" /\ state \in {"FINALIZED", "ABORTED"} /\ openRows = 0
    BY <1>1 DEF Decided, JournalInv, Single, Sealed
  <2>2. pc = "idle" /\ openPart \in {None, 0}
    BY <1>1, <2>1 DEF JournalInv, Sealed, Single, Decided
  <2>3. CASE Step
    BY <2>2, <2>3 DEF Step, Seal, SealSkip, SealLink, SealFails, SealUnlink, SealLateFails,
       SealRemember,
                      Finalize, LineageMissing, AdoptPrepared, WritePrepared, PublishNothing,
                      PublishNormalized, WriteReceipt, RecordFailure, WriteAbort
  <2>4. CASE AppendRecord \/ \E s \in Segments : RecordSegment(s)
    BY <2>1, <2>4 DEF AppendRecord, RecordSegment, Streaming, RequireOpen, Running
  <2>5. CASE \E c \in Stamps : FinalizeCall(c) \/ AbortCall(c)
    BY <2>5 DEF FinalizeCall, AbortCall
  <2>6. CASE Crash \/ Exit
    <3>1. Running /\ LoseMemory
      BY <2>6 DEF Crash, Exit, Running
    <3>2. openPart' = openPart
      <4>1. CASE openPart = None
        BY <3>1, <4>1 DEF LoseMemory
      <4>2. CASE openPart = 0
        BY <2>1, <3>1, <4>2 DEF LoseMemory
      <4> QED BY <2>2, <4>1, <4>2
    <3> QED BY <3>1, <3>2 DEF LoseMemory, disk
  <2>7. CASE Block \/ Skip \/ StartNetwork \/ Done \/ UNCHANGED vars
    BY <2>7 DEF Block, Skip, StartNetwork, Done, vars, disk
  <2>8. CASE Recover
    BY <1>1, <2>8 DEF Recover, Replayable
  <2> QED BY <1>1, <2>3, <2>4, <2>5, <2>6, <2>7, <2>8 DEF Next
<1>2. TypeInv /\ JournalInv /\ Single /\ [Next]_vars => [Decided => UNCHANGED disk]_disk
  BY <1>1
<1> QED BY DecisionInvariant, <1>2, PTL DEF Spec, DecisionIsFinal

-----------------------------------------------------------------------------
(* The journal implements EpochDecision, when the caller keeps to the       *)
(* collector's discipline: one finalize, or aborts, per process.            *)

Disciplined ==
  /\ aborts # {} =>
       /\ prepared = {} /\ snapshots = {} /\ receipts = {}
       /\ Running => proc = "capture" /\ op = "abort"
  /\ proc = "capture" /\ op # "finalize" => prepared = {} /\ snapshots = {} /\ receipts = {}
  /\ proc = "reconcile" => op = "finalize"
  /\ receipts # {} /\ Running => op = "finalize" /\ pc \in {"fail", "idle"}

LEMMA DisciplineStep ==
  TypeInv /\ JournalInv /\ Disciplined /\ ~InProcessRetry /\ [Next]_vars => Disciplined'
<1> SUFFICES ASSUME TypeInv, JournalInv, Disciplined, ~InProcessRetry, [Next]_vars
             PROVE  Disciplined'
  OBVIOUS
<1> USE DEF disk, memory, call, env
<1>1. CASE AppendRecord \/ \E s \in Segments : RecordSegment(s)
  BY <1>1 DEF AppendRecord, RecordSegment, Streaming, Disciplined, Running
<1>2. ASSUME NEW c \in Stamps, FinalizeCall(c) \/ AbortCall(c) PROVE Disciplined'
  BY <1>2 DEF FinalizeCall, AbortCall, MayAbort, Disciplined, Running
<1>3. CASE Step
  <2>1. Running /\ pc # "idle"
    BY <1>3 DEF Step, Seal, SealSkip, SealLink, SealFails, SealUnlink, SealLateFails,
       SealRemember,
       Finalize, LineageMissing, AdoptPrepared, WritePrepared, PublishNothing, PublishNormalized,
       WriteReceipt, RecordFailure, WriteAbort, JournalInv, Sealed
  <2>2. CASE Seal
    <3>1. receipts = {} /\ UNCHANGED <<prepared, snapshots, receipts, aborts, proc>>
          /\ (op # "append" => op' = op) /\ (op' # "finalize" \/ op = "finalize")
      BY <2>1, <2>2 DEF Seal, SealSkip, SealLink, SealFails, SealUnlink, SealLateFails,
         SealRemember,
         Raise, Disciplined
    <3> QED BY <2>1, <3>1 DEF Disciplined, Running
  <2>3. CASE Finalize
    <3>1. op = "finalize" /\ op' = op /\ UNCHANGED <<aborts, proc>>
      BY <2>3 DEF Finalize, LineageMissing, AdoptPrepared, WritePrepared, PublishNothing,
         PublishNormalized, WriteReceipt, RecordFailure, TypeInv, Locals
    <3>2. aborts = {}
      BY <2>1, <3>1 DEF Disciplined
    <3>3. receipts' # {} => pc' \in {"fail", "idle"}
      BY <2>1, <2>3 DEF Finalize, LineageMissing, AdoptPrepared, WritePrepared, PublishNothing,
         PublishNormalized, WriteReceipt, RecordFailure, Disciplined
    <3> QED BY <3>1, <3>2, <3>3 DEF Disciplined
  <2>4. CASE WriteAbort
    <3>1. op = "abort" /\ op' = op /\ UNCHANGED <<prepared, snapshots, receipts, proc>>
      BY <2>4 DEF WriteAbort, TypeInv, Locals
    <3>2. proc = "capture"
      BY <2>1, <3>1 DEF Disciplined, Running
    <3> QED BY <2>1, <3>1, <3>2 DEF Disciplined
  <2> QED BY <1>3, <2>2, <2>3, <2>4 DEF Step
<1>4. CASE Crash \/ Exit \/ Block \/ Skip \/ StartNetwork
  <2>1. proc' \notin {"capture", "reconcile"} /\ UNCHANGED <<prepared, snapshots, receipts, aborts>>
    BY <1>4 DEF Crash, Exit, LoseMemory, Block, Skip, StartNetwork
  <2> QED BY <2>1 DEF Disciplined, Running
<1>5. CASE Recover
  <2>1. receipts' = {} /\ aborts' = {} /\ proc' = "reconcile" /\ op' = "finalize"
    BY <1>5 DEF Recover, Replayable, Decided
  <2> QED BY <2>1 DEF Disciplined
<1>6. CASE Done \/ UNCHANGED vars
  BY <1>6 DEF Done, vars, Disciplined, Running
<1> QED BY <1>1, <1>2, <1>3, <1>4, <1>5, <1>6 DEF Next

LEMMA DisciplineInvariant ==
  ~InProcessRetry /\ Spec => [](TypeInv /\ WriteAheadInv /\ JournalInv /\ Disciplined)
<1> SUFFICES ASSUME ~InProcessRetry
             PROVE  Spec => [](TypeInv /\ WriteAheadInv /\ JournalInv /\ Disciplined)
  OBVIOUS
<1>1. Init => Disciplined
  BY DEF Init, Disciplined
<1>2. TypeInv /\ JournalInv /\ Disciplined /\ [Next]_vars => Disciplined'
  BY DisciplineStep
<1> QED BY JournalInvariant, <1>1, <1>2, PTL DEF Spec

LEMMA DecisionMoves ==
  ASSUME TypeInv, WriteAheadInv, JournalInv, Disciplined, [Next]_vars
  PROVE  [Abstract!Next]_(Abstract!vars)
<1> USE DEF disk, memory, call, env
<1>1. snapshots # {} => prepared # {}
  BY DEF WriteAheadInv, WriteAhead
<1>2. CASE UNCHANGED <<prepared, snapshots, receipts, aborts>>
  BY <1>2 DEF Abstract!vars, DecisionView
<1>3. CASE Finalize
  <2>1. Running /\ aborts = {} /\ aborts' = {}
    BY <1>3 DEF Finalize, LineageMissing, AdoptPrepared, WritePrepared, PublishNothing,
       PublishNormalized, WriteReceipt, RecordFailure, TypeInv, Locals, Disciplined, JournalInv, Sealed
  <2>2. CASE WritePrepared
    <3>1. receipts = {} /\ receipts' = {} /\ UNCHANGED snapshots /\ prepared \subseteq prepared'
      BY <2>1, <2>2 DEF WritePrepared, Disciplined
    <3>2. CASE prepared = {} /\ prepared' # {}
      BY <1>1, <2>1, <3>1, <3>2 DEF DecisionView, Abstract!Next, Abstract!Prepare
    <3>3. CASE prepared # {} \/ prepared' = {}
      BY <2>1, <3>1, <3>3 DEF DecisionView, Abstract!vars
    <3> QED BY <3>2, <3>3
  <2>3. CASE PublishNormalized
    <3>1. /\ receipts = {} /\ receipts' = {} /\ prepared # {} /\ UNCHANGED prepared
          /\ snapshots \subseteq snapshots'
      BY <2>1, <2>3 DEF PublishNormalized, Disciplined, JournalInv, Drafted
    <3>2. DecisionView = "prepared" /\ DecisionView' = "prepared"
      BY <2>1, <3>1 DEF DecisionView
    <3>3. CASE snapshots' # {}
      BY <3>2, <3>3 DEF Abstract!Next, Abstract!Publish
    <3>4. CASE snapshots' = {}
      BY <3>1, <3>2, <3>4 DEF Abstract!vars
    <3> QED BY <3>3, <3>4
  <2>4. CASE WriteReceipt
    <3>1. receipts = {} /\ prepared # {} /\ UNCHANGED <<prepared, snapshots>>
      BY <2>1, <2>4 DEF WriteReceipt, Disciplined, JournalInv, Drafted
    <3>2. CASE receipts' # {}
      BY <2>1, <3>1, <3>2 DEF DecisionView, Abstract!Next, Abstract!Commit
    <3>3. CASE receipts' = {}
      BY <2>1, <3>1, <3>3 DEF DecisionView, Abstract!vars
    <3> QED BY <3>2, <3>3
  <2>5. CASE LineageMissing \/ AdoptPrepared \/ PublishNothing \/ RecordFailure
    <3>1. UNCHANGED <<prepared, snapshots, receipts, aborts>>
      BY <2>5 DEF LineageMissing, AdoptPrepared, PublishNothing, RecordFailure
    <3> QED BY <1>2, <3>1
  <2> QED BY <1>3, <2>2, <2>3, <2>4, <2>5 DEF Finalize
<1>4. CASE WriteAbort
  <2>1. Running /\ op = "abort"
    BY <1>4 DEF WriteAbort, TypeInv, Locals, JournalInv, Sealed
  <2>2. prepared = {} /\ snapshots = {} /\ receipts = {} /\ UNCHANGED <<prepared, snapshots, receipts>>
        /\ aborts \subseteq aborts'
    BY <1>4, <2>1 DEF WriteAbort, Disciplined, Running
  <2>3. CASE aborts = {} /\ aborts' # {}
    BY <2>2, <2>3 DEF DecisionView, Abstract!Next, Abstract!Abort
  <2>4. CASE aborts # {} \/ aborts' = {}
    BY <2>2, <2>4 DEF DecisionView, Abstract!vars
  <2> QED BY <2>3, <2>4
<1>5. CASE Seal \/ AppendRecord \/ \E s \in Segments : RecordSegment(s)
  BY <1>2, <1>5 DEF Seal, SealSkip, SealLink, SealFails, SealUnlink, SealLateFails,
     SealRemember,
     AppendRecord, RecordSegment
<1>6. CASE \E c \in Stamps : FinalizeCall(c) \/ AbortCall(c)
  BY <1>2, <1>6 DEF FinalizeCall, AbortCall
<1>7. CASE Crash \/ Exit \/ Block \/ Skip \/ Recover \/ StartNetwork \/ Done \/ UNCHANGED vars
  BY <1>2, <1>7 DEF Crash, Exit, LoseMemory, Block, Skip, Recover, StartNetwork, Done, vars
<1> QED BY <1>3, <1>4, <1>5, <1>6, <1>7 DEF Next, Step

\* The journal implements EpochDecision: PREPARED before any snapshot, one
\* final decision, and no snapshot of an aborted epoch, whatever write fails,
\* with or without leaving its file, and wherever the process dies.
THEOREM JournalImplementsDecision == ~InProcessRetry /\ Spec => ImplementsDecision
<1> SUFFICES ASSUME ~InProcessRetry PROVE Spec => ImplementsDecision
  OBVIOUS
<1>1. Init => Abstract!Init
  BY DEF Init, Abstract!Init, DecisionView
<1>2. TypeInv /\ WriteAheadInv /\ JournalInv /\ Disciplined /\ [Next]_vars
        => [Abstract!Next]_(Abstract!vars)
  BY DecisionMoves
<1> QED BY DisciplineInvariant, <1>1, <1>2, PTL DEF Spec, ImplementsDecision, Abstract!Spec

=============================================================================
