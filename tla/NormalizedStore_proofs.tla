------------------------ MODULE NormalizedStore_proofs ------------------------
(***************************************************************************)
(* The normalized layer: its store and the validation of what is stored.   *)
(*                                                                         *)
(* NormalizedStore: no two published snapshots give one event id two       *)
(* contents, and each of them has its claim index unless files of it were  *)
(* lost, for any number of processes, batches, crashes, faults and losses. *)
(*                                                                         *)
(* NormalizedBatch: for any rows, streams, expected checkpoints and cuts   *)
(* into batches, what is published replays, what is refused is exact, and  *)
(* whole batches are judged as their rows are one by one.                  *)
(***************************************************************************)
EXTENDS NormalizedStore, NormalizedBatch, FoldLemmas

Labels == {"idle", "staged", "existing", "history", "rebuild", "locked", "aside", "indexed",
           "verify", "load", "retire"}

Outcomes == {"none", "published", "unverified", "loaded", "conflict", "error"}

Process ==
  [pc : Labels, batch : Batches \union {None}, target : Batches \union {None},
   todo : SUBSET Batches, stage : Nat, policy : BOOLEAN, preexisted : BOOLEAN, outcome : Outcomes]

TypeOK ==
  /\ snapshots \in SUBSET Batches
  /\ index \in [Batches -> {"absent", "partial", "whole"}]
  /\ commit \in Procs \union {None}
  /\ indexLock \in [Batches -> Procs \union {None}]
  /\ proc \in [Procs -> Process]
  /\ lost \in SUBSET Batches
  /\ calls \in Nat

\* Work on an index, for a load or between two steps of a commit.
OnIndex(p) == proc[p].pc \in {"rebuild", "locked", "aside"}
InCommit(p) == proc[p].pc \in {"existing", "history", "indexed"} \/ (OnIndex(p) /\ Writing(p))

\* One process commits at a time.
OneCommits == \A p \in Procs : InCommit(p) => commit = p

\* A commit knows what is published, and that its own batch is not.
KnowsHistory ==
  \A p \in Procs :
    /\ InCommit(p) \/ At(p, "staged") => Writing(p)
    /\ InCommit(p) /\ proc[p].pc # "existing" =>
         proc[p].batch \notin snapshots /\ proc[p].todo \subseteq snapshots

HasTarget ==
  \A p \in Procs : /\ OnIndex(p) \/ At(p, "load") => proc[p].target \in Batches
                   /\ At(p, "load") => ~Writing(p)

\* Once it asks for the index of its own batch, a commit has compared all claims.
Judged(p) == At(p, "indexed") \/ (OnIndex(p) /\ proc[p].target = proc[p].batch)
JudgedAgree ==
  \A p \in Procs : Judged(p) => \A h \in snapshots : <<proc[p].batch, h>> \notin Conflicts

\* An index is whole, or it is known to have lost files.
Kept(b) == index[b] = "whole" \/ b \in lost
IndexesKept ==
  /\ \A b \in snapshots \ Legacy : Kept(b)
  /\ \A b \in Batches : index[b] = "partial" => b \in lost
  /\ \A p \in Procs : At(p, "indexed") => Kept(proc[p].batch)

StoreInv ==
  /\ TypeOK /\ OneCommits /\ KnowsHistory /\ HasTarget /\ JudgedAgree /\ IndexesKept
  /\ NoConflictingClaims
-----------------------------------------------------------------------------
LEMMA StartHolds == Init => StoreInv
  <1> USE StoreAssumption
  <1> SUFFICES ASSUME Init PROVE StoreInv
    OBVIOUS
  <1>1. TypeOK
    BY DEF Init, TypeOK, Process, Labels, Outcomes, Idle
  <1>2. \A p \in Procs : proc[p].pc = "idle"
    BY DEF Init, Idle
  <1>3. OneCommits /\ KnowsHistory /\ HasTarget /\ JudgedAgree
    BY <1>2 DEF OneCommits, KnowsHistory, HasTarget, JudgedAgree, Judged, InCommit, OnIndex, At
  <1>4. IndexesKept /\ NoConflictingClaims
    BY <1>2 DEF Init, IndexesKept, NoConflictingClaims, At
  <1> QED BY <1>1, <1>3, <1>4 DEF StoreInv

(***************************************************************************)
(* A step of p that publishes nothing, leaves the other processes alone    *)
(* and damages no index has to care for p only.                            *)
(***************************************************************************)
\* What p itself must satisfy.
Sound(p) ==
  /\ InCommit(p) => commit = p
  /\ InCommit(p) \/ At(p, "staged") => Writing(p)
  /\ InCommit(p) /\ proc[p].pc # "existing" =>
       proc[p].batch \notin snapshots /\ proc[p].todo \subseteq snapshots
  /\ OnIndex(p) \/ At(p, "load") => proc[p].target \in Batches
  /\ At(p, "load") => ~Writing(p)
  /\ Judged(p) => \A h \in snapshots : <<proc[p].batch, h>> \notin Conflicts
  /\ At(p, "indexed") => Kept(proc[p].batch)

SoundIndexes ==
  /\ \A b \in snapshots \ Legacy : Kept(b)
  /\ \A b \in Batches : index[b] = "partial" => b \in lost

LEMMA InvIsSound ==
  StoreInv <=> TypeOK /\ SoundIndexes /\ NoConflictingClaims /\ \A p \in Procs : Sound(p)
  BY DEF StoreInv, OneCommits, KnowsHistory, HasTarget, JudgedAgree, IndexesKept, Sound,
     SoundIndexes

\* Another process stays sound when its record stays, nothing is published, and the
\* commit lock is taken from nobody else.
LEMMA OthersStaySound ==
  ASSUME StoreInv, NEW p \in Procs, NEW q \in Procs, q # p,
         proc'[q] = proc[q], snapshots' = snapshots,
         commit' = commit \/ commit = p \/ commit = None,
         \A b \in Batches : Kept(b) => Kept(b)' \/ (commit = p /\ b = proc[p].batch)
  PROVE  Sound(q)'
  <1>1. Sound(q) /\ TypeOK
    BY InvIsSound
  <1>2. InCommit(q)' <=> InCommit(q)
    BY DEF InCommit, OnIndex, Writing
  <1>3. InCommit(q) => commit = q /\ commit' = commit
    BY <1>1, StoreAssumption DEF Sound
  <1>4. At(q, "indexed") => InCommit(q) /\ proc[q].batch \in Batches
    BY <1>1, StoreAssumption DEF At, InCommit, Sound, Writing, TypeOK, Process
  <1> QED BY <1>1, <1>2, <1>3, <1>4 DEF Sound, OnIndex, At, Judged, Writing

LEMMA StepKeepsInv ==
  ASSUME StoreInv, NEW p \in Procs, TypeOK', Sound(p)', SoundIndexes',
         \A q \in Procs \ {p} : proc'[q] = proc[q], snapshots' = snapshots,
         commit' = commit \/ commit = p \/ commit = None,
         \A b \in Batches : Kept(b) => Kept(b)' \/ (commit = p /\ b = proc[p].batch)
  PROVE  StoreInv'
  <1>1. \A q \in Procs : Sound(q)'
    BY OthersStaySound
  <1>2. NoConflictingClaims'
    BY InvIsSound DEF NoConflictingClaims
  <1> QED
    BY <1>1, <1>2 DEF StoreInv, OneCommits, KnowsHistory, HasTarget, JudgedAgree, IndexesKept,
       Sound, SoundIndexes

\* The record of one process is replaced.
LEMMA Replaced ==
  ASSUME TypeOK, NEW p \in Procs, NEW r \in Process, proc' = [proc EXCEPT ![p] = r]
  PROVE  proc' \in [Procs -> Process] /\ proc'[p] = r /\ \A q \in Procs \ {p} : proc'[q] = proc[q]
  BY DEF TypeOK

\* A call that ends is sound: it holds nothing and asks for nothing.
LEMMA EndIsSound ==
  ASSUME StoreInv, NEW p \in Procs, NEW o \in Outcomes, End(p, o)
  PROVE  /\ proc' \in [Procs -> Process] /\ commit' \in Procs \union {None}
         /\ Sound(p)' /\ \A q \in Procs \ {p} : proc'[q] = proc[q]
         /\ commit' = commit \/ commit = p \/ commit = None
  <1>1. TypeOK
    BY InvIsSound
  <1> DEFINE r == [proc[p] EXCEPT !.pc = IF Writing(p) THEN "retire" ELSE "idle",
                                  !.outcome = o, !.target = None, !.todo = {}]
  <1>a. r \in Process /\ r.pc \in {"retire", "idle"}
    <2>1. proc[p] \in Process
      BY <1>1 DEF TypeOK
    <2> QED BY <2>1 DEF Process, Labels
  <1>b. proc' = [proc EXCEPT ![p] = r]
    BY DEF End
  <1>2. /\ proc' \in [Procs -> Process] /\ proc'[p].pc \in {"retire", "idle"}
        /\ \A q \in Procs \ {p} : proc'[q] = proc[q]
    BY <1>1, <1>a, <1>b, Replaced
  <1>3. Sound(p)'
    BY <1>2 DEF Sound, InCommit, OnIndex, Judged, At
  <1>4. commit' = commit \/ (commit' = None /\ commit = p)
    BY DEF End
  <1> QED BY <1>1, <1>2, <1>3, <1>4 DEF TypeOK

\* What a process that goes on in the same call knows.
LEMMA KnownOf ==
  ASSUME StoreInv, NEW p \in Procs
  PROVE  TypeOK /\ Sound(p) /\ SoundIndexes /\ proc[p] \in Process
  BY InvIsSound DEF TypeOK

\* A call goes on with the record r, and nothing but locks and stages changes.
LEMMA GoesOn ==
  ASSUME StoreInv, NEW p \in Procs, NEW r \in Process, proc' = [proc EXCEPT ![p] = r],
         UNCHANGED <<snapshots, index, lost>>, calls' \in Nat,
         indexLock' \in [Batches -> Procs \union {None}],
         commit' = commit \/ (commit' \in Procs \union {None} /\ (commit = p \/ commit = None)),
         proc'[p] = r => Sound(p)'
  PROVE  StoreInv'
  <1>1. TypeOK /\ SoundIndexes
    BY KnownOf
  <1>2. proc' \in [Procs -> Process] /\ proc'[p] = r /\ \A q \in Procs \ {p} : proc'[q] = proc[q]
    BY <1>1, Replaced
  <1>3. TypeOK'
    BY <1>1, <1>2 DEF TypeOK
  <1>4. SoundIndexes' /\ \A c \in Batches : Kept(c) => Kept(c)'
    BY <1>1 DEF SoundIndexes, Kept
  <1> QED BY <1>2, <1>3, <1>4, StepKeepsInv

\* A call ends, and nothing is published and no index is damaged unnoticed.
LEMMA EndsSoundly ==
  ASSUME StoreInv, NEW p \in Procs, NEW o \in Outcomes, End(p, o),
         snapshots' = snapshots, index' \in [Batches -> {"absent", "partial", "whole"}],
         lost' \in SUBSET Batches, calls' \in Nat, indexLock' \in [Batches -> Procs \union {None}],
         SoundIndexes',
         \A b \in Batches : Kept(b) => Kept(b)' \/ (commit = p /\ b = proc[p].batch)
  PROVE  StoreInv'
  <1>1. TypeOK
    BY KnownOf
  <1>2. /\ proc' \in [Procs -> Process] /\ commit' \in Procs \union {None}
        /\ Sound(p)' /\ \A q \in Procs \ {p} : proc'[q] = proc[q]
        /\ commit' = commit \/ commit = p \/ commit = None
    BY EndIsSound
  <1>3. TypeOK'
    BY <1>1, <1>2 DEF TypeOK
  <1> QED BY <1>2, <1>3, StepKeepsInv

\* The same when indexes stay as they are.
LEMMA EndsQuietly ==
  ASSUME StoreInv, NEW p \in Procs, NEW o \in Outcomes, End(p, o),
         UNCHANGED <<snapshots, index, lost, calls>>, indexLock' \in [Batches -> Procs \union {None}]
  PROVE  StoreInv'
  <1>1. TypeOK /\ SoundIndexes
    BY KnownOf
  <1>2. SoundIndexes' /\ \A b \in Batches : Kept(b) => Kept(b)'
    BY <1>1 DEF SoundIndexes, Kept
  <1> QED BY <1>1, <1>2, EndsSoundly DEF TypeOK
-----------------------------------------------------------------------------
LEMMA StartWriteStep ==
  ASSUME StoreInv, NEW p \in Procs, NEW b \in Batches, StartWrite(p, b)
  PROVE  StoreInv'
  <1> DEFINE r == [Idle EXCEPT !.pc = "staged", !.batch = b, !.stage = NewStage, !.policy = TRUE]
  <1>1. TypeOK
    BY KnownOf
  <1>2. r \in Process /\ calls' \in Nat
    <2>1. calls + 1 \in Nat /\ calls' = calls + 1
      BY <1>1 DEF TypeOK, StartWrite
    <2> QED BY <2>1 DEF NewStage, Process, Labels, Outcomes, Idle
  <1>3. proc' = [proc EXCEPT ![p] = r] /\ UNCHANGED <<snapshots, index, lost, commit, indexLock>>
    BY DEF StartWrite, Lake
  <1>4. proc'[p] = r => Sound(p)'
    BY StoreAssumption DEF Sound, InCommit, OnIndex, Judged, At, Idle, Writing
  <1> QED BY <1>1, <1>2, <1>3, <1>4, GoesOn DEF TypeOK

LEMMA StartLoadStep ==
  ASSUME StoreInv, NEW p \in Procs, NEW b \in Batches, NEW policy \in BOOLEAN, StartLoad(p, b, policy)
  PROVE  StoreInv'
  <1> DEFINE r == [Idle EXCEPT !.pc = "load", !.target = b, !.policy = policy]
  <1>1. TypeOK
    BY KnownOf
  <1>2. r \in Process /\ calls' \in Nat
    <2>1. calls + 1 \in Nat /\ calls' = calls + 1
      BY <1>1 DEF TypeOK, StartLoad
    <2> QED BY <2>1 DEF Process, Labels, Outcomes, Idle
  <1>3. proc' = [proc EXCEPT ![p] = r] /\ UNCHANGED <<snapshots, index, lost, commit, indexLock>>
    BY DEF StartLoad, Lake
  <1>4. proc'[p] = r => Sound(p)'
    BY DEF Sound, InCommit, OnIndex, Judged, At, Idle, Writing
  <1> QED BY <1>1, <1>2, <1>3, <1>4, GoesOn DEF TypeOK

LEMMA RetireStep ==
  ASSUME StoreInv, NEW p \in Procs, Retire(p)
  PROVE  StoreInv'
  <1> DEFINE r == [Idle EXCEPT !.outcome = proc[p].outcome]
  <1>1. TypeOK /\ proc[p] \in Process
    BY KnownOf
  <1>2. r \in Process
    BY <1>1 DEF Process, Labels, Outcomes, Idle
  <1>3. proc' = [proc EXCEPT ![p] = r] /\ UNCHANGED <<snapshots, index, lost, commit, indexLock, calls>>
    BY DEF Retire, Lake, Counts
  <1>4. proc'[p] = r => Sound(p)'
    BY DEF Sound, InCommit, OnIndex, Judged, At, Idle
  <1> QED BY <1>1, <1>2, <1>3, <1>4, GoesOn DEF TypeOK

LEMMA EnterCommitStep ==
  ASSUME StoreInv, NEW p \in Procs, EnterCommit(p)
  PROVE  StoreInv'
  <1> DEFINE r == [proc[p] EXCEPT !.pc = IF proc[p].batch \in snapshots THEN "existing" ELSE "history",
                                  !.todo = snapshots]
  <1>1. TypeOK /\ proc[p] \in Process /\ Sound(p)
    BY KnownOf
  <1>2. r \in Process
    BY <1>1 DEF TypeOK, Process, Labels
  <1>3. /\ proc' = [proc EXCEPT ![p] = r] /\ UNCHANGED <<snapshots, index, lost, indexLock, calls>>
        /\ commit = None /\ commit' = p
    BY DEF EnterCommit, Counts
  <1>a. r.batch = proc[p].batch /\ r.todo = snapshots /\ r.pc \in {"existing", "history"}
        /\ (r.pc = "history" => proc[p].batch \notin snapshots)
    BY <1>1 DEF Process
  <1>4. ASSUME proc'[p] = r PROVE Sound(p)'
    BY <1>1, <1>3, <1>4, <1>a DEF EnterCommit, Sound, InCommit, OnIndex, Judged, At, Writing
  <1> QED BY <1>1, <1>2, <1>3, <1>4, GoesOn DEF TypeOK

LEMMA LoadExistingStep ==
  ASSUME StoreInv, NEW p \in Procs, LoadExisting(p)
  PROVE  StoreInv'
  <1>1. PICK o \in Outcomes : End(p, o)
    BY DEF LoadExisting, Outcomes
  <1> QED BY <1>1, KnownOf, EndsQuietly DEF LoadExisting, Counts, TypeOK

LEMMA VerifyStep ==
  ASSUME StoreInv, NEW p \in Procs, Verify(p)
  PROVE  StoreInv'
  <1>1. PICK o \in Outcomes : End(p, o)
    BY DEF Verify, Outcomes
  <1> QED BY <1>1, KnownOf, EndsQuietly DEF Verify, Counts, TypeOK

LEMMA CheckHistoryStep ==
  ASSUME StoreInv, NEW p \in Procs, CheckHistory(p)
  PROVE  StoreInv'
  <1>1. TypeOK /\ proc[p] \in Process /\ Sound(p)
    BY KnownOf
  <1>2. PICK h \in proc[p].todo :
          proc' = [proc EXCEPT ![p] = IF Whole(h) THEN [proc[p] EXCEPT !.todo = proc[p].todo \ {h}]
                                      ELSE [@ EXCEPT !.pc = "rebuild", !.target = h]]
    BY Zenon DEF CheckHistory
  <1> DEFINE r == IF Whole(h) THEN [proc[p] EXCEPT !.todo = proc[p].todo \ {h}]
                  ELSE [proc[p] EXCEPT !.pc = "rebuild", !.target = h]
  <1>3. h \in snapshots /\ h \in Batches /\ h # proc[p].batch /\ commit = p /\ Writing(p)
        /\ proc[p].batch \notin snapshots /\ proc[p].todo \subseteq snapshots
    BY <1>1, <1>2 DEF CheckHistory, At, Sound, InCommit, TypeOK
  <1>4. r \in Process
    BY <1>1, <1>3 DEF Process, Labels
  <1>5. UNCHANGED <<snapshots, index, lost, commit, indexLock, calls>>
    BY DEF CheckHistory, Lake, Counts
  <1>6. r.batch = proc[p].batch /\ r.todo \subseteq snapshots
        /\ (r.pc = "history" \/ (r.pc = "rebuild" /\ r.target = h))
    BY <1>1, <1>3 DEF CheckHistory, At, Process
  <1>7. ASSUME proc'[p] = r PROVE Sound(p)'
    BY <1>3, <1>5, <1>6, <1>7 DEF Sound, InCommit, OnIndex, Judged, At, Writing
  <1>8. proc' = [proc EXCEPT ![p] = r]
    BY <1>2
  <1> HIDE DEF r
  <1> QED BY <1>1, <1>8, <1>4, <1>5, <1>7, GoesOn DEF TypeOK

LEMMA JudgeClaimsStep ==
  ASSUME StoreInv, NEW p \in Procs, JudgeClaims(p)
  PROVE  StoreInv'
  <1>1. TypeOK /\ proc[p] \in Process /\ Sound(p)
    BY KnownOf
  <1>2. UNCHANGED <<snapshots, index, lost, indexLock, calls>>
    BY DEF JudgeClaims, Counts
  <1>3. CASE ClaimConflict(proc[p].batch)
    BY <1>1, <1>2, <1>3, EndsQuietly DEF JudgeClaims, Outcomes, TypeOK
  <1>4. CASE ~ClaimConflict(proc[p].batch)
    <2> DEFINE r == [proc[p] EXCEPT !.pc = "rebuild", !.target = proc[p].batch,
                                    !.preexisted = index[proc[p].batch] # "absent"]
    <2>1. /\ commit = p /\ Writing(p) /\ proc[p].batch \notin snapshots
          /\ proc[p].todo \subseteq snapshots /\ proc[p].batch \in Batches
      BY <1>1 DEF JudgeClaims, At, Sound, InCommit, Writing, Process
    <2>2. r \in Process
      BY <1>1, <2>1 DEF Process, Labels
    <2>3. proc' = [proc EXCEPT ![p] = r] /\ commit' = commit
      BY <1>4 DEF JudgeClaims
    <2>4. r.batch = proc[p].batch /\ r.todo = proc[p].todo /\ r.pc = "rebuild" /\ r.target = proc[p].batch
      BY <1>1 DEF Process
    <2>5. \A h \in snapshots : <<proc[p].batch, h>> \notin Conflicts
      BY <1>4, <2>1 DEF ClaimConflict, Historical, Disagree
    <2> HIDE DEF r
    <2>6. ASSUME proc'[p] = r PROVE Sound(p)'
      BY <1>2, <2>1, <2>3, <2>4, <2>5, <2>6 DEF Sound, InCommit, OnIndex, Judged, At, Writing
    <2> QED BY <1>1, <1>2, <2>2, <2>3, <2>6, GoesOn DEF TypeOK
  <1> QED BY <1>3, <1>4

\* The batch of the one commit becomes visible: it agrees with all that are.
LEMMA PublishSnapshotStep ==
  ASSUME StoreInv, NEW p \in Procs, PublishSnapshot(p)
  PROVE  StoreInv'
  <1> DEFINE b == proc[p].batch
             r == [proc[p] EXCEPT !.pc = "verify"]
  <1>1. TypeOK /\ proc[p] \in Process /\ Sound(p) /\ SoundIndexes /\ NoConflictingClaims
        /\ \A q \in Procs : Sound(q)
    BY KnownOf, InvIsSound
  <1>2. /\ At(p, "indexed") /\ commit = p /\ b \in Batches /\ Kept(b)
        /\ \A h \in snapshots : <<b, h>> \notin Conflicts
    BY <1>1 DEF PublishSnapshot, Publishable, At, Sound, InCommit, Writing, Process, Judged
  <1>3. /\ snapshots' = snapshots \union {b} /\ UNCHANGED <<index, lost, indexLock, calls>>
        /\ commit' = None /\ proc' = [proc EXCEPT ![p] = r]
    BY DEF PublishSnapshot, Goto, Counts
  <1>4. r \in Process /\ r.pc = "verify"
    BY <1>1 DEF Process, Labels
  <1>5. proc' \in [Procs -> Process] /\ proc'[p] = r /\ \A q \in Procs \ {p} : proc'[q] = proc[q]
    BY <1>1, <1>3, <1>4, Replaced
  <1> HIDE DEF r
  <1>6. TypeOK'
    BY <1>1, <1>2, <1>3, <1>5 DEF TypeOK
  <1>7. NoConflictingClaims'
    BY <1>1, <1>2, <1>3, StoreAssumption DEF NoConflictingClaims
  <1>8. SoundIndexes'
    BY <1>1, <1>2, <1>3 DEF SoundIndexes, Kept
  <1>9. ASSUME NEW q \in Procs PROVE Sound(q)'
    <2>1. CASE q = p
      BY <1>4, <1>5, <2>1 DEF Sound, InCommit, OnIndex, Judged, At
    <2>2. CASE q # p
      <3>1. Sound(q) /\ ~InCommit(q) /\ proc'[q] = proc[q] /\ proc[q] \in Process
        BY <1>1, <1>2, <1>5, <2>2 DEF Sound, TypeOK
      <3>2. ~Judged(q)
        BY <3>1, StoreAssumption DEF Sound, Judged, InCommit, At, Writing, OnIndex
      <3> QED BY <3>1, <3>2 DEF Sound, InCommit, OnIndex, Judged, At, Writing
    <2> QED BY <2>1, <2>2
  <1> QED
    BY <1>6, <1>7, <1>8, <1>9
    DEF StoreInv, OneCommits, KnowsHistory, HasTarget, JudgedAgree, IndexesKept, Sound, SoundIndexes

LEMMA PublishSnapshotFailsStep ==
  ASSUME StoreInv, NEW p \in Procs, PublishSnapshotFails(p)
  PROVE  StoreInv'
  <1> DEFINE b == proc[p].batch
  <1>1. TypeOK /\ proc[p] \in Process /\ Sound(p) /\ SoundIndexes
    BY KnownOf
  <1>2. commit = p /\ b \in Batches /\ b \notin snapshots
    BY <1>1 DEF PublishSnapshotFails, At, Sound, InCommit, Writing, Process
  <1>3. index' = index \/ index' = [index EXCEPT ![b] = "absent"]
    BY DEF PublishSnapshotFails
  <1>4. UNCHANGED <<snapshots, lost, indexLock, calls>> /\ End(p, "error")
    BY DEF PublishSnapshotFails
  <1>5. index' \in [Batches -> {"absent", "partial", "whole"}]
    BY <1>1, <1>3 DEF TypeOK
  <1>6. \A c \in Batches \ {b} : index'[c] = index[c]
    BY <1>1, <1>3 DEF TypeOK
  <1>7. index'[b] \in {index[b], "absent"}
    BY <1>1, <1>2, <1>3 DEF TypeOK
  <1>8. SoundIndexes' /\ \A c \in Batches : Kept(c) => Kept(c)' \/ c = b
    BY <1>1, <1>2, <1>4, <1>6, <1>7 DEF SoundIndexes, Kept, TypeOK
  <1> QED BY <1>1, <1>2, <1>4, <1>5, <1>8, EndsSoundly DEF Outcomes, TypeOK

LEMMA LoadStep ==
  ASSUME StoreInv, NEW p \in Procs, Load(p)
  PROVE  StoreInv'
  <1>1. TypeOK /\ proc[p] \in Process /\ Sound(p)
    BY KnownOf
  <1>2. UNCHANGED <<snapshots, index, lost, indexLock, calls>>
    BY DEF Load, Counts
  <1>3. CASE Whole(proc[p].target)
    BY <1>1, <1>2, <1>3, EndsQuietly DEF Load, Outcomes, TypeOK
  <1>4. CASE ~Whole(proc[p].target)
    <2> DEFINE r == [proc[p] EXCEPT !.pc = "rebuild"]
    <2>1. r \in Process /\ r.pc = "rebuild" /\ r.batch = proc[p].batch /\ r.target = proc[p].target
      BY <1>1 DEF Process, Labels
    <2>2. proc' = [proc EXCEPT ![p] = r] /\ commit' = commit
      BY <1>4 DEF Load, Goto
    <2>3. proc[p].target \in Batches /\ ~Writing(p)
      BY <1>1 DEF Load, Sound
    <2> HIDE DEF r
    <2>4. ASSUME proc'[p] = r PROVE Sound(p)'
      BY <2>1, <2>3, <2>4, StoreAssumption DEF Sound, InCommit, OnIndex, Judged, At, Writing
    <2> QED BY <1>1, <1>2, <2>1, <2>2, <2>4, GoesOn DEF TypeOK
  <1> QED BY <1>3, <1>4

\* A step from one label of the work on an index to another.
LEMMA StaysOnIndex ==
  ASSUME StoreInv, NEW p \in Procs, NEW l \in {"locked", "aside"}, OnIndex(p),
         proc' = [proc EXCEPT ![p] = [@ EXCEPT !.pc = l]], UNCHANGED <<snapshots, commit>>
  PROVE  /\ proc' \in [Procs -> Process] /\ Sound(p)'
         /\ \A q \in Procs \ {p} : proc'[q] = proc[q]
  <1> DEFINE r == [proc[p] EXCEPT !.pc = l]
  <1>1. TypeOK /\ proc[p] \in Process /\ Sound(p)
    BY KnownOf
  <1>2. /\ r \in Process /\ r.pc = l /\ r.batch = proc[p].batch /\ r.target = proc[p].target
        /\ r.todo = proc[p].todo
    BY <1>1 DEF Process, Labels
  <1>3. proc' = [proc EXCEPT ![p] = r]
    OBVIOUS
  <1> HIDE DEF r
  <1>4. proc' \in [Procs -> Process] /\ proc'[p] = r /\ \A q \in Procs \ {p} : proc'[q] = proc[q]
    BY <1>1, <1>2, <1>3, Replaced
  <1>5. Sound(p)'
    BY <1>1, <1>2, <1>4 DEF Sound, InCommit, OnIndex, Judged, At, Writing
  <1> QED BY <1>4, <1>5

LEMMA LockIndexStep ==
  ASSUME StoreInv, NEW p \in Procs, LockIndex(p)
  PROVE  StoreInv'
  <1>1. TypeOK /\ SoundIndexes
    BY KnownOf
  <1>2. OnIndex(p) /\ UNCHANGED <<snapshots, index, commit, lost, calls>>
    BY DEF LockIndex, At, OnIndex, Counts
  <1>3. proc' \in [Procs -> Process] /\ Sound(p)' /\ \A q \in Procs \ {p} : proc'[q] = proc[q]
    BY <1>2, StaysOnIndex DEF LockIndex, Goto
  <1>4. indexLock' \in [Batches -> Procs \union {None}]
    BY <1>1 DEF LockIndex, TypeOK
  <1>5. TypeOK'
    BY <1>1, <1>2, <1>3, <1>4 DEF TypeOK
  <1>6. SoundIndexes' /\ \A c \in Batches : Kept(c) => Kept(c)'
    BY <1>1, <1>2 DEF SoundIndexes, Kept
  <1> QED BY <1>2, <1>3, <1>5, <1>6, StepKeepsInv

LEMMA MoveAsideStep ==
  ASSUME StoreInv, NEW p \in Procs, MoveAside(p)
  PROVE  StoreInv'
  <1>1. TypeOK /\ SoundIndexes /\ Sound(p)
    BY KnownOf
  <1>2. OnIndex(p) /\ UNCHANGED <<snapshots, indexLock, commit, lost, calls>>
    BY DEF MoveAside, At, OnIndex, Counts
  <1>3. proc' \in [Procs -> Process] /\ Sound(p)' /\ \A q \in Procs \ {p} : proc'[q] = proc[q]
    BY <1>2, StaysOnIndex DEF MoveAside, Goto
  <1>4. proc[p].target \in Batches /\ proc[p].target \in lost
        /\ index' = [index EXCEPT ![proc[p].target] = "absent"]
    BY <1>1, <1>2 DEF MoveAside, Sound, SoundIndexes
  <1>5. TypeOK'
    BY <1>1, <1>2, <1>3, <1>4 DEF TypeOK
  <1>6. SoundIndexes' /\ \A c \in Batches : Kept(c) => Kept(c)'
    BY <1>1, <1>2, <1>4 DEF SoundIndexes, Kept, TypeOK
  <1> QED BY <1>2, <1>3, <1>5, <1>6, StepKeepsInv

\* The index that was asked for is there: the call goes on, or it was a load.
LEMMA ResumeStep ==
  ASSUME StoreInv, NEW p \in Procs, OnIndex(p), Resume(p), UNCHANGED <<snapshots, lost, calls>>,
         index' = index \/ index' = [index EXCEPT ![proc[p].target] = "whole"],
         index'[proc[p].target] = "whole"
  PROVE  StoreInv'
  <1> DEFINE t == proc[p].target
  <1>1. TypeOK /\ SoundIndexes /\ Sound(p) /\ proc[p] \in Process /\ t \in Batches
    BY KnownOf DEF Sound
  <1>2. index' \in [Batches -> {"absent", "partial", "whole"}] /\ \A c \in Batches \ {t} : index'[c] = index[c]
    BY <1>1 DEF TypeOK
  <1>3. SoundIndexes' /\ \A c \in Batches : Kept(c) => Kept(c)'
    BY <1>1, <1>2 DEF SoundIndexes, Kept, TypeOK
  <1>4. indexLock' \in [Batches -> Procs \union {None}]
    BY <1>1 DEF Resume, TypeOK
  <1>5. CASE ~Writing(p)
    BY <1>1, <1>2, <1>3, <1>4, <1>5, EndsSoundly DEF Resume, Outcomes, TypeOK
  <1>6. CASE Writing(p)
    <2> DEFINE r == [proc[p] EXCEPT !.pc = IF t = proc[p].batch THEN "indexed" ELSE "history",
                                    !.todo = proc[p].todo \ {t}, !.target = None]
    <2>1. /\ r \in Process /\ r.batch = proc[p].batch /\ r.todo \subseteq proc[p].todo
          /\ r.pc = IF t = proc[p].batch THEN "indexed" ELSE "history"
      BY <1>1 DEF Process, Labels
    <2>2. proc' = [proc EXCEPT ![p] = r] /\ commit' = commit
      BY <1>6 DEF Resume
    <2>3. /\ commit = p /\ proc[p].batch \notin snapshots /\ proc[p].todo \subseteq snapshots
      BY <1>1, <1>6 DEF Sound, InCommit, OnIndex
    <2>4. t = proc[p].batch => \A h \in snapshots : <<proc[p].batch, h>> \notin Conflicts
      BY <1>1 DEF Sound, Judged
    <2> HIDE DEF r
    <2>5. proc' \in [Procs -> Process] /\ proc'[p] = r /\ \A q \in Procs \ {p} : proc'[q] = proc[q]
      BY <1>1, <2>1, <2>2, Replaced
    <2>6. Sound(p)'
      BY <1>6, <2>1, <2>2, <2>3, <2>4, <2>5 DEF Sound, InCommit, OnIndex, Judged, At, Writing,
         Kept
    <2>7. TypeOK'
      BY <1>1, <1>2, <1>4, <2>2, <2>5 DEF TypeOK
    <2> QED BY <1>3, <2>2, <2>5, <2>6, <2>7, StepKeepsInv
  <1> QED BY <1>5, <1>6

LEMMA IndexFoundStep ==
  ASSUME StoreInv, NEW p \in Procs, IndexFound(p)
  PROVE  StoreInv'
  BY ResumeStep DEF IndexFound, Whole, At, OnIndex, Counts

LEMMA PublishIndexStep ==
  ASSUME StoreInv, NEW p \in Procs, PublishIndex(p)
  PROVE  StoreInv'
  <1>1. TypeOK /\ Sound(p)
    BY KnownOf
  <1>2. OnIndex(p) /\ proc[p].target \in Batches
    BY <1>1 DEF PublishIndex, IndexWanted, At, OnIndex, Sound
  <1>3. index' = [index EXCEPT ![proc[p].target] = "whole"] /\ index'[proc[p].target] = "whole"
    BY <1>1, <1>2 DEF PublishIndex, TypeOK
  <1> QED BY <1>2, <1>3, ResumeStep DEF PublishIndex, Counts

LEMMA NeedsPolicyStep ==
  ASSUME StoreInv, NEW p \in Procs, NeedsPolicy(p)
  PROVE  StoreInv'
  <1>1. TypeOK
    BY KnownOf
  <1>2. indexLock' \in [Batches -> Procs \union {None}]
    BY <1>1 DEF NeedsPolicy, GiveUpIndex, TypeOK
  <1> QED BY <1>2, EndsQuietly DEF NeedsPolicy, GiveUpIndex, Counts, Outcomes

LEMMA PublishIndexFailsStep ==
  ASSUME StoreInv, NEW p \in Procs, PublishIndexFails(p)
  PROVE  StoreInv'
  <1>1. TypeOK /\ SoundIndexes
    BY KnownOf
  <1>2. /\ End(p, "error") /\ UNCHANGED <<snapshots, index, calls>>
        /\ lost' \in SUBSET Batches /\ lost \subseteq lost'
        /\ indexLock' \in [Batches -> Procs \union {None}]
    BY <1>1 DEF PublishIndexFails, GiveUpIndex, TypeOK
  <1>3. SoundIndexes' /\ \A c \in Batches : Kept(c) => Kept(c)'
    BY <1>1, <1>2 DEF SoundIndexes, Kept
  <1> QED BY <1>1, <1>2, <1>3, EndsSoundly DEF Outcomes, TypeOK

LEMMA CrashStep ==
  ASSUME StoreInv, NEW p \in Procs, Crash(p)
  PROVE  StoreInv'
  <1>1. TypeOK /\ SoundIndexes /\ Sound(p)
    BY KnownOf
  <1>2. Idle \in Process /\ proc' = [proc EXCEPT ![p] = Idle]
    BY DEF Crash, Idle, Process, Labels, Outcomes
  <1>3. proc' \in [Procs -> Process] /\ proc'[p] = Idle /\ \A q \in Procs \ {p} : proc'[q] = proc[q]
    BY <1>1, <1>2, Replaced
  <1>4. Sound(p)'
    BY <1>3 DEF Sound, InCommit, OnIndex, Judged, At, Idle
  <1>5. /\ UNCHANGED <<snapshots, index, calls>> /\ lost \subseteq lost'
        /\ commit' = commit \/ commit = p
    BY DEF Crash
  <1>6. lost' \in SUBSET Batches
    BY <1>1 DEF Crash, Sound, OnIndex, At, TypeOK
  <1>7. indexLock' \in [Batches -> Procs \union {None}] /\ commit' \in Procs \union {None}
    BY <1>1 DEF Crash, TypeOK
  <1>8. TypeOK'
    BY <1>1, <1>3, <1>5, <1>6, <1>7 DEF TypeOK
  <1>9. SoundIndexes' /\ \A c \in Batches : Kept(c) => Kept(c)'
    BY <1>1, <1>5 DEF SoundIndexes, Kept
  <1> QED BY <1>3, <1>4, <1>5, <1>8, <1>9, StepKeepsInv

LEMMA DamageStep ==
  ASSUME StoreInv, NEW b \in Batches, Damage(b)
  PROVE  StoreInv'
  <1>1. TypeOK /\ SoundIndexes /\ NoConflictingClaims /\ \A q \in Procs : Sound(q)
    BY InvIsSound
  <1>2. /\ UNCHANGED <<snapshots, commit, indexLock, proc, calls>> /\ lost' = lost \union {b}
        /\ \E left \in {"absent", "partial"} : index' = [index EXCEPT ![b] = left]
    BY DEF Damage
  <1>3. TypeOK' /\ \A c \in Batches \ {b} : index'[c] = index[c]
    BY <1>1, <1>2 DEF TypeOK
  <1>4. SoundIndexes' /\ \A c \in Batches : Kept(c) => Kept(c)'
    BY <1>1, <1>2, <1>3 DEF SoundIndexes, Kept, TypeOK
  <1>5. ASSUME NEW q \in Procs PROVE Sound(q)'
    <2>1. At(q, "indexed") => proc[q].batch \in Batches
      BY <1>1 DEF At, Sound, InCommit, Writing, TypeOK, Process
    <2> QED BY <1>1, <1>2, <1>4, <2>1 DEF Sound, InCommit, OnIndex, Judged, At, Writing
  <1>6. NoConflictingClaims'
    BY <1>1, <1>2 DEF NoConflictingClaims
  <1> QED
    BY <1>3, <1>4, <1>5, <1>6
    DEF StoreInv, OneCommits, KnowsHistory, HasTarget, JudgedAgree, IndexesKept, Sound, SoundIndexes
-----------------------------------------------------------------------------
LEMMA StutterStep == ASSUME StoreInv, UNCHANGED vars PROVE StoreInv'
  BY DEF vars, StoreInv, TypeOK, OneCommits, KnowsHistory, HasTarget, JudgedAgree, IndexesKept,
         NoConflictingClaims, InCommit, OnIndex, Judged, Kept, At, Writing

LEMMA NextStep == ASSUME StoreInv, [Next]_vars PROVE StoreInv'
  <1>1. ASSUME NEW p \in Procs, Proceed(p) PROVE StoreInv'
    BY <1>1, EnterCommitStep, LoadExistingStep, CheckHistoryStep, JudgeClaimsStep,
       PublishSnapshotStep,
       VerifyStep, RetireStep, LoadStep, LockIndexStep, IndexFoundStep, NeedsPolicyStep, MoveAsideStep,
       PublishIndexStep
    DEF Proceed
  <1>2. ASSUME NEW p \in Procs, PublishSnapshotFails(p) \/ PublishIndexFails(p) \/ Crash(p) PROVE StoreInv'
    BY <1>2, PublishSnapshotFailsStep, PublishIndexFailsStep, CrashStep
  <1>3. ASSUME NEW p \in Procs, NEW b \in Batches,
               StartWrite(p, b) \/ \E policy \in BOOLEAN : StartLoad(p, b, policy)
        PROVE  StoreInv'
    BY <1>3, StartWriteStep, StartLoadStep
  <1>4. ASSUME NEW b \in Batches, Damage(b) PROVE StoreInv'
    BY <1>4, DamageStep
  <1>5. CASE Quiet \/ UNCHANGED vars
    BY <1>5, StutterStep DEF Quiet
  <1> QED BY <1>1, <1>2, <1>3, <1>4, <1>5 DEF Next

\* The invariant of the store: what each label of a call may rely on.
THEOREM StoreInvariant == Spec => []StoreInv
  <1>1. StoreInv /\ [Next]_vars => StoreInv'
    BY NextStep
  <1> QED BY StartHolds, <1>1, PTL DEF Spec

\* No two published snapshots give one event id two contents, for any number of
\* processes, batches, crashes and faults: claims are compared and the snapshot becomes
\* visible under one hold of the commit lock (_finalize_strict_batch_snapshot).
THEOREM NoConflictingClaimsHolds == Spec => []NoConflictingClaims
  <1>1. StoreInv => NoConflictingClaims
    BY DEF StoreInv
  <1> QED BY StoreInvariant, <1>1, PTL

\* A published snapshot has its whole index unless files of it were lost.
THEOREM SnapshotHasIndexHolds == Spec => []SnapshotHasIndex
  <1>1. StoreInv => SnapshotHasIndex
    BY DEF StoreInv, IndexesKept, Kept, SnapshotHasIndex
  <1> QED BY StoreInvariant, <1>1, PTL
-----------------------------------------------------------------------------
(***************************************************************************)
(* Loads.  A load that is under way has no outcome yet, so that an error   *)
(* is that of its last step; with a policy only a fault can make one.      *)
(***************************************************************************)
Loading(p) == ~Writing(p) /\ proc[p].pc # "idle"
LoadsAreOpen == faults \in Nat /\ \A p \in Procs : Loading(p) => proc[p].outcome = "none"

\* A call that goes on keeps its batch and its outcome; one that ends as a load is idle.
Onward(r, o) == r.batch = o.batch /\ (r.outcome = o.outcome \/ o.batch # None \/ r.pc = "idle")

LEMMA EndIsOnward ==
  ASSUME TypeOK, NEW p \in Procs, NEW o, End(p, o)
  PROVE  /\ \A q \in Procs \ {p} : proc'[q] = proc[q]
         /\ Onward(proc'[p], proc[p]) /\ (~Writing(p) => proc'[p].pc = "idle")
         /\ proc'[p].outcome = o
<1>1. proc[p] \in Process
  BY DEF TypeOK
<1> DEFINE r == [proc[p] EXCEPT !.pc = IF Writing(p) THEN "retire" ELSE "idle",
                                !.outcome = o, !.target = None, !.todo = {}]
<1>2. /\ r.pc = (IF Writing(p) THEN "retire" ELSE "idle") /\ r.outcome = o
      /\ r.batch = proc[p].batch
  BY <1>1 DEF Process
<1>3. proc' = [proc EXCEPT ![p] = r]
  BY DEF End
<1> HIDE DEF r
<1> QED BY <1>2, <1>3 DEF TypeOK, Onward, Writing

\* What a step of an open call does to its record.
LEMMA ProceedIsOnward ==
  ASSUME StoreInv, NEW p \in Procs, Proceed(p), ~Retire(p)
  PROVE  /\ \A q \in Procs \ {p} : proc'[q] = proc[q]
         /\ Onward(proc'[p], proc[p])
         /\ proc[p].policy /\ Loading(p) /\ proc'[p].outcome = "error" => proc[p].outcome = "error"
<1>1. TypeOK /\ proc[p] \in Process /\ Sound(p)
  BY KnownOf
<1>2. ASSUME NEW o, End(p, o), o # "error" \/ Writing(p) \/ ~proc[p].policy
      PROVE  /\ \A q \in Procs \ {p} : proc'[q] = proc[q]
             /\ Onward(proc'[p], proc[p])
             /\ proc[p].policy /\ Loading(p) /\ proc'[p].outcome = "error" => proc[p].outcome = "error"
  BY <1>1, <1>2, EndIsOnward DEF Loading
<1>3. ASSUME NEW r, proc' = [proc EXCEPT ![p] = r], r.batch = proc[p].batch, r.outcome = proc[p].outcome
      PROVE  /\ \A q \in Procs \ {p} : proc'[q] = proc[q]
             /\ Onward(proc'[p], proc[p])
             /\ proc[p].policy /\ Loading(p) /\ proc'[p].outcome = "error" => proc[p].outcome = "error"
  BY <1>1, <1>3 DEF TypeOK, Onward
<1>4. ASSUME NEW l, Goto(p, l)
      PROVE  \E r : proc' = [proc EXCEPT ![p] = r] /\ r.batch = proc[p].batch /\ r.outcome = proc[p].outcome
  <2> DEFINE r == [proc[p] EXCEPT !.pc = l]
  <2>1. r.batch = proc[p].batch /\ r.outcome = proc[p].outcome
    BY <1>1 DEF Process
  <2>2. proc' = [proc EXCEPT ![p] = r]
    BY <1>4 DEF Goto
  <2> HIDE DEF r
  <2> QED BY <2>1, <2>2
<1>5. CASE EnterCommit(p)
  <2> DEFINE r == [proc[p] EXCEPT !.pc = IF proc[p].batch \in snapshots THEN "existing" ELSE "history",
                                  !.todo = snapshots]
  <2>1. r.batch = proc[p].batch /\ r.outcome = proc[p].outcome
    BY <1>1 DEF Process
  <2>2. proc' = [proc EXCEPT ![p] = r]
    BY <1>5 DEF EnterCommit
  <2> HIDE DEF r
  <2> QED BY <1>3, <2>1, <2>2
<1>6. CASE LoadExisting(p)
  <2>1. Writing(p)
    BY <1>1, <1>6 DEF LoadExisting, Sound, InCommit, At
  <2> QED BY <1>2, <1>6, <2>1 DEF LoadExisting
<1>7. CASE CheckHistory(p)
  <2>1. PICK h : proc' = [proc EXCEPT ![p] = IF Whole(h) THEN [proc[p] EXCEPT !.todo = proc[p].todo \ {h}]
                                             ELSE [@ EXCEPT !.pc = "rebuild", !.target = h]]
    BY <1>7, Zenon DEF CheckHistory
  <2> DEFINE r == IF Whole(h) THEN [proc[p] EXCEPT !.todo = proc[p].todo \ {h}]
                  ELSE [proc[p] EXCEPT !.pc = "rebuild", !.target = h]
  <2>2. r.batch = proc[p].batch /\ r.outcome = proc[p].outcome
    BY <1>1 DEF Process
  <2>3. proc' = [proc EXCEPT ![p] = r]
    BY <2>1
  <2> HIDE DEF r
  <2> QED BY <1>3, <2>2, <2>3
<1>8. CASE JudgeClaims(p)
  <2>1. CASE ClaimConflict(proc[p].batch)
    BY <1>2, <1>8, <2>1 DEF JudgeClaims
  <2>2. CASE ~ClaimConflict(proc[p].batch)
    <3> DEFINE r == [proc[p] EXCEPT !.pc = "rebuild", !.target = proc[p].batch,
                                    !.preexisted = index[proc[p].batch] # "absent"]
    <3>1. r.batch = proc[p].batch /\ r.outcome = proc[p].outcome
      BY <1>1 DEF Process
    <3>2. proc' = [proc EXCEPT ![p] = r]
      BY <1>8, <2>2 DEF JudgeClaims
    <3> HIDE DEF r
    <3> QED BY <1>3, <3>1, <3>2
  <2> QED BY <2>1, <2>2
<1>9. CASE PublishSnapshot(p) \/ LockIndex(p) \/ MoveAside(p)
  BY <1>3, <1>4, <1>9 DEF PublishSnapshot, LockIndex, MoveAside
<1>10. CASE Verify(p)
  BY <1>2, <1>10 DEF Verify
<1>11. CASE Load(p)
  BY <1>2, <1>3, <1>4, <1>11 DEF Load
<1>12. CASE IndexFound(p) \/ PublishIndex(p)
  <2>0. Resume(p)
    BY <1>12 DEF IndexFound, PublishIndex
  <2>1. CASE ~Writing(p)
    BY <1>2, <2>0, <2>1 DEF Resume
  <2>2. CASE Writing(p)
    <3> DEFINE r == [proc[p] EXCEPT !.pc = IF proc[p].target = proc[p].batch THEN "indexed" ELSE "history",
                                    !.todo = proc[p].todo \ {proc[p].target}, !.target = None]
    <3>1. r.batch = proc[p].batch /\ r.outcome = proc[p].outcome
      BY <1>1 DEF Process
    <3>2. proc' = [proc EXCEPT ![p] = r]
      BY <2>0, <2>2 DEF Resume
    <3> HIDE DEF r
    <3> QED BY <1>3, <3>1, <3>2
  <2> QED BY <2>1, <2>2
<1>13. CASE NeedsPolicy(p)
  BY <1>2, <1>13 DEF NeedsPolicy, GiveUpIndex, Recoverable
<1> QED
  BY <1>5, <1>6, <1>7, <1>8, <1>9, <1>10, <1>11, <1>12, <1>13 DEF Proceed

\* A step of a call that no fault cuts short leaves no error behind in a load with a policy.
LEMMA LoadsStep ==
  ASSUME StoreInv, LoadsAreOpen, [Next]_vars
  PROVE  /\ LoadsAreOpen'
         /\ \A p \in Procs : proc[p].policy /\ Loading(p) /\ proc'[p].outcome = "error" => faults' > faults
<1>0. TypeOK /\ faults \in Nat /\ faults + 1 > faults
  BY KnownOf DEF LoadsAreOpen, StoreInv
<1>1. ASSUME NEW p \in Procs, Proceed(p), ~Retire(p)
      PROVE  /\ LoadsAreOpen'
             /\ \A q \in Procs : proc[q].policy /\ Loading(q) => proc'[q].outcome # "error"
  <2>1. faults' = faults
    BY <1>1 DEF Proceed, EnterCommit, LoadExisting, CheckHistory, JudgeClaims, PublishSnapshot,
       Verify,
           Load, LockIndex, IndexFound, NeedsPolicy, MoveAside, PublishIndex, Counts
  <2>2. proc[p].pc # "idle"
    BY <1>1 DEF Proceed, At, EnterCommit, LoadExisting, CheckHistory, JudgeClaims,
       PublishSnapshot,
           Publishable, Verify, Load, LockIndex, IndexFound, NeedsPolicy, MoveAside, PublishIndex,
           IndexWanted
  <2>3. \A q \in Procs \ {p} : (Loading(q))' = Loading(q) /\ proc'[q] = proc[q]
    BY <1>1, ProceedIsOnward DEF Loading, Writing
  <2>4. Loading(p)' => Loading(p) /\ proc'[p].outcome = proc[p].outcome
    BY <1>1, <2>2, ProceedIsOnward DEF Loading, Writing, Onward
  <2>5. proc[p].policy /\ Loading(p) => proc'[p].outcome # "error"
    BY <1>1, ProceedIsOnward DEF LoadsAreOpen
  <2> QED BY <2>1, <2>3, <2>4, <2>5 DEF LoadsAreOpen
<1>2. ASSUME NEW p \in Procs, NEW r, proc' = [proc EXCEPT ![p] = r], faults' = faults,
             r.batch # None \/ r.pc = "idle" \/ r.outcome = "none",
             Loading(p) => r.outcome # "error"
      PROVE  /\ LoadsAreOpen'
             /\ \A q \in Procs : proc[q].policy /\ Loading(q) => proc'[q].outcome # "error"
  <2>1. proc'[p] = r /\ \A q \in Procs \ {p} : proc'[q] = proc[q]
    BY <1>0, <1>2 DEF TypeOK
  <2>2. \A q \in Procs \ {p} : (Loading(q))' = Loading(q)
    BY <2>1 DEF Loading, Writing
  <2>3. Loading(p)' => proc'[p].outcome = "none"
    BY <1>2, <2>1 DEF Loading, Writing
  <2> QED BY <1>2, <2>1, <2>2, <2>3 DEF LoadsAreOpen
<1>3. ASSUME NEW p \in Procs, Retire(p)
      PROVE  /\ LoadsAreOpen'
             /\ \A q \in Procs : proc[q].policy /\ Loading(q) => proc'[q].outcome # "error"
  <2> DEFINE r == [Idle EXCEPT !.outcome = proc[p].outcome]
  <2>1. r.pc = "idle" /\ r.outcome = proc[p].outcome
    BY DEF Idle
  <2>2. proc' = [proc EXCEPT ![p] = r] /\ faults' = faults
    BY <1>3 DEF Retire, Counts
  <2> HIDE DEF r
  <2> QED BY <1>2, <2>1, <2>2 DEF LoadsAreOpen
<1>4. ASSUME NEW p \in Procs, Crash(p)
      PROVE  /\ LoadsAreOpen'
             /\ \A q \in Procs : proc[q].policy /\ Loading(q) => proc'[q].outcome # "error"
  <2>1. Idle.pc = "idle" /\ Idle.outcome = "none" /\ proc' = [proc EXCEPT ![p] = Idle] /\ faults' = faults
    BY <1>4 DEF Crash, Idle
  <2> QED BY <1>2, <2>1
<1>5. ASSUME NEW p \in Procs, NEW b \in Batches, StartWrite(p, b)
      PROVE  /\ LoadsAreOpen'
             /\ \A q \in Procs : proc[q].policy /\ Loading(q) => proc'[q].outcome # "error"
  <2> DEFINE r == [Idle EXCEPT !.pc = "staged", !.batch = b, !.stage = NewStage, !.policy = TRUE]
  <2>1. r.outcome = "none"
    BY DEF Idle
  <2>2. proc' = [proc EXCEPT ![p] = r] /\ faults' = faults
    BY <1>5 DEF StartWrite
  <2> HIDE DEF r
  <2> QED BY <1>2, <2>1, <2>2
<1>6. ASSUME NEW p \in Procs, NEW b \in Batches, NEW policy \in BOOLEAN, StartLoad(p, b, policy)
      PROVE  /\ LoadsAreOpen'
             /\ \A q \in Procs : proc[q].policy /\ Loading(q) => proc'[q].outcome # "error"
  <2> DEFINE r == [Idle EXCEPT !.pc = "load", !.target = b, !.policy = policy]
  <2>1. r.outcome = "none"
    BY DEF Idle
  <2>2. proc' = [proc EXCEPT ![p] = r] /\ faults' = faults
    BY <1>6 DEF StartLoad
  <2> HIDE DEF r
  <2> QED BY <1>2, <2>1, <2>2
<1>7. ASSUME NEW p \in Procs, PublishSnapshotFails(p) \/ PublishIndexFails(p)
      PROVE  LoadsAreOpen' /\ faults' > faults
  <2>1. faults' = faults + 1 /\ End(p, "error")
    BY <1>7 DEF PublishSnapshotFails, PublishIndexFails, GiveUpIndex
  <2>2. /\ \A q \in Procs \ {p} : proc'[q] = proc[q]
        /\ Onward(proc'[p], proc[p]) /\ (~Writing(p) => proc'[p].pc = "idle")
    BY <1>0, <2>1, EndIsOnward
  <2>3. ~Loading(p)'
    BY <2>2 DEF Loading, Writing, Onward
  <2>4. \A q \in Procs \ {p} : (Loading(q))' = Loading(q)
    BY <2>2 DEF Loading, Writing
  <2> QED BY <1>0, <2>1, <2>2, <2>3, <2>4 DEF LoadsAreOpen
<1>8. CASE UNCHANGED <<proc, faults>>
  BY <1>8 DEF LoadsAreOpen, Loading, Writing
<1>9. CASE \E b \in Batches : Damage(b)
  BY <1>8, <1>9 DEF Damage
<1>10. CASE Quiet \/ UNCHANGED vars
  BY <1>8, <1>10 DEF Quiet, vars
<1> QED BY <1>1, <1>3, <1>4, <1>5, <1>6, <1>7, <1>9, <1>10 DEF Next

\* A load with a policy gives the snapshot back whatever happened to its index, to its
\* predecessors and beside it, for any number of processes, deaths and lost files: its
\* only error is a fault of its own last step (_publish_or_validate_claim_index).
THEOREM RecoverableLoadHolds == Spec => RecoverableLoad
<1>1. Init => LoadsAreOpen
  BY DEF Init, LoadsAreOpen, Loading, Writing, Idle
<1>2. StoreInv /\ LoadsAreOpen /\ [Next]_vars => LoadsAreOpen'
  BY LoadsStep
<1>3. StoreInv /\ LoadsAreOpen /\ [Next]_vars
        => [\A p \in Procs :
              proc[p].policy /\ ~Writing(p) /\ proc[p].pc # "idle" /\ proc'[p].outcome = "error" =>
                faults' > faults]_vars
  BY LoadsStep DEF Loading
<1> QED BY StoreInvariant, <1>1, <1>2, <1>3, PTL DEF Spec, RecoverableLoad

-----------------------------------------------------------------------------
(***************************************************************************)
(* NormalizedBatch.  Both entry points fold the rows of a call; the        *)
(* invariant relates what is folded to a replay of the rows one by one.    *)
(***************************************************************************)

\* The rows of a call, what validation knows of the streams, and what a step returns.
Ids == {r.id : r \in Rows}
InputRow == [n : Nat, stream : Streams, kind : {"snapshot", "delta", "trade"}, seq : Nat, prev : Nat,
             id : Ids, ok : BOOLEAN]
States(want) == [last : [Streams \X Domains -> Int], books : [Streams -> [seq : Int, log : Seq(Nat)]],
                 known : SUBSET Streams, reached : SUBSET want]
Results(want) == [ok : BOOLEAN, st : States(want)]

LEMMA DomainType == ASSUME NEW r \in InputRow PROVE Domain(r) \in Domains /\ r.stream \in Streams
  BY DEF Domain, Domains, InputRow

LEMMA FreshType == ASSUME NEW want PROVE Nothing \in Results(want)
  BY DEF Nothing, Fresh, Results, States

LEMMA RecordType ==
  ASSUME NEW want, NEW st \in States(want), NEW r \in InputRow
  PROVE  ValidateStreamRecord(want, st, r) \in Results(want)
  <1> DEFINE key == <<r.stream, Domain(r)>>
             opened == [st EXCEPT !.known = @ \union {r.stream}]
             moved == [opened EXCEPT !.books[r.stream] = Applied(@, r)]
             last == [moved EXCEPT !.last[key] = r.seq, !.reached = @ \union ExpectedAt(want, r)]
             traded == [st EXCEPT !.last[key] = r.seq]
  <1>1. key \in Streams \X Domains /\ r.stream \in Streams /\ r.seq \in Int
    BY DomainType DEF InputRow
  <1>2. opened \in States(want) /\ traded \in States(want)
    BY <1>1 DEF States
  <1>3. Applied(opened.books[r.stream], r) \in [seq : Int, log : Seq(Nat)]
    <2>1. opened.books[r.stream].log \in Seq(Nat)
      BY <1>1, <1>2 DEF States
    <2>2. r.n \in Nat
      BY DEF InputRow
    <2> QED BY <1>1, <2>1, <2>2 DEF Applied
  <1>4. moved \in States(want)
    <2> HIDE DEF opened
    <2> QED BY <1>1, <1>2, <1>3 DEF States
  <1>5. ExpectedAt(want, r) \subseteq want
    BY DEF ExpectedAt
  <1>6. last \in States(want)
    <2> HIDE DEF moved
    <2> QED BY <1>1, <1>4, <1>5 DEF States
  <1> QED BY <1>2, <1>4, <1>6 DEF ValidateStreamRecord, Results

LEMMA SerialType ==
  ASSUME NEW want, NEW acc \in Results(want), NEW r \in InputRow
  PROVE  SerialStep(want, acc, r) \in Results(want)
  <1>1. acc.st \in States(want)
    BY DEF Results
  <1> QED BY <1>1, RecordType DEF SerialStep

Start(bad) == [st |-> Fresh, bad |-> bad]
Survived(want) == [st : States(want), bad : SUBSET Streams]

LEMMA SurviveType ==
  ASSUME NEW want, NEW bad \in SUBSET Streams
  PROVE  /\ [st |-> Fresh, bad |-> bad] \in Survived(want)
         /\ \A ids : \A acc \in Survived(want), r \in InputRow : Survive(want, ids, acc, r) \in Survived(want)
  <1>1. Fresh \in States(want)
    BY FreshType DEF Nothing, Results
  <1>2. ASSUME NEW acc \in Survived(want), NEW r \in InputRow, NEW ids
        PROVE  Survive(want, ids, acc, r) \in Survived(want)
    <2>1. acc.st \in States(want) /\ acc.bad \in SUBSET Streams
      BY DEF Survived
    <2>2. ValidateStreamRecord(want, acc.st, r) \in Results(want)
      BY <2>1, RecordType
    <2>3. r.stream \in Streams
      BY DomainType
    <2> QED BY <2>1, <2>2, <2>3 DEF Survive, Survived, Results
  <1> QED BY <1>1, <1>2 DEF Survived

\* A replay of the kept rows, step by step.
LEMMA ReplaySteps ==
  ASSUME NEW want, NEW kept, NEW rows, rows \in Seq(InputRow)
  PROVE  /\ Replay(want, rows, kept) \in Results(want)
         /\ Replay(want, <<>>, kept) = Nothing
         /\ \A e \in InputRow : Replay(want, Append(rows, e), kept)
                                = KeptStep(want, kept, Replay(want, rows, kept), e)
  <1> DEFINE V == Results(want)
             E == InputRow
             Op(v, e) == KeptStep(want, kept, v, e)
             step == [p \in V \X E |-> Op(p[1], p[2])]
             base == Nothing
  <1>1. base \in V /\ \A v \in V, e \in E : Op(v, e) \in V
    BY FreshType, SerialType DEF KeptStep
  <1>2. ASSUME NEW q \in Seq(E) PROVE Replay(want, q, kept) = Run(V, step, base, q)
    <2> DEFINE N == Len(q)
               Body(h) == [s \in SUBSET (1..N) |-> IF s = {} THEN base ELSE Op(h[s \ {Max(s)}], q[Max(s)])]
               fold == CHOOSE h : h = Body(h)
    <2>1. N \in Nat /\ DOMAIN q = 1..N /\ \A i \in 1..N : q[i] \in E
      OBVIOUS
    <2>2. Replay(want, q, kept) = fold[1..N]
      BY <2>1 DEF Replay, FoldLeft, MapThenFoldSet
    <2> HIDE DEF N, V, E, Op, base
    <2>3. step \in [V \X E -> V] /\ \A v \in V, e \in E : step[<<v, e>>] = Op(v, e)
      BY <1>1
    <2> HIDE DEF step
    <2>4. PICK g \in [SUBSET (1..N) -> V] : FoldsTo(g, base, step, q)
      <3>1. Stepper(V, E, step, base, q)
        BY <1>1, <2>3 DEF Stepper
      <3> QED BY <3>1, FoldExists DEF N
    <2>5. g = Body(g)
      <3>1. \A s \in SUBSET (1..N) : g[s] = Body(g)[s]
        BY <2>1, <2>3, <2>4, Prefix DEF FoldsTo, N
      <3> QED BY <2>4, <3>1
    <2>6. fold = Body(fold)
      BY <2>5
    <2> HIDE DEF fold
    <2>7. fold[{}] = base
      BY <2>1, <2>6, Prefix
    <2>8. ASSUME NEW i \in 1..N, fold[1..(i - 1)] \in V PROVE fold[1..i] = step[<<fold[1..(i - 1)], q[i]>>]
      <3>1. 1..i \in SUBSET (1..N) /\ 1..i # {} /\ Max(1..i) = i /\ (1..i) \ {i} = 1..(i - 1)
        BY <2>1, Prefix
      <3>2. fold[1..i] = Op(fold[1..(i - 1)], q[i])
        BY <2>6, <3>1
      <3> QED BY <2>1, <2>3, <2>8, <3>2
    <2>9. Unfolds(fold, V, step, base, q)
      BY <2>7, <2>8 DEF Unfolds, N
    <2>10. Stepper(V, E, step, base, q)
      BY <1>1, <2>3 DEF Stepper
    <2>11. fold[1..N] = Run(V, step, base, q)
      BY <2>9, <2>10, FoldIsRun DEF N
    <2> QED BY <2>2, <2>11
  <1>3. rows \in Seq(E) /\ <<>> \in Seq(E) /\ \A e \in E : Append(rows, e) \in Seq(E)
    OBVIOUS
  <1>4. step \in [V \X E -> V] /\ \A v \in V, e \in E : step[<<v, e>>] = Op(v, e)
    BY <1>1
  <1>5. /\ Replay(want, rows, kept) = Run(V, step, base, rows)
        /\ Replay(want, <<>>, kept) = Run(V, step, base, <<>>)
    BY <1>2, <1>3
  <1>6. ASSUME NEW e \in E PROVE Replay(want, Append(rows, e), kept) = Run(V, step, base, Append(rows, e))
    BY <1>2, <1>3
  <1> HIDE DEF V, E, Op, step, base
  <1>7. Stepper(V, E, step, base, rows)
    BY <1>1, <1>3, <1>4 DEF Stepper
  <1>8. Run(V, step, base, rows) \in V /\ Run(V, step, base, <<>>) = base
    BY <1>1, <1>7, RunType, RunEmpty
  <1>9. ASSUME NEW e \in E PROVE Run(V, step, base, Append(rows, e)) = Op(Run(V, step, base, rows), e)
    <2>1. Run(V, step, base, Append(rows, e)) = step[<<Run(V, step, base, rows), e>>]
      BY <1>7, RunAppend
    <2> QED BY <1>4, <1>8, <2>1
  <1> QED BY <1>5, <1>6, <1>8, <1>9 DEF V, E, Op, base

\* A replay of all rows, step by step.
LEMMA SerialSteps ==
  ASSUME NEW want, NEW res \in Results(want), NEW rows, rows \in Seq(InputRow)
  PROVE  /\ ApplySerial(want, res, rows) \in Results(want)
         /\ ApplySerial(want, res, <<>>) = res
         /\ \A e \in InputRow : ApplySerial(want, res, Append(rows, e))
                                = SerialStep(want, ApplySerial(want, res, rows), e)
  <1> DEFINE V == Results(want)
             E == InputRow
             Op(v, e) == SerialStep(want, v, e)
             step == [p \in V \X E |-> Op(p[1], p[2])]
             base == res
  <1>1. base \in V /\ \A v \in V, e \in E : Op(v, e) \in V
    BY SerialType
  <1>2. ASSUME NEW q \in Seq(E) PROVE ApplySerial(want, res, q) = Run(V, step, base, q)
    <2> DEFINE N == Len(q)
               Body(h) == [s \in SUBSET (1..N) |-> IF s = {} THEN base ELSE Op(h[s \ {Max(s)}], q[Max(s)])]
               fold == CHOOSE h : h = Body(h)
    <2>1. N \in Nat /\ DOMAIN q = 1..N /\ \A i \in 1..N : q[i] \in E
      OBVIOUS
    <2>2. ApplySerial(want, res, q) = fold[1..N]
      BY <2>1 DEF ApplySerial, FoldLeft, MapThenFoldSet
    <2> HIDE DEF N, V, E, Op, base
    <2>3. step \in [V \X E -> V] /\ \A v \in V, e \in E : step[<<v, e>>] = Op(v, e)
      BY <1>1
    <2> HIDE DEF step
    <2>4. PICK g \in [SUBSET (1..N) -> V] : FoldsTo(g, base, step, q)
      <3>1. Stepper(V, E, step, base, q)
        BY <1>1, <2>3 DEF Stepper
      <3> QED BY <3>1, FoldExists DEF N
    <2>5. g = Body(g)
      <3>1. \A s \in SUBSET (1..N) : g[s] = Body(g)[s]
        BY <2>1, <2>3, <2>4, Prefix DEF FoldsTo, N
      <3> QED BY <2>4, <3>1
    <2>6. fold = Body(fold)
      BY <2>5
    <2> HIDE DEF fold
    <2>7. fold[{}] = base
      BY <2>1, <2>6, Prefix
    <2>8. ASSUME NEW i \in 1..N, fold[1..(i - 1)] \in V PROVE fold[1..i] = step[<<fold[1..(i - 1)], q[i]>>]
      <3>1. 1..i \in SUBSET (1..N) /\ 1..i # {} /\ Max(1..i) = i /\ (1..i) \ {i} = 1..(i - 1)
        BY <2>1, Prefix
      <3>2. fold[1..i] = Op(fold[1..(i - 1)], q[i])
        BY <2>6, <3>1
      <3> QED BY <2>1, <2>3, <2>8, <3>2
    <2>9. Unfolds(fold, V, step, base, q)
      BY <2>7, <2>8 DEF Unfolds, N
    <2>10. Stepper(V, E, step, base, q)
      BY <1>1, <2>3 DEF Stepper
    <2>11. fold[1..N] = Run(V, step, base, q)
      BY <2>9, <2>10, FoldIsRun DEF N
    <2> QED BY <2>2, <2>11
  <1>3. rows \in Seq(E) /\ <<>> \in Seq(E) /\ \A e \in E : Append(rows, e) \in Seq(E)
    OBVIOUS
  <1>4. step \in [V \X E -> V] /\ \A v \in V, e \in E : step[<<v, e>>] = Op(v, e)
    BY <1>1
  <1>5. /\ ApplySerial(want, res, rows) = Run(V, step, base, rows)
        /\ ApplySerial(want, res, <<>>) = Run(V, step, base, <<>>)
    BY <1>2, <1>3
  <1>6. ASSUME NEW e \in E PROVE ApplySerial(want, res, Append(rows, e)) = Run(V, step, base, Append(rows, e))
    BY <1>2, <1>3
  <1> HIDE DEF V, E, Op, step, base
  <1>7. Stepper(V, E, step, base, rows)
    BY <1>1, <1>3, <1>4 DEF Stepper
  <1>8. Run(V, step, base, rows) \in V /\ Run(V, step, base, <<>>) = base
    BY <1>1, <1>7, RunType, RunEmpty
  <1>9. ASSUME NEW e \in E PROVE Run(V, step, base, Append(rows, e)) = Op(Run(V, step, base, rows), e)
    <2>1. Run(V, step, base, Append(rows, e)) = step[<<Run(V, step, base, rows), e>>]
      BY <1>7, RunAppend
    <2> QED BY <1>4, <1>8, <2>1
  <1> QED BY <1>5, <1>6, <1>8, <1>9 DEF V, E, Op, base

\* The streams that fail without some records, step by step.
LEMMA SurviveSteps ==
  ASSUME NEW want, NEW ids, NEW bad, NEW rows, bad \in SUBSET Streams, rows \in Seq(InputRow)
  PROVE  /\ Survivors(want, rows, bad, ids) \in Survived(want)
         /\ Survivors(want, <<>>, bad, ids) = Start(bad)
         /\ \A e \in InputRow : Survivors(want, Append(rows, e), bad, ids)
                                = Survive(want, ids, Survivors(want, rows, bad, ids), e)
  <1> DEFINE V == Survived(want)
             E == InputRow
             Op(v, e) == Survive(want, ids, v, e)
             step == [p \in V \X E |-> Op(p[1], p[2])]
             base == Start(bad)
  <1>1. base \in V /\ \A v \in V, e \in E : Op(v, e) \in V
    BY SurviveType DEF Start
  <1>2. ASSUME NEW q \in Seq(E) PROVE Survivors(want, q, bad, ids) = Run(V, step, base, q)
    <2> DEFINE N == Len(q)
               Body(h) == [s \in SUBSET (1..N) |-> IF s = {} THEN base ELSE Op(h[s \ {Max(s)}], q[Max(s)])]
               fold == CHOOSE h : h = Body(h)
    <2>1. N \in Nat /\ DOMAIN q = 1..N /\ \A i \in 1..N : q[i] \in E
      OBVIOUS
    <2>2. Survivors(want, q, bad, ids) = fold[1..N]
      BY <2>1 DEF Survivors, Start, FoldLeft, MapThenFoldSet
    <2> HIDE DEF N, V, E, Op, base
    <2>3. step \in [V \X E -> V] /\ \A v \in V, e \in E : step[<<v, e>>] = Op(v, e)
      BY <1>1
    <2> HIDE DEF step
    <2>4. PICK g \in [SUBSET (1..N) -> V] : FoldsTo(g, base, step, q)
      <3>1. Stepper(V, E, step, base, q)
        BY <1>1, <2>3 DEF Stepper
      <3> QED BY <3>1, FoldExists DEF N
    <2>5. g = Body(g)
      <3>1. \A s \in SUBSET (1..N) : g[s] = Body(g)[s]
        BY <2>1, <2>3, <2>4, Prefix DEF FoldsTo, N
      <3> QED BY <2>4, <3>1
    <2>6. fold = Body(fold)
      BY <2>5
    <2> HIDE DEF fold
    <2>7. fold[{}] = base
      BY <2>1, <2>6, Prefix
    <2>8. ASSUME NEW i \in 1..N, fold[1..(i - 1)] \in V PROVE fold[1..i] = step[<<fold[1..(i - 1)], q[i]>>]
      <3>1. 1..i \in SUBSET (1..N) /\ 1..i # {} /\ Max(1..i) = i /\ (1..i) \ {i} = 1..(i - 1)
        BY <2>1, Prefix
      <3>2. fold[1..i] = Op(fold[1..(i - 1)], q[i])
        BY <2>6, <3>1
      <3> QED BY <2>1, <2>3, <2>8, <3>2
    <2>9. Unfolds(fold, V, step, base, q)
      BY <2>7, <2>8 DEF Unfolds, N
    <2>10. Stepper(V, E, step, base, q)
      BY <1>1, <2>3 DEF Stepper
    <2>11. fold[1..N] = Run(V, step, base, q)
      BY <2>9, <2>10, FoldIsRun DEF N
    <2> QED BY <2>2, <2>11
  <1>3. rows \in Seq(E) /\ <<>> \in Seq(E) /\ \A e \in E : Append(rows, e) \in Seq(E)
    OBVIOUS
  <1>4. step \in [V \X E -> V] /\ \A v \in V, e \in E : step[<<v, e>>] = Op(v, e)
    BY <1>1
  <1>5. /\ Survivors(want, rows, bad, ids) = Run(V, step, base, rows)
        /\ Survivors(want, <<>>, bad, ids) = Run(V, step, base, <<>>)
    BY <1>2, <1>3
  <1>6. ASSUME NEW e \in E
        PROVE  Survivors(want, Append(rows, e), bad, ids) = Run(V, step, base, Append(rows, e))
    BY <1>2, <1>3
  <1> HIDE DEF V, E, Op, step, base
  <1>7. Stepper(V, E, step, base, rows)
    BY <1>1, <1>3, <1>4 DEF Stepper
  <1>8. Run(V, step, base, rows) \in V /\ Run(V, step, base, <<>>) = base
    BY <1>1, <1>7, RunType, RunEmpty
  <1>9. ASSUME NEW e \in E PROVE Run(V, step, base, Append(rows, e)) = Op(Run(V, step, base, rows), e)
    <2>1. Run(V, step, base, Append(rows, e)) = step[<<Run(V, step, base, rows), e>>]
      BY <1>7, RunAppend
    <2> QED BY <1>4, <1>8, <2>1
  <1> QED BY <1>5, <1>6, <1>8, <1>9 DEF V, E, Op, base

(***************************************************************************)
(* What a record does depends on its own stream and changes nothing else.  *)
(***************************************************************************)
SameStream(want, a, b, s) ==
  /\ a.books[s] = b.books[s]
  /\ \A d \in Domains : a.last[<<s, d>>] = b.last[<<s, d>>]
  /\ s \in a.known <=> s \in b.known
  /\ \A e \in want : e.stream = s => (e \in a.reached <=> e \in b.reached)

LEMMA OtherStreams ==
  ASSUME NEW want, NEW st \in States(want), NEW r \in InputRow, NEW s \in Streams, s # r.stream
  PROVE  SameStream(want, st, ValidateStreamRecord(want, st, r).st, s)
  <1> DEFINE key == <<r.stream, Domain(r)>>
             opened == [st EXCEPT !.known = @ \union {r.stream}]
             moved == [opened EXCEPT !.books[r.stream] = Applied(@, r)]
             done == [moved EXCEPT !.last[key] = r.seq, !.reached = @ \union ExpectedAt(want, r)]
             traded == [st EXCEPT !.last[key] = r.seq]
  <1>1. key \in Streams \X Domains /\ r.stream \in Streams /\ \A d \in Domains : <<s, d>> # key
    BY DomainType
  <1>2. SameStream(want, st, st, s)
    BY DEF SameStream
  <1>3. SameStream(want, st, opened, s)
    BY DEF SameStream, States
  <1>4. SameStream(want, st, moved, s)
    BY <1>1 DEF SameStream, States
  <1>5. SameStream(want, st, done, s)
    BY <1>1 DEF SameStream, States, ExpectedAt
  <1>6. SameStream(want, st, traded, s)
    BY <1>1 DEF SameStream, States
  <1> QED BY <1>2, <1>3, <1>4, <1>5, <1>6 DEF ValidateStreamRecord

LEMMA OwnStream ==
  ASSUME NEW want, NEW a \in States(want), NEW b \in States(want), NEW r \in InputRow,
         SameStream(want, a, b, r.stream)
  PROVE  /\ ValidateStreamRecord(want, a, r).ok = ValidateStreamRecord(want, b, r).ok
         /\ SameStream(want, ValidateStreamRecord(want, a, r).st,
                             ValidateStreamRecord(want, b, r).st, r.stream)
  <1> DEFINE s == r.stream
             key == <<r.stream, Domain(r)>>
             opened(st) == [st EXCEPT !.known = @ \union {r.stream}]
             moved(st) == [opened(st) EXCEPT !.books[r.stream] = Applied(@, r)]
             done(st) == [moved(st) EXCEPT !.last[key] = r.seq, !.reached = @ \union ExpectedAt(want, r)]
             traded(st) == [st EXCEPT !.last[key] = r.seq]
  <1>1. key \in Streams \X Domains /\ s \in Streams /\ Domain(r) \in Domains
    BY DomainType
  <1>2. a.books[s] = b.books[s] /\ a.last[key] = b.last[key]
    BY <1>1 DEF SameStream
  <1>3. (Sequenced(a, r) <=> Sequenced(b, r)) /\ (Applies(a.books[s], r) <=> Applies(b.books[s], r))
    BY <1>2 DEF Sequenced
  <1>4. SameStream(want, opened(a), opened(b), s)
    BY DEF SameStream, States
  <1>5. SameStream(want, moved(a), moved(b), s)
    BY <1>1, <1>2 DEF SameStream, States
  <1>6. SameStream(want, done(a), done(b), s)
    BY <1>1, <1>2 DEF SameStream, States, ExpectedAt
  <1>7. SameStream(want, traded(a), traded(b), s)
    BY <1>1, <1>2 DEF SameStream, States
  <1> HIDE DEF opened, moved, done, traded
  <1> QED BY <1>3, <1>4, <1>5, <1>6, <1>7 DEF ValidateStreamRecord, opened, moved, done, traded

LEMMA SameTransitive ==
  ASSUME NEW want, NEW a, NEW b, NEW c, NEW s, SameStream(want, a, b, s), SameStream(want, b, c, s)
  PROVE  SameStream(want, a, c, s)
  BY DEF SameStream

LEMMA SameSymmetric ==
  ASSUME NEW want, NEW a, NEW b, NEW s, SameStream(want, a, b, s) PROVE SameStream(want, b, a, s)
  BY DEF SameStream

\* Which of the rows a call keeps when the streams of bad and the ids are excluded.
Excluding(rows, kept, bad, ids) ==
  \A i \in DOMAIN rows : rows[i].n \in kept <=> rows[i].id \notin ids /\ rows[i].stream \notin bad

\* The rows of the streams outside bad replay to what the survivors left, for every set
\* of streams that holds those which failed.
SurvivorsReplayed(want, rows, bad, ids) ==
  LET after == Survivors(want, rows, bad, ids) IN
  \A more, kept :
    after.bad \subseteq more /\ Excluding(rows, kept, more, ids) =>
      /\ Replay(want, rows, kept).ok
      /\ \A s \in Streams \ more : SameStream(want, Replay(want, rows, kept).st, after.st, s)

LEMMA SurvivorsReplay ==
  ASSUME NEW want, NEW bad, NEW ids, bad \in SUBSET Streams
  PROVE  \A rows \in Seq(InputRow) : SurvivorsReplayed(want, rows, bad, ids)
  <1> DEFINE S == {rows \in Seq(InputRow) : SurvivorsReplayed(want, rows, bad, ids)}
  <1>0. <<>> \in Seq(InputRow)
    OBVIOUS
  <1>1. <<>> \in S
    <2>1. Survivors(want, <<>>, bad, ids) = Start(bad)
      BY <1>0, SurviveSteps
    <2>2. \A kept : Replay(want, <<>>, kept) = Nothing
      BY <1>0, ReplaySteps
    <2> QED BY <1>0, <2>1, <2>2 DEF SurvivorsReplayed, SameStream, Nothing, Start
  <1>2. ASSUME NEW p \in Seq(InputRow), NEW r \in InputRow, p \in S PROVE Append(p, r) \in S
    <2> DEFINE q == Append(p, r)
               acc == Survivors(want, p, bad, ids)
               after == Survivors(want, q, bad, ids)
    <2>1. acc \in Survived(want) /\ after = Survive(want, ids, acc, r)
      BY SurviveSteps
    <2>2. q \in Seq(InputRow)
      OBVIOUS
    <2>3. ASSUME NEW more, NEW kept, after.bad \subseteq more, Excluding(q, kept, more, ids)
          PROVE  /\ Replay(want, q, kept).ok
                 /\ \A s \in Streams \ more : SameStream(want, Replay(want, q, kept).st, after.st, s)
      <3> DEFINE res == ValidateStreamRecord(want, acc.st, r)
                 old == Replay(want, p, kept)
                 new == Replay(want, q, kept)
                 one == ValidateStreamRecord(want, old.st, r)
      <3>1. acc.st \in States(want) /\ res \in Results(want) /\ r.stream \in Streams
        BY <2>1, RecordType, DomainType DEF Survived
      <3>2. old \in Results(want) /\ new = KeptStep(want, kept, old, r)
        BY ReplaySteps
      <3>3. old.st \in States(want) /\ one \in Results(want)
        BY <3>2, RecordType DEF Results
      <3>4. Excluding(p, kept, more, ids) /\ (r.n \in kept <=> r.id \notin ids /\ r.stream \notin more)
        <4>1. DOMAIN q = 1..(Len(p) + 1) /\ DOMAIN p = 1..Len(p) /\ Len(p) \in Nat /\ q[Len(p) + 1] = r
              /\ \A i \in DOMAIN p : q[i] = p[i]
          OBVIOUS
        <4> HIDE DEF q
        <4> QED BY <2>3, <4>1 DEF Excluding
      <3> HIDE DEF q, acc, after, res, old, new, one
      <3>5. acc.bad \subseteq after.bad
        BY <2>1 DEF Survive
      <3>6. old.ok /\ \A s \in Streams \ more : SameStream(want, old.st, acc.st, s)
        BY <1>2, <2>3, <3>4, <3>5 DEF SurvivorsReplayed, acc, old
      <3>7. \A s \in Streams \ {r.stream} : SameStream(want, acc.st, after.st, s)
        <4>1. \A s \in Streams \ {r.stream} : SameStream(want, acc.st, res.st, s)
          BY <3>1, OtherStreams DEF res
        <4>2. \A s : SameStream(want, acc.st, acc.st, s)
          BY DEF SameStream
        <4>3. after.st = res.st \/ after.st = acc.st
          BY <2>1 DEF Survive, res
        <4> QED BY <4>1, <4>2, <4>3
      <3>8. CASE r.n \notin kept
        <4>1. new = old
          BY <3>2, <3>8 DEF KeptStep
        <4>2. \A s \in Streams \ more : SameStream(want, acc.st, after.st, s)
          <5>1. CASE r.stream \in more
            BY <3>7, <5>1
          <5>2. CASE r.id \in ids
            <6>1. after.st = acc.st
              BY <2>1, <5>2 DEF Survive
            <6> QED BY <6>1 DEF SameStream
          <5> QED BY <3>4, <3>8, <5>1, <5>2
        <4>3. \A s \in Streams \ more : SameStream(want, old.st, after.st, s)
          BY <3>6, <4>2, SameTransitive
        <4> QED BY <3>6, <4>1, <4>3 DEF new
      <3>9. CASE r.n \in kept
        <4>1. r.id \notin ids /\ r.stream \notin more /\ r.stream \notin acc.bad
          BY <2>3, <3>4, <3>5, <3>9
        <4>2. after.st = res.st /\ after.bad = IF res.ok THEN acc.bad ELSE acc.bad \union {r.stream}
          BY <2>1, <4>1 DEF Survive, res
        <4>3. res.ok
          BY <2>3, <4>1, <4>2
        <4>4. new = one
          BY <3>2, <3>6, <3>9 DEF KeptStep, SerialStep, one
        <4>5. one.ok = res.ok /\ SameStream(want, one.st, res.st, r.stream)
          BY <3>1, <3>3, <3>6, <4>1, OwnStream DEF one, res
        <4>6. ASSUME NEW s \in Streams \ more, s # r.stream PROVE SameStream(want, one.st, after.st, s)
          <5>1. SameStream(want, old.st, one.st, s)
            BY <3>3, <4>6, OtherStreams DEF one
          <5>2. SameStream(want, one.st, old.st, s)
            BY <5>1, SameSymmetric
          <5>3. SameStream(want, old.st, acc.st, s) /\ SameStream(want, acc.st, after.st, s)
            BY <3>6, <3>7, <4>6
          <5> QED BY <5>2, <5>3, SameTransitive
        <4> QED BY <4>2, <4>3, <4>4, <4>5, <4>6 DEF new
      <3> QED BY <3>8, <3>9 DEF new
    <2> QED BY <2>2, <2>3 DEF SurvivorsReplayed
  <1>3. Seq(InputRow) \subseteq S
    <2> HIDE DEF S
    <2> QED BY <1>1, <1>2, SeqSetInduction
  <1> QED BY <1>3

\* Rows that pass one after the other leave no stream invalid.
LEMMA CleanSurvives ==
  ASSUME NEW want, NEW rows \in Seq(InputRow), ApplySerial(want, Nothing, rows).ok
  PROVE  Survivors(want, rows, {}, {}) = [st |-> ApplySerial(want, Nothing, rows).st, bad |-> {}]
  <1> DEFINE Serial(p) == ApplySerial(want, Nothing, p)
             S == {p \in Seq(InputRow) : Serial(p).ok => Survivors(want, p, {}, {}) = [st |-> Serial(p).st, bad |-> {}]}
  <1>0. <<>> \in Seq(InputRow) /\ Nothing \in Results(want) /\ {} \in SUBSET Streams
    BY FreshType
  <1>1. <<>> \in S
    <2>1. Survivors(want, <<>>, {}, {}) = Start({})
      BY <1>0, SurviveSteps
    <2>2. Serial(<<>>) = Nothing
      BY <1>0, SerialSteps
    <2> QED BY <1>0, <2>1, <2>2 DEF Nothing, Start
  <1>2. ASSUME NEW p \in Seq(InputRow), NEW r \in InputRow, p \in S PROVE Append(p, r) \in S
    <2>1. Survivors(want, Append(p, r), {}, {}) = Survive(want, {}, Survivors(want, p, {}, {}), r)
      BY SurviveSteps
    <2>2. Serial(Append(p, r)) = SerialStep(want, Serial(p), r)
      BY <1>0, SerialSteps
    <2>3. Append(p, r) \in Seq(InputRow)
      OBVIOUS
    <2> HIDE DEF Serial
    <2>4. ASSUME Serial(Append(p, r)).ok
          PROVE  Survivors(want, Append(p, r), {}, {}) = [st |-> Serial(Append(p, r)).st, bad |-> {}]
      <3>1. Serial(p).ok /\ Serial(Append(p, r)) = ValidateStreamRecord(want, Serial(p).st, r)
        BY <2>2, <2>4 DEF SerialStep
      <3>2. Survivors(want, p, {}, {}) = [st |-> Serial(p).st, bad |-> {}]
        BY <1>2, <3>1
      <3> QED BY <2>1, <2>4, <3>1, <3>2 DEF Survive
    <2> QED BY <2>3, <2>4
  <1>3. Seq(InputRow) \subseteq S
    <2> HIDE DEF S
    <2> QED BY <1>1, <1>2, SeqSetInduction
  <1> QED BY <1>3

\* Keeping every row is replaying all of them.
LEMMA KeepAll ==
  ASSUME NEW want, NEW rows \in Seq(InputRow), NEW kept, \A i \in DOMAIN rows : rows[i].n \in kept
  PROVE  Replay(want, rows, kept) = ApplySerial(want, Nothing, rows)
  <1> DEFINE S == {p \in Seq(InputRow) : (\A i \in DOMAIN p : p[i].n \in kept)
                                           => Replay(want, p, kept) = ApplySerial(want, Nothing, p)}
  <1>0. <<>> \in Seq(InputRow) /\ Nothing \in Results(want)
    BY FreshType
  <1>1. <<>> \in S
    BY <1>0, ReplaySteps, SerialSteps
  <1>2. ASSUME NEW p \in Seq(InputRow), NEW r \in InputRow, p \in S PROVE Append(p, r) \in S
    <2> DEFINE q == Append(p, r)
    <2>1. Replay(want, q, kept) = KeptStep(want, kept, Replay(want, p, kept), r)
      BY ReplaySteps
    <2>2. ApplySerial(want, Nothing, q) = SerialStep(want, ApplySerial(want, Nothing, p), r)
      BY <1>0, SerialSteps
    <2>3. q \in Seq(InputRow) /\ DOMAIN q = 1..(Len(p) + 1) /\ DOMAIN p = 1..Len(p) /\ Len(p) \in Nat
          /\ q[Len(p) + 1] = r /\ \A i \in DOMAIN p : q[i] = p[i]
      OBVIOUS
    <2> HIDE DEF q
    <2>4. ASSUME \A i \in DOMAIN q : q[i].n \in kept
          PROVE  Replay(want, q, kept) = ApplySerial(want, Nothing, q)
      <3>1. r.n \in kept /\ \A i \in DOMAIN p : p[i].n \in kept
        BY <2>3, <2>4
      <3>2. Replay(want, p, kept) = ApplySerial(want, Nothing, p)
        BY <1>2, <3>1
      <3> QED BY <2>1, <2>2, <3>1, <3>2 DEF KeptStep
    <2>5. q \in S
      BY <2>3, <2>4
    <2> QED BY <2>5 DEF q
  <1>3. Seq(InputRow) \subseteq S
    <2> HIDE DEF S
    <2> QED BY <1>1, <1>2, SeqSetInduction
  <1> QED BY <1>3

(***************************************************************************)
(* The Mapping entry point.                                                *)
(***************************************************************************)
BatchTypeOK ==
  /\ mode \in {"mapping", "arrow"}
  /\ spool \in Seq(InputRow) /\ \A i \in DOMAIN spool : spool[i].n = i
  /\ state \in States(expected)
  /\ invalid \in SUBSET Streams

\* The running state is that of the survivors so far, and while every stream is one of
\* them everything is staged.
MappingTracks ==
  mode = "mapping" =>
    /\ Survivors(expected, spool, {}, {}) = [st |-> state, bad |-> invalid]
    /\ invalid = {} => parts = 1..Len(spool)

\* What the end of the input excludes and keeps.
BadAtEnd == invalid \union {e.stream : e \in Unreached(state)}
IdsAtEnd == RepeatedIds(Range(spool))
KeptAtEnd == {i \in DOMAIN spool : spool[i].id \notin IdsAtEnd /\ spool[i].stream \notin FinalInvalid}

LEMMA FinishKeeps ==
  ASSUME BatchTypeOK, MappingTracks, mode = "mapping"
  PROVE  /\ DuplicateEventIds(BadAtEnd) = IdsAtEnd
         /\ RebuildAfterExclusions(FinalInvalid, IdsAtEnd) = KeptAtEnd
         /\ BadAtEnd = {} /\ IdsAtEnd = {} => parts = KeptAtEnd
         /\ FinalInvalid = IF IdsAtEnd = {} THEN BadAtEnd ELSE Revalidate(BadAtEnd, IdsAtEnd)
  <1>0. DOMAIN spool = 1..Len(spool) /\ Range(spool) = {spool[i] : i \in DOMAIN spool}
    BY DEF BatchTypeOK, Range
  <1>1. DuplicateEventIds(BadAtEnd) = IdsAtEnd
    <2>1. CASE BadAtEnd # {}
      BY <2>1 DEF DuplicateEventIds, IdsAtEnd
    <2>2. CASE BadAtEnd = {}
      <3>1. parts = 1..Len(spool)
        BY <2>2 DEF BadAtEnd, MappingTracks
      <3>2. StagedRows = Range(spool)
        BY <1>0, <3>1 DEF StagedRows, BatchTypeOK
      <3> QED BY <2>2, <3>2 DEF DuplicateEventIds, IdsAtEnd
    <2> QED BY <2>1, <2>2
  <1>2. RebuildAfterExclusions(FinalInvalid, IdsAtEnd) = KeptAtEnd
    <2> DEFINE final == FinalInvalid
               ids == IdsAtEnd
    <2> HIDE DEF final, ids
    <2>1. RebuildAfterExclusions(final, ids) = {i \in DOMAIN spool : spool[i].id \notin ids /\ spool[i].stream \notin final}
      BY <1>0 DEF RebuildAfterExclusions, BatchTypeOK
    <2> QED BY <2>1 DEF KeptAtEnd, final, ids
  <1>3. FinalInvalid = IF IdsAtEnd = {} THEN BadAtEnd ELSE Revalidate(BadAtEnd, IdsAtEnd)
    BY <1>1 DEF FinalInvalid, BadAtEnd
  <1>4. ASSUME BadAtEnd = {}, IdsAtEnd = {} PROVE parts = KeptAtEnd
    <2>1. FinalInvalid = {}
      BY <1>3, <1>4
    <2>2. parts = 1..Len(spool)
      BY <1>4 DEF BadAtEnd, MappingTracks
    <2> QED BY <1>0, <1>4, <2>1, <2>2 DEF KeptAtEnd
  <1> QED BY <1>1, <1>2, <1>3, <1>4

\* What is kept replays, its ids are its own and its streams met their checkpoints.
LEMMA KeptReplays ==
  ASSUME BatchTypeOK, MappingTracks, mode = "mapping", Unobserved(state) = {}
  PROVE  /\ Replay(expected, spool, KeptAtEnd).ok
         /\ \A a \in KeptAtEnd, r \in Range(spool) : r.id = spool[a].id /\ r.id # Unique => r.n = a
         /\ \A e \in expected :
              (\E a \in KeptAtEnd : spool[a].stream = e.stream) => e \in Replay(expected, spool, KeptAtEnd).st.reached
  <1> DEFINE bad == IF IdsAtEnd = {} THEN {} ELSE BadAtEnd
             after == Survivors(expected, spool, bad, IdsAtEnd)
             replay == Replay(expected, spool, KeptAtEnd)
  <1>1. DOMAIN spool = 1..Len(spool) /\ spool \in Seq(InputRow)
        /\ \A i \in DOMAIN spool : spool[i].n = i /\ spool[i] \in InputRow /\ spool[i].stream \in Streams
    <2>1. spool \in Seq(InputRow) /\ \A i \in DOMAIN spool : spool[i].n = i
      BY DEF BatchTypeOK
    <2>2. DOMAIN spool = 1..Len(spool) /\ \A i \in DOMAIN spool : spool[i] \in InputRow
      BY <2>1
    <2> QED BY <2>1, <2>2, DomainType
  <1>2. BadAtEnd \in SUBSET Streams /\ bad \in SUBSET Streams
    BY DEF BatchTypeOK, BadAtEnd, Unreached, States
  <1>3. FinalInvalid = IF IdsAtEnd = {} THEN BadAtEnd ELSE Revalidate(BadAtEnd, IdsAtEnd)
    BY FinishKeeps
  <1>4. after.bad \subseteq FinalInvalid
    <2>1. CASE IdsAtEnd = {}
      <3>1. after.bad = invalid
        BY <2>1 DEF MappingTracks
      <3> QED BY <1>3, <2>1, <3>1 DEF BadAtEnd
    <2>2. CASE IdsAtEnd # {}
      BY <1>3, <2>2 DEF Revalidate
    <2> QED BY <2>1, <2>2
  <1>5. ASSUME NEW e \in expected, e.stream \notin FinalInvalid PROVE e \in after.st.reached
    <2>1. CASE IdsAtEnd = {}
      <3>1. after.st = state
        BY <2>1 DEF MappingTracks
      <3>2. e.stream \notin {x.stream : x \in Unreached(state)}
        BY <1>3, <1>5, <2>1 DEF BadAtEnd
      <3> QED BY <3>1, <3>2 DEF Unreached, Unobserved
    <2>2. CASE IdsAtEnd # {}
      BY <1>3, <1>5, <2>2 DEF Revalidate
    <2> QED BY <2>1, <2>2
  <1>6. Excluding(spool, KeptAtEnd, FinalInvalid, IdsAtEnd)
    BY <1>1 DEF Excluding, KeptAtEnd
  <1>7. SurvivorsReplayed(expected, spool, bad, IdsAtEnd)
    BY <1>1, <1>2, SurvivorsReplay
  <1> HIDE DEF bad, after
  <1>8. replay.ok /\ \A s \in Streams \ FinalInvalid : SameStream(expected, replay.st, after.st, s)
    BY <1>4, <1>6, <1>7 DEF SurvivorsReplayed, after
  <1>9. ASSUME NEW a \in KeptAtEnd, NEW r \in Range(spool), r.id = spool[a].id, r.id # Unique PROVE r.n = a
    <2>1. a \in DOMAIN spool /\ spool[a].id \notin IdsAtEnd /\ spool[a] \in Range(spool) /\ spool[a].n = a
      BY <1>1 DEF KeptAtEnd, Range
    <2>2. r.n # a => r.id \in RepeatedIds(Range(spool))
      BY <1>9, <2>1 DEF RepeatedIds
    <2> QED BY <1>9, <2>1, <2>2 DEF IdsAtEnd
  <1>10. ASSUME NEW e \in expected, NEW a \in KeptAtEnd, spool[a].stream = e.stream
         PROVE  e \in replay.st.reached
    <2>1. e.stream \in Streams /\ e.stream \notin FinalInvalid
      BY <1>1, <1>10 DEF KeptAtEnd
    <2>2. e \in after.st.reached
      BY <1>5, <2>1
    <2> QED BY <1>8, <2>1, <2>2 DEF SameStream
  <1> QED BY <1>8, <1>9, <1>10

LEMMA NumberedType ==
  ASSUME NEW r \in Rows, NEW n \in Nat
  PROVE  Numbered(r, n) \in InputRow /\ Numbered(r, n).n = n /\ Numbered(r, n).stream = r.stream
         /\ Numbered(r, n).kind = r.kind
  BY BatchAssumption DEF Numbered, InputRow, Streams, Ids

LEMMA ReadRecordTracks ==
  ASSUME BatchTypeOK, MappingTracks, ReadRecord PROVE BatchTypeOK' /\ MappingTracks'
  <1> USE DEF ReadRecord
  <1>1. PICK r \in Rows :
          LET row == Numbered(r, Len(spool) + 1)
              res == ValidateStreamRecord(expected, state, row)
          IN /\ spool' = Append(spool, row)
             /\ IF row.stream \in invalid
                THEN UNCHANGED <<state, invalid, parts>>
                ELSE /\ state' = res.st
                     /\ invalid' = IF res.ok THEN invalid ELSE invalid \union {row.stream}
                     /\ parts' = IF res.ok THEN parts \union {row.n} ELSE parts
    OBVIOUS
  <1> DEFINE row == Numbered(r, Len(spool) + 1)
             res == ValidateStreamRecord(expected, state, row)
  <1>2. spool \in Seq(InputRow) /\ Len(spool) \in Nat /\ DOMAIN spool = 1..Len(spool)
        /\ (\A i \in DOMAIN spool : spool[i].n = i) /\ state \in States(expected) /\ invalid \in SUBSET Streams
    BY DEF BatchTypeOK
  <1>3. row \in InputRow /\ row.n = Len(spool) + 1 /\ row.stream \in Streams
    BY <1>2, NumberedType, DomainType
  <1>4. res \in Results(expected)
    BY <1>2, <1>3, RecordType
  <1>5. /\ spool' = Append(spool, row)
        /\ IF row.stream \in invalid
           THEN UNCHANGED <<state, invalid, parts>>
           ELSE /\ state' = res.st
                /\ invalid' = IF res.ok THEN invalid ELSE invalid \union {row.stream}
                /\ parts' = IF res.ok THEN parts \union {row.n} ELSE parts
    BY <1>1
  <1>6. expected' = expected /\ mode' = mode /\ mode = "mapping"
    OBVIOUS
  <1> HIDE DEF row, res
  <1>7. spool' \in Seq(InputRow) /\ Len(spool') = Len(spool) + 1 /\ \A i \in DOMAIN spool' : spool'[i].n = i
    <2>1. DOMAIN Append(spool, row) = 1..(Len(spool) + 1) /\ Append(spool, row)[Len(spool) + 1] = row
          /\ \A i \in 1..Len(spool) : Append(spool, row)[i] = spool[i]
      BY <1>2, <1>3
    <2>2. Append(spool, row) \in Seq(InputRow) /\ Len(Append(spool, row)) = Len(spool) + 1
      BY <1>2, <1>3
    <2> QED BY <1>2, <1>3, <1>5, <2>1, <2>2
  <1>8. state' \in States(expected) /\ invalid' \in SUBSET Streams
    BY <1>2, <1>3, <1>4, <1>5 DEF Results
  <1>9. BatchTypeOK'
    BY <1>6, <1>7, <1>8 DEF BatchTypeOK
  <1>10. Survivors(expected, spool', {}, {}) = Survive(expected, {}, Survivors(expected, spool, {}, {}), row)
    <2>1. {} \in SUBSET Streams
      OBVIOUS
    <2> QED BY <1>2, <1>3, <1>5, <2>1, SurviveSteps
  <1>11. Survive(expected, {}, [st |-> state, bad |-> invalid], row) = [st |-> state', bad |-> invalid']
    BY <1>5 DEF Survive, res
  <1>12. invalid' = {} => parts' = 1..Len(spool')
    <2>1. invalid' = {} => invalid = {} /\ parts' = parts \union {row.n}
      BY <1>5
    <2>2. 1..(Len(spool) + 1) = (1..Len(spool)) \union {Len(spool) + 1}
      BY <1>2
    <2> QED BY <1>3, <1>6, <1>7, <2>1, <2>2 DEF MappingTracks
  <1> QED BY <1>6, <1>9, <1>10, <1>11, <1>12 DEF MappingTracks

LEMMA FinishMappingResult ==
  ASSUME BatchTypeOK, MappingTracks, FinishMapping, result'.status # "failed"
  PROVE  /\ Unobserved(state) = {}
         /\ result'.accepted = KeptAtEnd /\ result'.quarantined = (1..Len(spool)) \ KeptAtEnd
  <1> DEFINE ids == DuplicateEventIds(BadAtEnd)
             kept == IF BadAtEnd = {} /\ ids = {} THEN parts ELSE RebuildAfterExclusions(FinalInvalid, ids)
  <1>1. result' = IF Unobserved(state) # {} THEN Failed
                  ELSE [status      |-> IF kept = {} THEN "empty" ELSE "accepted",
                        accepted    |-> kept,
                        quarantined |-> (1..Len(spool)) \ kept,
                        checkpoints |-> IF kept = {} THEN {} ELSE Checkpoints(state, FinalInvalid)]
    BY DEF FinishMapping, BadAtEnd
  <1>2. kept = KeptAtEnd
    BY FinishKeeps DEF FinishMapping
  <1> HIDE DEF kept
  <1>3. Failed.status = "failed"
    BY DEF Failed, Reading
  <1> QED BY <1>1, <1>2, <1>3

LEMMA FinishMappingReplays ==
  ASSUME BatchTypeOK, MappingTracks, FinishMapping PROVE PublishedReplays'
  <1> SUFFICES ASSUME result'.status = "accepted"
               PROVE  LET replay == Replay(expected, spool, result'.accepted) IN
                      /\ replay.ok
                      /\ \A a \in result'.accepted, r \in Range(spool) : r.id = spool[a].id /\ r.id # Unique => r.n = a
                      /\ \A e \in expected :
                           (\E a \in result'.accepted : spool[a].stream = e.stream) => e \in replay.st.reached
    BY DEF PublishedReplays, FinishMapping
  <1>1. Unobserved(state) = {} /\ result'.accepted = KeptAtEnd
    BY FinishMappingResult
  <1> QED BY <1>1, KeptReplays DEF FinishMapping

LEMMA FinishMappingIsExact ==
  ASSUME BatchTypeOK, MappingTracks, FinishMapping PROVE QuarantineIsExact'
  <1>0. spool' = spool /\ expected' = expected
    BY DEF FinishMapping
  <1> SUFFICES ASSUME result'.status # "failed"
               PROVE  /\ \A q \in result'.quarantined : spool[q].id \notin IdsAtEnd =>
                           \A a \in result'.accepted : spool[a].stream # spool[q].stream
                      /\ ApplySerial(expected, Nothing, spool).ok /\ IdsAtEnd = {} /\ expected = {} =>
                           result'.quarantined = {}
    BY <1>0 DEF QuarantineIsExact, IdsAtEnd
  <1>1. result'.accepted = KeptAtEnd /\ result'.quarantined = (1..Len(spool)) \ KeptAtEnd
    BY FinishMappingResult
  <1>2. DOMAIN spool = 1..Len(spool) /\ spool \in Seq(InputRow)
    BY DEF BatchTypeOK
  <1>3. ASSUME NEW q \in result'.quarantined, spool[q].id \notin IdsAtEnd, NEW a \in result'.accepted
        PROVE  spool[a].stream # spool[q].stream
    BY <1>1, <1>2, <1>3 DEF KeptAtEnd
  <1>4. ASSUME ApplySerial(expected, Nothing, spool).ok, IdsAtEnd = {}, expected = {}
        PROVE  result'.quarantined = {}
    <2>1. Survivors(expected, spool, {}, {}).bad = {}
      BY <1>2, <1>4, CleanSurvives
    <2>2. invalid = {}
      BY <2>1 DEF MappingTracks, FinishMapping
    <2>3. BadAtEnd = {}
      BY <1>4, <2>2 DEF BadAtEnd, Unreached
    <2>4. parts = KeptAtEnd /\ parts = 1..Len(spool)
      BY <1>4, <2>2, <2>3, FinishKeeps DEF MappingTracks, FinishMapping
    <2> QED BY <1>1, <2>4
  <1> QED BY <1>3, <1>4

(***************************************************************************)
(* The Arrow entry point: rows applied one after the other.                *)
(***************************************************************************)
LEMMA SerialStuck ==
  ASSUME NEW want, NEW res \in Results(want), ~res.ok
  PROVE  \A rows \in Seq(InputRow) : ApplySerial(want, res, rows) = res
  <1> DEFINE S == {p \in Seq(InputRow) : ApplySerial(want, res, p) = res}
  <1>1. <<>> \in S
    <2>1. <<>> \in Seq(InputRow)
      OBVIOUS
    <2> QED BY <2>1, SerialSteps
  <1>2. ASSUME NEW p \in Seq(InputRow), NEW r \in InputRow, p \in S PROVE Append(p, r) \in S
    <2>1. ApplySerial(want, res, Append(p, r)) = SerialStep(want, ApplySerial(want, res, p), r)
      BY SerialSteps
    <2>2. Append(p, r) \in Seq(InputRow)
      OBVIOUS
    <2> QED BY <1>2, <2>1, <2>2 DEF SerialStep
  <1>3. Seq(InputRow) \subseteq S
    <2> HIDE DEF S
    <2> QED BY <1>1, <1>2, SeqSetInduction
  <1> QED BY <1>3

LEMMA SerialConcat ==
  ASSUME NEW want, NEW res \in Results(want), NEW a \in Seq(InputRow)
  PROVE  \A b \in Seq(InputRow) : ApplySerial(want, res, a \o b) = ApplySerial(want, ApplySerial(want, res, a), b)
  <1> DEFINE mid == ApplySerial(want, res, a)
             S == {p \in Seq(InputRow) : ApplySerial(want, res, a \o p) = ApplySerial(want, mid, p)}
  <1>0. mid \in Results(want) /\ <<>> \in Seq(InputRow)
    BY SerialSteps
  <1> HIDE DEF mid
  <1>1. <<>> \in S
    <2>1. a \o <<>> = a
      OBVIOUS
    <2>2. ApplySerial(want, mid, <<>>) = mid
      BY <1>0, SerialSteps
    <2>3. ApplySerial(want, res, a \o <<>>) = mid
      BY <2>1 DEF mid
    <2> QED BY <1>0, <2>2, <2>3
  <1>2. ASSUME NEW p \in Seq(InputRow), NEW r \in InputRow, p \in S PROVE Append(p, r) \in S
    <2>1. ApplySerial(want, mid, Append(p, r)) = SerialStep(want, ApplySerial(want, mid, p), r)
      BY <1>0, SerialSteps
    <2>2. a \o p \in Seq(InputRow) /\ a \o Append(p, r) = Append(a \o p, r) /\ Append(p, r) \in Seq(InputRow)
      OBVIOUS
    <2>3. ApplySerial(want, res, Append(a \o p, r)) = SerialStep(want, ApplySerial(want, res, a \o p), r)
      <3>1. PICK both : both = a \o p
        OBVIOUS
      <3>2. both \in Seq(InputRow)
        BY <2>2, <3>1
      <3>3. ApplySerial(want, res, Append(both, r)) = SerialStep(want, ApplySerial(want, res, both), r)
        BY <3>2, SerialSteps
      <3> QED BY <3>1, <3>3
    <2> QED BY <1>2, <2>1, <2>2, <2>3
  <1>3. Seq(InputRow) \subseteq S
    <2> HIDE DEF S
    <2> QED BY <1>1, <1>2, SeqSetInduction
  <1> QED BY <1>3 DEF mid

\* A state between two records: the last sequence number of a book is the book's, and a
\* stream that met a checkpoint is known.
Tracked(st) ==
  /\ \A s \in Streams : st.last[<<s, "book">>] = st.books[s].seq
  /\ \A e \in st.reached : e.stream \in st.known

LEMMA RecordTracked ==
  ASSUME NEW want, NEW st \in States(want), NEW r \in InputRow, Tracked(st),
         ValidateStreamRecord(want, st, r).ok
  PROVE  Tracked(ValidateStreamRecord(want, st, r).st)
  <1> DEFINE key == <<r.stream, Domain(r)>>
             opened == [st EXCEPT !.known = @ \union {r.stream}]
             moved == [opened EXCEPT !.books[r.stream] = Applied(@, r)]
             done == [moved EXCEPT !.last[key] = r.seq, !.reached = @ \union ExpectedAt(want, r)]
             traded == [st EXCEPT !.last[key] = r.seq]
  <1>1. key \in Streams \X Domains /\ r.stream \in Streams /\ Domain(r) \in Domains
    BY DomainType
  <1>2. CASE Domain(r) = "trade"
    <2>1. \A s \in Streams : traded.last[<<s, "book">>] = st.last[<<s, "book">>]
      BY <1>1, <1>2 DEF States, Domains
    <2>2. Tracked(traded)
      BY <2>1 DEF Tracked, States
    <2> HIDE DEF traded
    <2> QED BY <1>2, <2>2 DEF ValidateStreamRecord, traded
  <1>3. CASE Domain(r) # "trade"
    <2>1. Domain(r) = "book"
      BY <1>1, <1>3 DEF Domains
    <2>2. \A s \in Streams : /\ s # r.stream => /\ done.last[<<s, "book">>] = st.last[<<s, "book">>]
                                               /\ done.books[s] = st.books[s]
                             /\ s = r.stream => /\ done.last[<<s, "book">>] = r.seq
                                               /\ done.books[s].seq = r.seq
      BY <1>1, <2>1 DEF States, Domains, Applied
    <2>3. \A e \in done.reached : e.stream \in done.known
      BY DEF States, ExpectedAt, Tracked
    <2>4. Tracked(done)
      <3> HIDE DEF done
      <3> QED BY <2>2, <2>3 DEF Tracked
    <2> HIDE DEF done
    <2> QED BY <1>3, <2>4 DEF ValidateStreamRecord, done
  <1> QED BY <1>2, <1>3

LEMMA SerialTracked ==
  ASSUME NEW want, NEW res \in Results(want), Tracked(res.st)
  PROVE  \A rows \in Seq(InputRow) : ApplySerial(want, res, rows).ok => Tracked(ApplySerial(want, res, rows).st)
  <1> DEFINE S == {p \in Seq(InputRow) : ApplySerial(want, res, p).ok => Tracked(ApplySerial(want, res, p).st)}
  <1>1. <<>> \in S
    <2>1. <<>> \in Seq(InputRow)
      OBVIOUS
    <2> QED BY <2>1, SerialSteps
  <1>2. ASSUME NEW p \in Seq(InputRow), NEW r \in InputRow, p \in S PROVE Append(p, r) \in S
    <2> DEFINE mid == ApplySerial(want, res, p)
    <2>1. ApplySerial(want, res, Append(p, r)) = SerialStep(want, mid, r) /\ mid \in Results(want)
      BY SerialSteps
    <2>2. Append(p, r) \in Seq(InputRow)
      OBVIOUS
    <2> HIDE DEF mid
    <2>3. ASSUME SerialStep(want, mid, r).ok PROVE Tracked(SerialStep(want, mid, r).st)
      <3>1. mid.ok /\ mid.st \in States(want) /\ SerialStep(want, mid, r) = ValidateStreamRecord(want, mid.st, r)
        BY <2>1, <2>3 DEF SerialStep, Results
      <3>2. Tracked(mid.st)
        BY <1>2, <3>1 DEF mid
      <3> QED BY <2>3, <3>1, <3>2, RecordTracked
    <2> QED BY <2>1, <2>2, <2>3
  <1>3. Seq(InputRow) \subseteq S
    <2> HIDE DEF S
    <2> QED BY <1>1, <1>2, SeqSetInduction
  <1> QED BY <1>3

(***************************************************************************)
(* Several deltas applied at once.                                         *)
(***************************************************************************)
Deltas(b) == \A i \in DOMAIN b : b[i].kind = "delta"
\* Deltas of one stream, each well formed and following the one before.
ChainedDeltas(b) == Homogeneous(b) /\ Deltas(b) /\ Chained(b) /\ ColumnsOk(b)
\* No row but the last can meet a checkpoint.
Plain(want, b) == \A i \in 1..(Len(b) - 1) : ExpectedAt(want, b[i]) = {}
\* Both fail, or both pass with the same state.
Agree(a, v) == (a.ok <=> v.ok) /\ (a.ok => a.st = v.st)
From(st) == [ok |-> TRUE, st |-> st]

\* The rows before the last of an appended sequence.
LEMMA AppendedDeltas ==
  ASSUME NEW p \in Seq(InputRow), NEW r \in InputRow, p # <<>>, ChainedDeltas(Append(p, r))
  PROVE  /\ ChainedDeltas(p) /\ r.kind = "delta" /\ RecordOk(r)
         /\ r.stream = p[1].stream /\ Last(p).stream = p[1].stream /\ r.prev = Last(p).seq
         /\ Last(Append(p, r)) = r /\ Append(p, r)[1] = p[1]
         /\ Last(p) \in InputRow /\ p[1] \in InputRow
  <1> DEFINE q == Append(p, r)
             N == Len(p)
  <1>1. N \in Nat /\ N > 0 /\ DOMAIN p = 1..N /\ DOMAIN q = 1..(N + 1) /\ Len(q) = N + 1 /\ q[N + 1] = r
        /\ (\A i \in 1..N : q[i] = p[i] /\ p[i] \in InputRow)
    OBVIOUS
  <1>2. Last(p) = p[N] /\ Last(q) = q[N + 1]
    BY <1>1 DEF Last
  <1>3. 1 \in 1..N /\ N \in 1..N /\ N + 1 \in 1..(N + 1) /\ N + 1 \in 2..(N + 1) /\ N + 1 - 1 = N
    BY <1>1
  <1>4. \A i \in 1..N : i \in 1..(N + 1)
    BY <1>1
  <1>5. \A i \in 2..N : i \in 1..N /\ i - 1 \in 1..N /\ i \in 2..(N + 1)
    BY <1>1
  <1>6. Homogeneous(q) /\ Deltas(q) /\ Chained(q) /\ ColumnsOk(q)
    BY DEF ChainedDeltas
  <1> HIDE DEF q
  <1>7. Homogeneous(p)
    BY <1>1, <1>3, <1>4, <1>6 DEF Homogeneous
  <1>8. Deltas(p) /\ ColumnsOk(p)
    BY <1>1, <1>4, <1>6 DEF Deltas, ColumnsOk
  <1>9. Chained(p)
    BY <1>1, <1>5, <1>6 DEF Chained, N
  <1>10. r.kind = "delta" /\ RecordOk(r) /\ r.stream = p[1].stream /\ Last(p).stream = p[1].stream
    BY <1>1, <1>2, <1>3, <1>4, <1>6 DEF Homogeneous, Deltas, ColumnsOk
  <1>11. r.prev = Last(p).seq
    BY <1>1, <1>2, <1>3, <1>6 DEF Chained
  <1> QED BY <1>1, <1>2, <1>3, <1>7, <1>8, <1>9, <1>10, <1>11 DEF ChainedDeltas, q

\* A state where the book of a stream has moved on to a row.
Settled(want, st, r, log) ==
  [st EXCEPT !.known = @ \union {r.stream},
             !.books[r.stream] = [seq |-> r.seq, log |-> log],
             !.last[<<r.stream, "book">>] = r.seq,
             !.reached = @ \union ExpectedAt(want, r)]

LEMMA StatesEqual ==
  ASSUME NEW want, NEW a \in States(want), NEW b \in States(want),
         \A k \in Streams \X Domains : a.last[k] = b.last[k],
         \A s \in Streams : a.books[s] = b.books[s],
         a.known = b.known, a.reached = b.reached
  PROVE  a = b
  <1>1. a.last = b.last /\ a.books = b.books
    BY DEF States
  <1> QED BY <1>1 DEF States

MovedTo(want, st, r, log, new) ==
  /\ new \in States(want)
  /\ \A k \in Streams \X Domains : new.last[k] = IF k = <<r.stream, "book">> THEN r.seq ELSE st.last[k]
  /\ \A s \in Streams : new.books[s] = IF s = r.stream THEN [seq |-> r.seq, log |-> log] ELSE st.books[s]
  /\ new.known = st.known \union {r.stream}
  /\ new.reached = st.reached \union ExpectedAt(want, r)

LEMMA SettledMoved ==
  ASSUME NEW want, NEW st \in States(want), NEW r \in InputRow, NEW log \in Seq(Nat)
  PROVE  MovedTo(want, st, r, log, Settled(want, st, r, log))
  <1>1. r.stream \in Streams /\ r.seq \in Int /\ <<r.stream, "book">> \in Streams \X Domains
    BY DomainType DEF InputRow, Domains
  <1>2. ExpectedAt(want, r) \subseteq want
    BY DEF ExpectedAt
  <1> QED BY <1>1, <1>2 DEF Settled, States, MovedTo

LEMMA SettledTwice ==
  ASSUME NEW want, NEW st \in States(want), NEW p \in InputRow, NEW r \in InputRow,
         NEW first \in Seq(Nat), NEW log \in Seq(Nat), ExpectedAt(want, p) = {}, r.stream = p.stream
  PROVE  Settled(want, Settled(want, st, p, first), r, log) = Settled(want, st, r, log)
  <1> DEFINE mid == Settled(want, st, p, first)
             new == Settled(want, mid, r, log)
             direct == Settled(want, st, r, log)
  <1>1. MovedTo(want, st, p, first, mid) /\ MovedTo(want, st, r, log, direct)
    BY SettledMoved
  <1> HIDE DEF mid
  <1>2. mid \in States(want)
    BY <1>1 DEF MovedTo
  <1>3. MovedTo(want, mid, r, log, new)
    BY <1>2, SettledMoved
  <1> HIDE DEF new, direct
  <1>4. new \in States(want) /\ direct \in States(want)
    BY <1>1, <1>3 DEF MovedTo
  <1>5. /\ \A k \in Streams \X Domains : new.last[k] = direct.last[k]
        /\ \A s \in Streams : new.books[s] = direct.books[s]
        /\ new.known = direct.known /\ new.reached = direct.reached
    <2>1. \A k \in Streams \X Domains : new.last[k] = direct.last[k]
      BY <1>1, <1>3 DEF MovedTo
    <2>2. \A s \in Streams : new.books[s] = direct.books[s]
      BY <1>1, <1>3 DEF MovedTo
    <2>3. new.known = direct.known
      BY <1>1, <1>3 DEF MovedTo
    <2>4. new.reached = direct.reached
      BY <1>1, <1>3 DEF MovedTo
    <2> QED BY <2>1, <2>2, <2>3, <2>4
  <1>6. new = direct
    BY <1>4, <1>5, StatesEqual
  <1> QED BY <1>6 DEF mid, new, direct

\* A delta where the book and the last number of its stream agree.
LEMMA DeltaRecord ==
  ASSUME NEW want, NEW st \in States(want), NEW r \in InputRow, r.kind = "delta", RecordOk(r),
         st.last[<<r.stream, "book">>] = st.books[r.stream].seq
  PROVE  Agree(ValidateStreamRecord(want, st, r),
               [ok |-> Applies(st.books[r.stream], r) /\ \A e \in ExpectedAt(want, r) : e.right,
                st |-> Settled(want, st, r, Append(st.books[r.stream].log, r.n))])
  <1> DEFINE s == r.stream
             opened == [st EXCEPT !.known = @ \union {s}]
             old == [opened EXCEPT !.books[s] = Applied(@, r)]
             done == [old EXCEPT !.last[<<s, "book">>] = r.seq, !.reached = @ \union ExpectedAt(want, r)]
             moved == Settled(want, st, r, Append(st.books[r.stream].log, r.n))
  <1>1. s \in Streams /\ Domain(r) = "book" /\ r.seq \in Nat /\ r.prev \in Nat /\ r.prev < r.seq
    BY DomainType DEF Domain, InputRow, RecordOk
  <1>2. <<s, "book">> \in Streams \X Domains
    BY <1>1 DEF Domains
  <1>3. done = moved
    BY <1>1, <1>2 DEF States, Applied, Settled
  <1>4. Applies(st.books[s], r) => Sequenced(st, r)
    BY <1>1 DEF Applies, Sequenced
  <1> HIDE DEF moved, opened, old
  <1> QED BY <1>1, <1>3, <1>4 DEF ValidateStreamRecord, Agree, opened, old, moved

Numbers(b) == [i \in DOMAIN b |-> b[i].n]

LEMMA NumbersAppend ==
  ASSUME NEW p \in Seq(InputRow), NEW r \in InputRow, NEW log \in Seq(Nat)
  PROVE  /\ log \o Numbers(p) \in Seq(Nat)
         /\ log \o Numbers(Append(p, r)) = Append(log \o Numbers(p), r.n)
         /\ log \o Numbers(<<>>) = log
  <1> DEFINE N == Len(p)
  <1>1. N \in Nat /\ DOMAIN p = 1..N /\ \A i \in 1..N : p[i] \in InputRow
    OBVIOUS
  <1>2. \A e \in InputRow : e.n \in Nat
    BY DEF InputRow
  <1>3. Numbers(p) \in Seq(Nat) /\ Len(Numbers(p)) = N /\ \A i \in 1..N : Numbers(p)[i] = p[i].n
    BY <1>1, <1>2 DEF Numbers
  <1>4. Numbers(Append(p, r)) = Append(Numbers(p), r.n)
    <2> DEFINE q == Append(p, r)
    <2>1. DOMAIN q = 1..(N + 1) /\ q[N + 1] = r /\ \A i \in 1..N : q[i] = p[i]
      OBVIOUS
    <2>2. Numbers(q) = [i \in 1..(N + 1) |-> q[i].n]
      BY <2>1 DEF Numbers
    <2> HIDE DEF q
    <2>3. Numbers(q) = [i \in 1..(N + 1) |-> IF i = N + 1 THEN r.n ELSE Numbers(p)[i]]
      BY <1>1, <1>3, <2>1, <2>2
    <2>4. Numbers(q) = Append(Numbers(p), r.n)
      BY <1>2, <1>3, <2>3
    <2> QED BY <2>4 DEF q
  <1>5. Numbers(<<>>) = <<>>
    BY DEF Numbers
  <1>6. r.n \in Nat
    BY <1>2
  <1> HIDE DEF N
  <1>7. log \o Append(Numbers(p), r.n) = Append(log \o Numbers(p), r.n)
    BY <1>3, <1>6
  <1> QED BY <1>3, <1>4, <1>5, <1>7

\* A group applied as a whole, in terms of its last row.
LEMMA WholeIs ==
  ASSUME NEW want, NEW st \in States(want), NEW b, Last(b) \in InputRow, Last(b).stream = b[1].stream
  PROVE  ApplyWhole(want, st, b) =
           [ok |-> /\ Applies(st.books[b[1].stream], b[1]) /\ Last(b).seq > b[1].prev
                   /\ \A e \in ExpectedAt(want, Last(b)) : e.right,
            st |-> Settled(want, st, Last(b), st.books[b[1].stream].log \o Numbers(b))]
  <1> DEFINE s == b[1].stream
             last == Last(b)
             opened == [st EXCEPT !.known = @ \union {s}]
             moved == [opened EXCEPT !.books[s] = [seq |-> last.seq,
                                                   log |-> @.log \o [i \in DOMAIN b |-> b[i].n]],
                                     !.last[<<s, "book">>] = last.seq,
                                     !.reached = @ \union ExpectedAt(want, last)]
  <1>1. s \in Streams /\ <<s, "book">> \in Streams \X Domains
    BY DomainType DEF Domains
  <1>2. moved = Settled(want, st, last, st.books[s].log \o Numbers(b))
    BY <1>1 DEF Settled, States, Numbers
  <1> HIDE DEF moved
  <1> QED BY <1>2 DEF ApplyWhole, moved
\* Their sequence numbers rise.
Rises(b) ==
  \A i \in 1..Len(b) : /\ b[1].prev < b[i].seq /\ b[1].seq <= b[i].seq
                       /\ i < Len(b) => b[i].seq < Last(b).seq

LEMMA Rising == \A b \in Seq(InputRow) : b # <<>> /\ ChainedDeltas(b) => Rises(b)
  <1> DEFINE S == {b \in Seq(InputRow) : b # <<>> /\ ChainedDeltas(b) => Rises(b)}
  <1>1. <<>> \in S
    OBVIOUS
  <1>2. ASSUME NEW p \in Seq(InputRow), NEW r \in InputRow, p \in S PROVE Append(p, r) \in S
    <2> DEFINE q == Append(p, r)
               N == Len(p)
    <2>1. q \in Seq(InputRow) /\ q[N + 1] = r /\ Len(q) = N + 1 /\ N \in Nat
          /\ \A i \in 1..N : q[i] = p[i] /\ p[i] \in InputRow
      OBVIOUS
    <2>2. Last(q) = r /\ Last(p) = p[N]
      BY <2>1 DEF Last
    <2>3. r.seq \in Nat /\ r.prev \in Nat /\ \A i \in 1..N : p[i].seq \in Nat /\ p[i].prev \in Nat
      BY <2>1 DEF InputRow
    <2>4. ASSUME ChainedDeltas(q) PROVE Rises(q)
      <3>1. CASE p = <<>>
        <4>1. N = 0 /\ q[1] = r
          BY <2>1, <3>1
        <4>2. r.prev < r.seq
          <5>1. DOMAIN q = 1..1
            BY <2>1, <4>1
          <5> HIDE DEF q
          <5> QED BY <2>4, <4>1, <5>1 DEF ChainedDeltas, Deltas, ColumnsOk, RecordOk
        <4> HIDE DEF q, N
        <4> QED BY <2>1, <2>3, <4>1, <4>2 DEF Rises
      <3>2. CASE p # <<>>
        <4>1. /\ ChainedDeltas(p) /\ r.kind = "delta" /\ RecordOk(r)
              /\ r.prev = Last(p).seq /\ q[1] = p[1]
          BY <2>4, <3>2, AppendedDeltas
        <4>2. Rises(p) /\ N > 0
          BY <1>2, <3>2, <4>1
        <4>3. r.prev < r.seq
          BY <4>1 DEF RecordOk
        <4> HIDE DEF q
        <4>4. ASSUME NEW i \in 1..N
              PROVE  p[1].prev < p[i].seq /\ p[1].seq <= p[i].seq /\ p[i].seq <= p[N].seq
          <5>1. p[1].prev < p[i].seq /\ p[1].seq <= p[i].seq /\ (i < N => p[i].seq < p[N].seq)
            BY <2>2, <4>2 DEF Rises
          <5> QED BY <2>1, <2>3, <5>1
        <4>5. \A i \in 1..(N + 1) : i = N + 1 \/ i \in 1..N
          BY <2>1
        <4>6. N \in 1..N /\ 1 \in 1..N
          BY <2>1, <4>2
        <4> HIDE DEF N
        <4>7. ASSUME NEW i \in 1..(N + 1)
              PROVE  p[1].prev < q[i].seq /\ p[1].seq <= q[i].seq /\ (i < N + 1 => q[i].seq < r.seq)
          <5>1. CASE i = N + 1
            BY <2>1, <2>2, <2>3, <4>1, <4>3, <4>4, <4>6, <5>1
          <5>2. CASE i \in 1..N
            <6>1. q[i] = p[i] /\ p[i].seq \in Nat /\ p[N].seq \in Nat /\ p[N].seq < r.seq
              BY <2>1, <2>2, <2>3, <4>1, <4>3, <4>6, <5>2
            <6>2. p[1].prev < p[i].seq /\ p[1].seq <= p[i].seq /\ p[i].seq <= p[N].seq
              BY <4>4, <5>2
            <6> QED BY <2>3, <6>1, <6>2
          <5> QED BY <4>5, <5>1, <5>2
        <4> QED BY <2>1, <2>2, <4>1, <4>7 DEF Rises
      <3> QED BY <3>1, <3>2
    <2>5. q \in S
      BY <2>1, <2>4
    <2> QED BY <2>5
  <1>3. Seq(InputRow) \subseteq S
    <2> HIDE DEF S
    <2> QED BY <1>1, <1>2, SeqSetInduction
  <1> QED BY <1>3

\* Chained deltas applied as a whole are those applied one after the other.
LEMMA WholeIsSerial ==
  ASSUME NEW want, NEW st \in States(want), Tracked(st)
  PROVE  \A b \in Seq(InputRow) : b # <<>> /\ ChainedDeltas(b) /\ Plain(want, b) =>
           Agree(ApplySerial(want, From(st), b), ApplyWhole(want, st, b))
  <1> DEFINE S == {b \in Seq(InputRow) : b # <<>> /\ ChainedDeltas(b) /\ Plain(want, b) =>
                     Agree(ApplySerial(want, From(st), b), ApplyWhole(want, st, b))}
  <1>0. From(st) \in Results(want) /\ <<>> \in Seq(InputRow) /\ From(st).ok /\ From(st).st = st
    BY DEF From, Results
  <1>1. <<>> \in S
    BY <1>0
  <1>2. ASSUME NEW p \in Seq(InputRow), NEW r \in InputRow, p \in S PROVE Append(p, r) \in S
    <2> DEFINE q == Append(p, r)
               old == ApplySerial(want, From(st), p)
    <2>1. ApplySerial(want, From(st), q) = SerialStep(want, old, r) /\ old \in Results(want)
      BY <1>0, SerialSteps
    <2>2. q \in Seq(InputRow) /\ q[Len(q)] = r /\ Len(q) = Len(p) + 1 /\ Len(p) \in Nat
          /\ \A i \in 1..Len(p) : q[i] = p[i]
      OBVIOUS
    <2>3. Last(q) = r
      BY <2>2 DEF Last
    <2>4. ASSUME ChainedDeltas(q), Plain(want, q)
          PROVE  Agree(SerialStep(want, old, r), ApplyWhole(want, st, q))
      <3>1. CASE p = <<>>
        <4>1. q = <<r>> /\ q[1] = r /\ old = From(st)
          <5>1. q = <<r>> /\ q[1] = r
            BY <3>1
          <5>2. ApplySerial(want, From(st), <<>>) = From(st)
            BY <1>0, SerialSteps
          <5> QED BY <3>1, <5>1, <5>2
        <4>2. r.kind = "delta" /\ RecordOk(r)
          BY <2>4, <4>1 DEF ChainedDeltas, Deltas, ColumnsOk
        <4>3. st.last[<<r.stream, "book">>] = st.books[r.stream].seq
          BY DomainType DEF Tracked
        <4>4. Agree(ValidateStreamRecord(want, st, r),
                    [ok |-> Applies(st.books[r.stream], r) /\ \A e \in ExpectedAt(want, r) : e.right,
                     st |-> Settled(want, st, r, Append(st.books[r.stream].log, r.n))])
          BY <4>2, <4>3, DeltaRecord
        <4>5. SerialStep(want, old, r) = ValidateStreamRecord(want, st, r)
          BY <1>0, <4>1 DEF SerialStep
        <4>6. st.books[r.stream].log \o Numbers(q) = Append(st.books[r.stream].log, r.n)
          <5>1. st.books[r.stream].log \in Seq(Nat)
            BY DomainType DEF States
          <5>2. st.books[r.stream].log \o Numbers(<<>>) = st.books[r.stream].log
                /\ st.books[r.stream].log \o Numbers(Append(<<>>, r)) = Append(st.books[r.stream].log \o Numbers(<<>>), r.n)
            BY <1>0, <5>1, NumbersAppend
          <5> QED BY <3>1, <5>2
        <4> HIDE DEF q
        <4>7. ApplyWhole(want, st, q) =
                [ok |-> /\ Applies(st.books[r.stream], r) /\ r.seq > r.prev
                        /\ \A e \in ExpectedAt(want, r) : e.right,
                 st |-> Settled(want, st, r, st.books[r.stream].log \o Numbers(q))]
          BY <2>3, <4>1, WholeIs
        <4>8. r.seq > r.prev
          BY <4>2 DEF RecordOk, InputRow
        <4> QED BY <4>4, <4>5, <4>6, <4>7, <4>8 DEF Agree
      <3>2. CASE p # <<>>
        <4> DEFINE s == p[1].stream
                   log == st.books[s].log \o Numbers(p)
        <4>1. /\ ChainedDeltas(p) /\ r.kind = "delta" /\ RecordOk(r)
              /\ r.stream = s /\ Last(p).stream = s /\ r.prev = Last(p).seq
              /\ q[1] = p[1] /\ Last(p) \in InputRow /\ p[1] \in InputRow
          BY <2>4, <3>2, AppendedDeltas
        <4>2. ExpectedAt(want, Last(p)) = {} /\ Plain(want, p)
          <5>1. Len(p) > 0 /\ \A i \in 1..Len(p) : i \in 1..(Len(p) + 1 - 1)
            BY <3>2
          <5> HIDE DEF q
          <5>2. \A i \in 1..Len(p) : ExpectedAt(want, p[i]) = {}
            <6> SUFFICES ASSUME NEW i \in 1..Len(p) PROVE ExpectedAt(want, p[i]) = {}
              OBVIOUS
            <6>1. i \in 1..(Len(q) - 1) /\ q[i] = p[i]
              BY <2>2, <5>1
            <6>2. \A j \in 1..(Len(q) - 1) : ExpectedAt(want, q[j]) = {}
              BY <2>4 DEF Plain
            <6> QED BY <6>1, <6>2
          <5>3. Len(p) \in 1..Len(p) /\ \A i \in 1..(Len(p) - 1) : i \in 1..Len(p)
            BY <5>1
          <5>4. Last(p) = p[Len(p)]
            BY DEF Last
          <5>5. Plain(want, p)
            BY <5>2, <5>3 DEF Plain
          <5> QED BY <5>2, <5>3, <5>4, <5>5
        <4>3. Agree(old, ApplyWhole(want, st, p))
          BY <1>2, <3>2, <4>1, <4>2
        <4>4. s \in Streams /\ st.books[s].log \in Seq(Nat) /\ log \in Seq(Nat)
              /\ st.books[s].log \o Numbers(q) = Append(log, r.n)
          <5>1. s \in Streams /\ st.books[s].log \in Seq(Nat)
            BY <4>1, DomainType DEF States
          <5> QED BY <5>1, NumbersAppend
        <4> HIDE DEF q, old, log
        <4>5. ApplyWhole(want, st, p) =
                [ok |-> /\ Applies(st.books[s], p[1]) /\ Last(p).seq > p[1].prev
                        /\ \A e \in ExpectedAt(want, Last(p)) : e.right,
                 st |-> Settled(want, st, Last(p), log)]
          BY <4>1, WholeIs DEF log
        <4>6. ApplyWhole(want, st, q) =
                [ok |-> /\ Applies(st.books[s], p[1]) /\ r.seq > p[1].prev
                        /\ \A e \in ExpectedAt(want, r) : e.right,
                 st |-> Settled(want, st, r, Append(log, r.n))]
          BY <2>3, <4>1, <4>4, WholeIs
        <4>7. p[1].prev < Last(p).seq /\ Last(p).seq < r.seq
          <5>1. r.prev < r.seq
            BY <4>1 DEF RecordOk
          <5>2. Rises(p)
            BY <3>2, <4>1, Rising
          <5>3. Len(p) \in 1..Len(p)
            BY <3>2
          <5> QED BY <4>1, <5>1, <5>2, <5>3 DEF Rises, Last
        <4>8. CASE ~old.ok
          <5>1. ~Applies(st.books[s], p[1])
            BY <4>2, <4>3, <4>5, <4>7, <4>8 DEF Agree
          <5> QED BY <4>6, <4>8, <5>1 DEF Agree, SerialStep
        <4>9. CASE old.ok
          <5>1. Applies(st.books[s], p[1]) /\ old.st = Settled(want, st, Last(p), log)
            BY <4>3, <4>5, <4>9 DEF Agree
          <5>2. MovedTo(want, st, Last(p), log, old.st)
            BY <4>1, <4>4, <5>1, SettledMoved
          <5>3. old.st \in States(want)
            BY <5>2 DEF MovedTo
          <5>4. old.st.books[s] = [seq |-> Last(p).seq, log |-> log] /\ old.st.last[<<s, "book">>] = Last(p).seq
            <6>1. <<s, "book">> \in Streams \X Domains
              BY <4>4 DEF Domains
            <6> QED BY <4>1, <4>4, <5>2, <6>1 DEF MovedTo
          <5>5. Agree(ValidateStreamRecord(want, old.st, r),
                      [ok |-> Applies(old.st.books[s], r) /\ \A e \in ExpectedAt(want, r) : e.right,
                       st |-> Settled(want, old.st, r, Append(log, r.n))])
            BY <4>1, <5>3, <5>4, DeltaRecord
          <5>6. Settled(want, old.st, r, Append(log, r.n)) = Settled(want, st, r, Append(log, r.n))
            <6>1. Append(log, r.n) \in Seq(Nat)
              <7>1. r.n \in Nat /\ log \in Seq(Nat)
                BY <4>4 DEF InputRow
              <7> QED BY <7>1
            <6>2. Settled(want, Settled(want, st, Last(p), log), r, Append(log, r.n)) = Settled(want, st, r, Append(log, r.n))
              <7>1. PICK last, new : last = Last(p) /\ new = Append(log, r.n)
                OBVIOUS
              <7>2. last \in InputRow /\ r.stream = last.stream /\ log \in Seq(Nat) /\ ExpectedAt(want, last) = {}
                    /\ new \in Seq(Nat)
                BY <4>1, <4>2, <4>4, <6>1, <7>1
              <7>3. Settled(want, Settled(want, st, last, log), r, new) = Settled(want, st, r, new)
                BY <7>2, SettledTwice
              <7> QED BY <7>1, <7>3
            <6> QED BY <5>1, <6>2
          <5>7. Applies(old.st.books[s], r)
            BY <4>1, <5>4 DEF Applies, InputRow
          <5>8. r.seq > p[1].prev
            BY <4>1, <4>7 DEF InputRow
          <5>9. SerialStep(want, old, r) = ValidateStreamRecord(want, old.st, r)
            BY <4>9 DEF SerialStep
          <5> QED BY <4>6, <5>1, <5>5, <5>6, <5>7, <5>8, <5>9 DEF Agree
        <4> QED BY <4>8, <4>9
      <3> QED BY <3>1, <3>2
    <2>5. q \in S
      BY <2>1, <2>2, <2>4
    <2> QED BY <2>5
  <1>3. Seq(InputRow) \subseteq S
    <2> HIDE DEF S
    <2> QED BY <1>1, <1>2, SeqSetInduction
  <1> QED BY <1>3
LEMMA QuietInside ==
  ASSUME NEW want, NEW b \in Seq(InputRow), b # <<>>, ChainedDeltas(b), ~ExpectedInside(want, b)
  PROVE  Plain(want, b)
  <1>1. Rises(b)
    BY Rising
  <1>2. ASSUME NEW i \in 1..(Len(b) - 1), NEW e \in ExpectedAt(want, b[i]) PROVE FALSE
    <2>1. Len(b) \in Nat /\ Len(b) > 0 /\ DOMAIN b = 1..Len(b)
      OBVIOUS
    <2>2. i \in 1..Len(b) /\ i < Len(b)
      BY <2>1
    <2>3. e \in want /\ e.stream = b[i].stream /\ e.seq = b[i].seq
      BY <1>2 DEF ExpectedAt
    <2>4. b[1].seq <= b[i].seq /\ b[i].seq < Last(b).seq
      BY <1>1, <2>2 DEF Rises
    <2>5. b[i].stream = b[1].stream
      BY <2>1, <2>2 DEF ChainedDeltas, Homogeneous
    <2> QED BY <2>3, <2>4, <2>5 DEF ExpectedInside
  <1> QED BY <1>2 DEF Plain

LEMMA DeltaApplied ==
  ASSUME NEW want, NEW st \in States(want), NEW r \in InputRow, ValidateStreamRecord(want, st, r).ok
  PROVE  /\ RecordOk(r)
         /\ r.kind = "delta" => /\ r.prev = st.books[r.stream].seq
                                /\ ValidateStreamRecord(want, st, r).st.books[r.stream].seq = r.seq
  <1>1. RecordOk(r)
    BY DEF ValidateStreamRecord
  <1>2. ASSUME r.kind = "delta"
        PROVE  /\ r.prev = st.books[r.stream].seq
               /\ ValidateStreamRecord(want, st, r).st.books[r.stream].seq = r.seq
    <2> DEFINE opened == [st EXCEPT !.known = @ \union {r.stream}]
               old == [opened EXCEPT !.books[r.stream] = Applied(@, r)]
               done == [old EXCEPT !.last[<<r.stream, "book">>] = r.seq, !.reached = @ \union ExpectedAt(want, r)]
    <2>1. Domain(r) = "book" /\ r.stream \in Streams
      BY <1>2, DomainType DEF Domain
    <2>2. Applies(st.books[r.stream], r) /\ ValidateStreamRecord(want, st, r).st = done
      BY <2>1 DEF ValidateStreamRecord
    <2>3. done.books[r.stream].seq = r.seq
      BY <2>1 DEF States, Applied
    <2> HIDE DEF done
    <2> QED BY <1>2, <2>2, <2>3 DEF Applies
  <1> QED BY <1>1, <1>2

\* Rows that pass one after the other are well formed, and those of them that are deltas
\* of one stream are chained.
LEMMA SerialChains ==
  ASSUME NEW want, NEW res \in Results(want)
  PROVE  \A b \in Seq(InputRow) : ApplySerial(want, res, b).ok =>
           ColumnsOk(b) /\ (Homogeneous(b) /\ Deltas(b) => Chained(b))
  <1> DEFINE Serial(b) == ApplySerial(want, res, b)
             Good(b) == /\ ColumnsOk(b)
                        /\ Homogeneous(b) /\ Deltas(b) =>
                             /\ Chained(b)
                             /\ b # <<>> => Serial(b).st.books[b[1].stream].seq = Last(b).seq
             S == {b \in Seq(InputRow) : Serial(b).ok => Good(b)}
  <1>1. <<>> \in S
    BY DEF ColumnsOk, Chained
  <1>2. ASSUME NEW p \in Seq(InputRow), NEW r \in InputRow, p \in S PROVE Append(p, r) \in S
    <2> DEFINE q == Append(p, r)
               N == Len(p)
               old == Serial(p)
    <2>1. Serial(q) = SerialStep(want, old, r) /\ old \in Results(want)
      BY SerialSteps
    <2>2. q \in Seq(InputRow) /\ Len(q) = N + 1 /\ DOMAIN q = 1..(N + 1) /\ DOMAIN p = 1..N
          /\ N \in Nat /\ q[N + 1] = r /\ \A i \in 1..N : q[i] = p[i]
      OBVIOUS
    <2>3. Last(q) = r /\ (N > 0 => Last(p) = p[N]) /\ (p # <<>> <=> N > 0)
      BY <2>2 DEF Last
    <2> HIDE DEF q, old, Serial
    <2>4. ASSUME Serial(q).ok PROVE Good(q)
      <3>1. old.ok /\ old.st \in States(want) /\ Serial(q) = ValidateStreamRecord(want, old.st, r)
        BY <2>1, <2>4 DEF SerialStep, Results
      <3>2. Good(p)
        BY <1>2, <3>1 DEF old
      <3>3. /\ RecordOk(r)
            /\ r.kind = "delta" => r.prev = old.st.books[r.stream].seq /\ Serial(q).st.books[r.stream].seq = r.seq
        BY <2>4, <3>1, DeltaApplied
      <3> HIDE DEF N
      <3>4. ColumnsOk(q)
        <4>1. \A i \in 1..(N + 1) : i = N + 1 \/ i \in 1..N
          BY <2>2
        <4> QED BY <2>2, <3>2, <3>3, <4>1 DEF ColumnsOk
      <3>5. ASSUME Homogeneous(q), Deltas(q)
            PROVE  Chained(q) /\ Serial(q).st.books[q[1].stream].seq = Last(q).seq
        <4>1. N + 1 \in 1..(N + 1) /\ 1 \in 1..(N + 1) /\ \A i \in 1..N : i \in 1..(N + 1) /\ 1 \in 1..N
          BY <2>2
        <4>2. r.kind = "delta" /\ r.stream = q[1].stream
          BY <2>2, <3>5, <4>1 DEF Homogeneous, Deltas
        <4>3. Serial(q).st.books[q[1].stream].seq = Last(q).seq
          BY <2>3, <3>3, <4>2
        <4>4. Homogeneous(p) /\ Deltas(p)
          BY <2>2, <3>5, <4>1 DEF Homogeneous, Deltas
        <4>5. Chained(p) /\ (N > 0 => r.prev = p[N].seq)
          <5>1. Chained(p) /\ (p # <<>> => old.st.books[p[1].stream].seq = Last(p).seq)
            BY <3>2, <4>4 DEF old
          <5>2. N > 0 => q[1] = p[1]
            BY <2>2, <4>1
          <5> QED BY <2>3, <3>3, <4>2, <5>1, <5>2
        <4>6. Chained(q)
          <5>1. SUFFICES ASSUME NEW i \in 2..(N + 1) PROVE q[i].prev = q[i - 1].seq
            BY <2>2 DEF Chained
          <5>2. CASE i = N + 1
            <6>1. N > 0 /\ i - 1 = N /\ N \in 1..N
              BY <2>2, <5>2
            <6> QED BY <2>2, <4>5, <5>2, <6>1
          <5>3. CASE i # N + 1
            <6>1. i \in 2..N /\ i \in 1..N /\ i - 1 \in 1..N
              BY <2>2, <5>3
            <6> QED BY <2>2, <4>5, <6>1 DEF Chained, N
          <5> QED BY <5>2, <5>3
        <4> QED BY <4>3, <4>6
      <3> QED BY <3>4, <3>5
    <2>5. q \in S
      BY <2>2, <2>4
    <2> QED BY <2>5 DEF q
  <1>3. Seq(InputRow) \subseteq S
    <2> HIDE DEF S
    <2> QED BY <1>1, <1>2, SeqSetInduction
  <1> QED BY <1>3

(***************************************************************************)
(* The provider updates of a batch.                                        *)
(***************************************************************************)
LEMMA WholeType ==
  ASSUME NEW want, NEW st \in States(want), NEW b \in Seq(InputRow), b # <<>>
  PROVE  ApplyWhole(want, st, b) \in Results(want)
  <1> DEFINE s == b[1].stream
             last == Last(b)
             opened == [st EXCEPT !.known = @ \union {s}]
             moved == [opened EXCEPT !.books[s] = [seq |-> last.seq,
                                                   log |-> @.log \o [i \in DOMAIN b |-> b[i].n]],
                                     !.last[<<s, "book">>] = last.seq,
                                     !.reached = @ \union ExpectedAt(want, last)]
  <1>1. b[1] \in InputRow /\ last \in InputRow
    BY DEF Last
  <1>2. s \in Streams /\ <<s, "book">> \in Streams \X Domains /\ last.seq \in Int
    BY <1>1, DomainType DEF Domains, InputRow
  <1>3. opened \in States(want) /\ opened.books[s].log \in Seq(Nat)
    BY <1>2 DEF States
  <1>4. opened.books[s].log \o [i \in DOMAIN b |-> b[i].n] \in Seq(Nat)
    <2>1. [i \in DOMAIN b |-> b[i].n] \in Seq(Nat)
      <3>1. \A i \in DOMAIN b : b[i] \in InputRow
        OBVIOUS
      <3>2. \A i \in DOMAIN b : b[i].n \in Nat
        BY <3>1 DEF InputRow
      <3> QED BY <3>2
    <2> QED BY <1>3, <2>1
  <1>5. ExpectedAt(want, last) \subseteq want
    BY DEF ExpectedAt
  <1>6. moved \in States(want)
    <2> HIDE DEF opened, last
    <2> QED BY <1>2, <1>3, <1>4, <1>5 DEF States
  <1> HIDE DEF moved
  <1>7. ApplyWhole(want, st, b) \in [ok : BOOLEAN, st : {moved}]
    BY DEF ApplyWhole, moved
  <1> QED BY <1>6, <1>7 DEF Results

\* Where the update that ends at a row starts.
StartOf(b, i) == Max({j \in GroupStarts(b) : j <= i})

LEMMA StartIs ==
  ASSUME NEW b \in Seq(InputRow), NEW i \in DOMAIN b
  PROVE  StartOf(b, i) \in 1..i /\ GroupEndingAt(b, i) = SubSeq(b, StartOf(b, i), i)
  <1> DEFINE starts == {j \in GroupStarts(b) : j <= i}
  <1>1. Len(b) \in Nat /\ DOMAIN b = 1..Len(b) /\ 1 \in 1..i /\ i \in Nat /\ i \in 1..Len(b)
    OBVIOUS
  <1>2. starts \in SUBSET (1..i) /\ 1 \in starts
    BY <1>1 DEF GroupStarts
  <1> HIDE DEF starts
  <1>3. Max(starts) \in starts
    BY <1>1, <1>2, MaxIn
  <1>4. StartOf(b, i) = Max(starts)
    BY DEF StartOf, starts
  <1> QED BY <1>2, <1>3, <1>4 DEF GroupEndingAt, StartOf

LEMMA UpdateType ==
  ASSUME NEW want, NEW b \in Seq(InputRow), NEW acc \in Results(want), NEW i \in DOMAIN b
  PROVE  UpdateStep(want, b, acc, i) \in Results(want)
  <1> DEFINE g == GroupEndingAt(b, i)
  <1>1. g \in Seq(InputRow) /\ g # <<>>
    <2>1. PICK j : j = StartOf(b, i)
      OBVIOUS
    <2>2. j \in 1..i /\ g = SubSeq(b, j, i)
      BY <2>1, StartIs
    <2>3. Len(b) \in Nat /\ i \in 1..Len(b)
      OBVIOUS
    <2> HIDE DEF g
    <2> QED BY <2>2, <2>3
  <1>2. acc.st \in States(want)
    BY DEF Results
  <1> HIDE DEF g
  <1>3. ApplyWhole(want, acc.st, g) \in Results(want)
    BY <1>1, <1>2, WholeType
  <1> QED BY <1>3 DEF UpdateStep, g

UpdatesUpTo(want, res, b, rows) == FoldLeft(LAMBDA acc, i : UpdateStep(want, b, acc, i), res, rows)

\* The updates of a batch, row by row.
LEMMA UpdatesSteps ==
  ASSUME NEW want, NEW b, NEW res, NEW rows, b \in Seq(InputRow), res \in Results(want), rows \in Seq(DOMAIN b)
  PROVE  /\ UpdatesUpTo(want, res, b, rows) \in Results(want)
         /\ UpdatesUpTo(want, res, b, <<>>) = res
         /\ \A e \in DOMAIN b : UpdatesUpTo(want, res, b, Append(rows, e))
                                = UpdateStep(want, b, UpdatesUpTo(want, res, b, rows), e)
  <1> DEFINE V == Results(want)
             E == DOMAIN b
             Op(v, e) == UpdateStep(want, b, v, e)
             step == [p \in V \X E |-> Op(p[1], p[2])]
             base == res
  <1>1. base \in V /\ \A v \in V, e \in E : Op(v, e) \in V
    BY UpdateType
  <1>2. ASSUME NEW q \in Seq(E) PROVE UpdatesUpTo(want, res, b, q) = Run(V, step, base, q)
    <2> DEFINE N == Len(q)
               Body(h) == [s \in SUBSET (1..N) |-> IF s = {} THEN base ELSE Op(h[s \ {Max(s)}], q[Max(s)])]
               fold == CHOOSE h : h = Body(h)
    <2>1. N \in Nat /\ DOMAIN q = 1..N /\ \A i \in 1..N : q[i] \in E
      OBVIOUS
    <2>2. UpdatesUpTo(want, res, b, q) = fold[1..N]
      BY <2>1 DEF UpdatesUpTo, FoldLeft, MapThenFoldSet
    <2> HIDE DEF N, V, E, Op, base
    <2>3. step \in [V \X E -> V] /\ \A v \in V, e \in E : step[<<v, e>>] = Op(v, e)
      BY <1>1
    <2> HIDE DEF step
    <2>4. PICK g \in [SUBSET (1..N) -> V] : FoldsTo(g, base, step, q)
      <3>1. Stepper(V, E, step, base, q)
        BY <1>1, <2>3 DEF Stepper
      <3> QED BY <3>1, FoldExists DEF N
    <2>5. g = Body(g)
      <3>1. \A s \in SUBSET (1..N) : g[s] = Body(g)[s]
        BY <2>1, <2>3, <2>4, Prefix DEF FoldsTo, N
      <3> QED BY <2>4, <3>1
    <2>6. fold = Body(fold)
      BY <2>5
    <2> HIDE DEF fold
    <2>7. fold[{}] = base
      BY <2>1, <2>6, Prefix
    <2>8. ASSUME NEW i \in 1..N, fold[1..(i - 1)] \in V PROVE fold[1..i] = step[<<fold[1..(i - 1)], q[i]>>]
      <3>1. 1..i \in SUBSET (1..N) /\ 1..i # {} /\ Max(1..i) = i /\ (1..i) \ {i} = 1..(i - 1)
        BY <2>1, Prefix
      <3>2. fold[1..i] = Op(fold[1..(i - 1)], q[i])
        BY <2>6, <3>1
      <3> QED BY <2>1, <2>3, <2>8, <3>2
    <2>9. Unfolds(fold, V, step, base, q)
      BY <2>7, <2>8 DEF Unfolds, N
    <2>10. Stepper(V, E, step, base, q)
      BY <1>1, <2>3 DEF Stepper
    <2>11. fold[1..N] = Run(V, step, base, q)
      BY <2>9, <2>10, FoldIsRun DEF N
    <2> QED BY <2>2, <2>11
  <1>3. rows \in Seq(E) /\ <<>> \in Seq(E) /\ \A e \in E : Append(rows, e) \in Seq(E)
    OBVIOUS
  <1>4. step \in [V \X E -> V] /\ \A v \in V, e \in E : step[<<v, e>>] = Op(v, e)
    BY <1>1
  <1>5. /\ UpdatesUpTo(want, res, b, rows) = Run(V, step, base, rows)
        /\ UpdatesUpTo(want, res, b, <<>>) = Run(V, step, base, <<>>)
    BY <1>2, <1>3
  <1>6. ASSUME NEW e \in E
        PROVE  UpdatesUpTo(want, res, b, Append(rows, e)) = Run(V, step, base, Append(rows, e))
    BY <1>2, <1>3
  <1> HIDE DEF V, E, Op, step, base
  <1>7. Stepper(V, E, step, base, rows)
    BY <1>1, <1>3, <1>4 DEF Stepper
  <1>8. Run(V, step, base, rows) \in V /\ Run(V, step, base, <<>>) = base
    BY <1>1, <1>7, RunType, RunEmpty
  <1>9. ASSUME NEW e \in E PROVE Run(V, step, base, Append(rows, e)) = Op(Run(V, step, base, rows), e)
    <2>1. Run(V, step, base, Append(rows, e)) = step[<<Run(V, step, base, rows), e>>]
      BY <1>7, RunAppend
    <2> QED BY <1>4, <1>8, <2>1
  <1> QED BY <1>5, <1>6, <1>8, <1>9 DEF V, E, Op, base

LEMMA SubDeltas ==
  ASSUME NEW b \in Seq(InputRow), ChainedDeltas(b), NEW i \in 1..Len(b), NEW j \in 1..i
  PROVE  /\ SubSeq(b, j, i) \in Seq(InputRow) /\ SubSeq(b, j, i) # <<>> /\ ChainedDeltas(SubSeq(b, j, i))
         /\ SubSeq(b, 1, j - 1) \in Seq(InputRow)
         /\ SubSeq(b, 1, j - 1) \o SubSeq(b, j, i) = SubSeq(b, 1, i)
  <1> DEFINE g == SubSeq(b, j, i)
             N == Len(b)
             M == i - j + 1
  <1>1. N \in Nat /\ DOMAIN b = 1..N /\ i \in 1..N /\ i \in Nat /\ j \in Nat /\ j >= 1 /\ j <= i /\ M \in Nat /\ M >= 1
    OBVIOUS
  <1>2. g \in Seq(InputRow) /\ Len(g) = M /\ DOMAIN g = 1..M /\ \A k \in 1..M : g[k] = b[k + j - 1]
    BY <1>1
  <1>3. \A k \in 1..M : k + j - 1 \in 1..N
    BY <1>1
  <1>4. Homogeneous(b) /\ Deltas(b) /\ Chained(b) /\ ColumnsOk(b)
    BY DEF ChainedDeltas
  <1>5. SubSeq(b, 1, j - 1) \in Seq(InputRow) /\ SubSeq(b, 1, j - 1) \o SubSeq(b, j, i) = SubSeq(b, 1, i)
    BY <1>1
  <1>6. g # <<>>
    BY <1>1, <1>2
  <1> HIDE DEF g, N, M
  <1>7. Homogeneous(g)
    <2>1. 1 \in 1..M
      BY <1>1
    <2>2. ASSUME NEW k \in 1..M PROVE g[k].stream = b[1].stream /\ g[k].kind = b[1].kind
      <3>1. PICK n \in DOMAIN b : n = k + j - 1
        BY <1>1, <1>3
      <3>2. g[k] = b[n]
        BY <1>2, <3>1
      <3> QED BY <1>4, <3>2 DEF Homogeneous
    <2> QED BY <1>2, <2>1, <2>2 DEF Homogeneous
  <1>8. Deltas(g) /\ ColumnsOk(g)
    BY <1>1, <1>2, <1>3, <1>4 DEF Deltas, ColumnsOk
  <1>9. Chained(g)
    <2> SUFFICES ASSUME NEW k \in 2..M PROVE g[k].prev = g[k - 1].seq
      BY <1>2 DEF Chained
    <2>1. k \in 1..M /\ k - 1 \in 1..M /\ k + j - 1 \in 2..N /\ (k - 1) + j - 1 = (k + j - 1) - 1
      BY <1>1, <1>3
    <2>2. b[k + j - 1].prev = b[(k + j - 1) - 1].seq
      BY <1>4, <2>1 DEF Chained, N
    <2> QED BY <1>2, <2>1, <2>2
  <1> QED BY <1>2, <1>5, <1>6, <1>7, <1>8, <1>9 DEF ChainedDeltas, g

\* An update starts where the one before it ends.
LEMMA StartAfterEnd ==
  ASSUME NEW b \in Seq(InputRow), NEW i \in DOMAIN b, NEW m \in 0..(i - 1),
         m = 0 \/ m \in GroupEnds(b), \A k \in (m + 1)..(i - 1) : k \notin GroupEnds(b)
  PROVE  StartOf(b, i) = m + 1
  <1> DEFINE starts == {j \in GroupStarts(b) : j <= i}
  <1>1. Len(b) \in Nat /\ DOMAIN b = 1..Len(b) /\ i \in 1..Len(b) /\ i \in Nat /\ m \in Nat /\ m + 1 <= i
        /\ m < Len(b) /\ (m + 1) - 1 = m
    OBVIOUS
  <1>2. m + 1 \in starts
    <2>1. m + 1 \in DOMAIN b
      BY <1>1
    <2>2. CASE m = 0
      BY <1>1, <2>1, <2>2 DEF GroupStarts
    <2>3. CASE m # 0
      <3>1. m # Len(b)
        <4>1. m < Len(b) /\ m \in Nat /\ Len(b) \in Nat
          BY <1>1
        <4> HIDE DEF starts
        <4> QED BY ONLY <4>1
      <3>2. Provider(b[m + 1]) # Provider(b[m])
        BY <2>3, <3>1 DEF GroupEnds
      <3>3. Provider(b[m + 1]) # Provider(b[(m + 1) - 1])
        BY <1>1, <3>2
      <3>4. m + 1 \in GroupStarts(b)
        BY <2>1, <3>3 DEF GroupStarts
      <3> QED BY <1>1, <3>4
    <2> QED BY <2>2, <2>3
  <1>3. ASSUME NEW j \in starts PROVE m + 1 >= j
    <2>1. j \in 1..Len(b) /\ j <= i /\ (j = 1 \/ Provider(b[j]) # Provider(b[j - 1]))
      BY <1>1 DEF GroupStarts
    <2>2. CASE j > m + 1
      <3>1. j # 1 /\ j - 1 \in (m + 1)..(i - 1) /\ j - 1 \in DOMAIN b /\ (j - 1) + 1 = j
        BY <1>1, <2>1, <2>2
      <3>2. j - 1 \in GroupEnds(b)
        BY <2>1, <3>1 DEF GroupEnds
      <3> QED BY <3>1, <3>2
    <2> QED BY <1>1, <2>1, <2>2
  <1>4. starts \in SUBSET (1..i)
    BY <1>1 DEF GroupStarts
  <1> HIDE DEF starts
  <1>5. Max(starts) = m + 1
    BY <1>1, <1>2, <1>3, <1>4, MaxIs
  <1> QED BY <1>5 DEF StartOf, starts

\* The updates of an atomic batch, each applied where it ends, are its rows applied one
\* after the other.
LEMMA UpdatesAreSerial ==
  ASSUME NEW want, NEW st \in States(want), Tracked(st),
         NEW b \in Seq(InputRow), b # <<>>, ChainedDeltas(b), Atomic(want, b)
  PROVE  Agree(ApplySerial(want, From(st), b), ApplyUpdates(want, From(st), b))
  <1> DEFINE N == Len(b)
             Upto(i) == UpdatesUpTo(want, From(st), b, [k \in 1..i |-> k])
             Serial(m) == ApplySerial(want, From(st), SubSeq(b, 1, m))
             Good(i) == i <= N => \E m \in 0..i :
                                    /\ m = 0 \/ m \in GroupEnds(b)
                                    /\ \A k \in (m + 1)..i : k \notin GroupEnds(b)
                                    /\ Agree(Serial(m), Upto(i))
             T == {i \in Nat : Good(i)}
  <1>1. N \in Nat /\ N > 0 /\ DOMAIN b = 1..N /\ From(st) \in Results(want) /\ From(st).ok /\ From(st).st = st
    BY DEF From, Results
  <1>2. ASSUME NEW i \in 0..N
        PROVE  /\ Upto(i) \in Results(want)
               /\ i < N => Upto(i + 1) = UpdateStep(want, b, Upto(i), i + 1)
    <2> DEFINE is == [k \in 1..i |-> k]
    <2>1. is \in Seq(DOMAIN b)
      BY <1>1
    <2>2. i < N => i + 1 \in DOMAIN b /\ [k \in 1..(i + 1) |-> k] = Append(is, i + 1)
      BY <1>1
    <2>3. UpdatesUpTo(want, From(st), b, is) \in Results(want)
      <3> HIDE DEF is
      <3> QED BY <1>1, <2>1, UpdatesSteps
    <2>4. ASSUME NEW j \in DOMAIN b
          PROVE  UpdatesUpTo(want, From(st), b, Append(is, j)) = UpdateStep(want, b, UpdatesUpTo(want, From(st), b, is), j)
      <3> HIDE DEF is
      <3> QED BY <1>1, <2>1, UpdatesSteps
    <2> QED BY <2>2, <2>3, <2>4
  <1>3. 0 \in T
    <2>1. [k \in 1..0 |-> k] = <<>> /\ SubSeq(b, 1, 0) = <<>> /\ 0 \in 0..0 /\ \A k \in (0 + 1)..0 : FALSE
      OBVIOUS
    <2>2. Serial(0) = From(st)
      BY <1>1, <2>1, SerialSteps
    <2>3. <<>> \in Seq(DOMAIN b)
      OBVIOUS
    <2>4. UpdatesUpTo(want, From(st), b, <<>>) = From(st)
      <3>1. From(st) \in Results(want)
        BY <1>1
      <3> HIDE DEF N, Upto, Serial, Good, T
      <3> QED BY <2>3, <3>1, UpdatesSteps
    <2>5. Agree(Serial(0), Upto(0))
      BY <2>1, <2>2, <2>4 DEF Agree
    <2> HIDE DEF Upto, Serial
    <2> QED BY <2>1, <2>5
  <1>4. ASSUME NEW i \in Nat, i \in T PROVE i + 1 \in T
    <2> SUFFICES ASSUME i + 1 <= N
                 PROVE  \E m \in 0..(i + 1) :
                          /\ m = 0 \/ m \in GroupEnds(b)
                          /\ \A k \in (m + 1)..(i + 1) : k \notin GroupEnds(b)
                          /\ Agree(Serial(m), Upto(i + 1))
      OBVIOUS
    <2>1. PICK m \in 0..i : /\ m = 0 \/ m \in GroupEnds(b)
                            /\ \A k \in (m + 1)..i : k \notin GroupEnds(b)
                            /\ Agree(Serial(m), Upto(i))
      BY <1>1, <1>4
    <2>2. i \in 0..N /\ i + 1 \in 1..N /\ i < N /\ i + 1 - 1 = i /\ m \in Nat /\ m <= i /\ m + 1 \in 1..(i + 1)
      BY <1>1
    <2>3. Upto(i) \in Results(want) /\ Upto(i + 1) = UpdateStep(want, b, Upto(i), i + 1)
      BY <1>2, <2>2
    <2> HIDE DEF Upto
    <2>4. CASE i + 1 \notin GroupEnds(b)
      <3>1. Upto(i + 1) = Upto(i)
        BY <2>3, <2>4 DEF UpdateStep
      <3>2. \A k \in (m + 1)..(i + 1) : k = i + 1 \/ k \in (m + 1)..i
        BY <2>2
      <3>3. m \in 0..(i + 1)
        BY <2>2
      <3> HIDE DEF Serial
      <3> QED BY <2>1, <2>4, <3>1, <3>2, <3>3
    <2>5. CASE i + 1 \in GroupEnds(b)
      <3> DEFINE g == SubSeq(b, m + 1, i + 1)
                 before == Serial(m)
      <3>1. StartOf(b, i + 1) = m + 1
        BY <1>1, <2>1, <2>2, StartAfterEnd
      <3>2. GroupEndingAt(b, i + 1) = g
        BY <1>1, <2>2, <3>1, StartIs
      <3>3. g \in Seq(InputRow) /\ g # <<>> /\ ChainedDeltas(g) /\ SubSeq(b, 1, m) \in Seq(InputRow)
            /\ SubSeq(b, 1, m) \o g = SubSeq(b, 1, i + 1)
        <4>1. PICK j : j = m + 1
          OBVIOUS
        <4>2. j \in 1..(i + 1) /\ j - 1 = m
          BY <2>2, <4>1
        <4> HIDE DEF N
        <4>3. SubSeq(b, j, i + 1) \in Seq(InputRow) /\ SubSeq(b, j, i + 1) # <<>> /\ ChainedDeltas(SubSeq(b, j, i + 1))
              /\ SubSeq(b, 1, j - 1) \in Seq(InputRow)
              /\ SubSeq(b, 1, j - 1) \o SubSeq(b, j, i + 1) = SubSeq(b, 1, i + 1)
          BY <2>2, <4>2, SubDeltas DEF N
        <4> QED BY <4>1, <4>2, <4>3
      <3>4. Plain(want, g)
        <4>1. ~ExpectedInside(want, g)
          BY <2>5, <3>2 DEF Atomic
        <4> HIDE DEF g
        <4> QED BY <3>3, <4>1, QuietInside
      <3>5. before \in Results(want) /\ Serial(i + 1) = ApplySerial(want, before, g)
        <4>1. PICK head : head = SubSeq(b, 1, m)
          OBVIOUS
        <4>2. head \in Seq(InputRow)
          BY <3>3, <4>1
        <4> HIDE DEF g
        <4>3. ApplySerial(want, From(st), head) \in Results(want)
          BY <1>1, <4>2, SerialSteps
        <4>4. ApplySerial(want, From(st), head \o g) = ApplySerial(want, ApplySerial(want, From(st), head), g)
          BY <1>1, <3>3, <4>2, SerialConcat
        <4> QED BY <3>3, <4>1, <4>3, <4>4
      <3> HIDE DEF g
      <3>6. ASSUME before.ok PROVE Agree(Serial(i + 1), Upto(i + 1))
        <4>1. Upto(i).ok /\ Upto(i).st = before.st /\ before.st \in States(want)
          BY <2>1, <3>5, <3>6 DEF Agree, Results
        <4>2. Tracked(before.st)
          BY <1>1, <3>3, <3>6, SerialTracked
        <4>3. From(before.st) = before
          BY <3>5, <3>6 DEF From, Results
        <4>4. Agree(ApplySerial(want, From(before.st), g), ApplyWhole(want, before.st, g))
          <5> HIDE DEF before
          <5> QED BY <3>3, <3>4, <4>1, <4>2, WholeIsSerial
        <4>5. Upto(i + 1) = ApplyWhole(want, before.st, g)
          BY <2>3, <2>5, <3>2, <4>1 DEF UpdateStep
        <4>6. Agree(Serial(i + 1), Upto(i + 1))
          BY <3>5, <4>3, <4>4, <4>5
        <4> QED BY <4>6
      <3>7. Agree(Serial(i + 1), Upto(i + 1))
        <4>1. CASE ~before.ok
          <5>1. Serial(i + 1) = before
            BY <3>3, <3>5, <4>1, SerialStuck
          <5>2. ~Upto(i).ok /\ Upto(i + 1) = Upto(i)
            BY <2>1, <2>3, <4>1 DEF Agree, UpdateStep
          <5> QED BY <4>1, <5>1, <5>2 DEF Agree
        <4> QED BY <3>6, <4>1
      <3>8. i + 1 \in 0..(i + 1) /\ \A k \in (i + 1 + 1)..(i + 1) : FALSE
        BY <2>2
      <3> HIDE DEF Serial, before
      <3> QED BY <2>5, <3>7, <3>8
    <2> QED BY <2>4, <2>5
  <1>5. Good(N)
    <2>1. Nat \subseteq T
      <3> HIDE DEF T
      <3> QED BY <1>3, <1>4, NatSetInduction
    <2> QED BY <1>1, <2>1
  <1>6. PICK m \in 0..N : /\ m = 0 \/ m \in GroupEnds(b)
                          /\ \A k \in (m + 1)..N : k \notin GroupEnds(b)
                          /\ Agree(Serial(m), Upto(N))
    <2>1. N <= N
      BY <1>1
    <2> HIDE DEF N, Upto, Serial
    <2> QED BY <1>5, <2>1, Zenon
  <1>7. m = N
    <2>1. N \in GroupEnds(b)
      BY <1>1 DEF GroupEnds
    <2>2. m # N => N \in (m + 1)..N
      <3>1. N \in Nat /\ m \in 0..N
        BY <1>1
      <3> QED BY ONLY <3>1
    <2> QED BY <1>6, <2>1, <2>2
  <1>8. SubSeq(b, 1, N) = b
    OBVIOUS
  <1>9. ApplyUpdates(want, From(st), b) = Upto(N)
    BY <1>1 DEF ApplyUpdates, UpdatesUpTo
  <1> QED BY <1>6, <1>7, <1>8, <1>9

\* The ways a batch may be applied.
LEMMA BatchWays ==
  ASSUME NEW want, NEW st, NEW b, NEW uniform
  PROVE  \/ /\ ValidateRecordBatch(want, st, b, uniform) = [ok |-> FALSE, st |-> st]
            /\ ~ColumnsOk(b) \/ (b[1].kind = "delta" /\ ~Chained(b))
         \/ /\ ValidateRecordBatch(want, st, b, uniform) = ApplyUpdates(want, From(st), b)
            /\ ColumnsOk(b) /\ b[1].kind = "delta" /\ Chained(b) /\ Atomic(want, b)
         \/ /\ ValidateRecordBatch(want, st, b, uniform) = ApplyWhole(want, st, b)
            /\ ColumnsOk(b) /\ b[1].kind = "delta" /\ Chained(b) /\ ~ExpectedInside(want, b)
         \/ ValidateRecordBatch(want, st, b, uniform) = ApplySerial(want, From(st), b)
  <1>1. Atomic(want, b) => Encoded(b)
    BY DEF Atomic
  <1> QED BY <1>1 DEF ValidateRecordBatch, From

LEMMA BatchType ==
  ASSUME NEW want, NEW st \in States(want), NEW b \in Seq(InputRow), b # <<>>, NEW uniform
  PROVE  ValidateRecordBatch(want, st, b, uniform) \in Results(want)
  <1>1. From(st) \in Results(want) /\ [ok |-> FALSE, st |-> st] \in Results(want)
    BY DEF From, Results
  <1>2. ApplySerial(want, From(st), b) \in Results(want)
    BY <1>1, SerialSteps
  <1>3. ApplyWhole(want, st, b) \in Results(want)
    BY WholeType
  <1>4. ApplyUpdates(want, From(st), b) \in Results(want)
    <2> DEFINE is == [i \in DOMAIN b |-> i]
    <2>1. is \in Seq(DOMAIN b)
      OBVIOUS
    <2>2. ApplyUpdates(want, From(st), b) = UpdatesUpTo(want, From(st), b, is)
      BY DEF ApplyUpdates, UpdatesUpTo
    <2> HIDE DEF is
    <2> QED BY <1>1, <2>1, <2>2, UpdatesSteps
  <1> QED BY <1>1, <1>2, <1>3, <1>4, BatchWays

\* Whichever way a batch is applied, it passes exactly when its rows pass one after the
\* other, and leaves the same state.
LEMMA BatchIsSerial ==
  ASSUME NEW want, NEW st \in States(want), Tracked(st),
         NEW b \in Seq(InputRow), b # <<>>, Homogeneous(b), NEW uniform
  PROVE  Agree(ApplySerial(want, From(st), b), ValidateRecordBatch(want, st, b, uniform))
  <1> DEFINE v == ValidateRecordBatch(want, st, b, uniform)
             serial == ApplySerial(want, From(st), b)
  <1>1. From(st) \in Results(want)
    BY DEF From, Results
  <1>2. b[1].kind = "delta" => Deltas(b)
    BY DEF Homogeneous, Deltas
  <1>3. CASE v = [ok |-> FALSE, st |-> st] /\ (~ColumnsOk(b) \/ (b[1].kind = "delta" /\ ~Chained(b)))
    <2>1. ~serial.ok
      BY <1>1, <1>2, <1>3, SerialChains
    <2> QED BY <1>3, <2>1 DEF Agree
  <1>4. CASE v = ApplyUpdates(want, From(st), b) /\ ColumnsOk(b) /\ b[1].kind = "delta" /\ Chained(b) /\ Atomic(want, b)
    <2>1. ChainedDeltas(b)
      BY <1>2, <1>4 DEF ChainedDeltas
    <2> QED BY <1>4, <2>1, UpdatesAreSerial
  <1>5. CASE v = ApplyWhole(want, st, b) /\ ColumnsOk(b) /\ b[1].kind = "delta" /\ Chained(b) /\ ~ExpectedInside(want, b)
    <2>1. ChainedDeltas(b)
      BY <1>2, <1>5 DEF ChainedDeltas
    <2>2. Plain(want, b)
      BY <1>5, <2>1, QuietInside
    <2> QED BY <1>5, <2>1, <2>2, WholeIsSerial
  <1>6. CASE v = serial
    BY <1>6 DEF Agree
  <1> HIDE DEF v, serial
  <1> QED BY <1>3, <1>4, <1>5, <1>6, BatchWays DEF v, serial

(***************************************************************************)
(* The batches of a call.                                                  *)
(***************************************************************************)
Slices == {b \in Seq(InputRow) : b # <<>> /\ Homogeneous(b)}

LEMMA BatchStepType ==
  ASSUME NEW want, NEW st \in States(want), NEW uniform
  PROVE  /\ From(st) \in Results(want)
         /\ \A v \in Results(want), b \in Slices : BatchStep(want, uniform, v, b) \in Results(want)
  <1>1. \A v \in Results(want) : v.st \in States(want)
    BY DEF Results
  <1>2. From(st) \in Results(want)
    BY DEF From, Results
  <1> QED BY <1>1, <1>2, BatchType DEF BatchStep, Slices


\* The batches of a call, one after the other.
LEMMA BatchesSteps ==
  ASSUME NEW want, NEW st, NEW uniform, NEW rows, st \in States(want), rows \in Seq(Slices)
  PROVE  /\ ValidateBatches(want, st, rows, uniform) \in Results(want)
         /\ ValidateBatches(want, st, <<>>, uniform) = From(st)
         /\ \A e \in Slices : ValidateBatches(want, st, Append(rows, e), uniform)
                               = BatchStep(want, uniform, ValidateBatches(want, st, rows, uniform), e)
  <1> DEFINE V == Results(want)
             E == Slices
             Op(v, e) == BatchStep(want, uniform, v, e)
             step == [p \in V \X E |-> Op(p[1], p[2])]
             base == From(st)
  <1>1. base \in V /\ \A v \in V, e \in E : Op(v, e) \in V
    BY BatchStepType
  <1>2. ASSUME NEW q \in Seq(E) PROVE ValidateBatches(want, st, q, uniform) = Run(V, step, base, q)
    <2> DEFINE N == Len(q)
               Body(h) == [s \in SUBSET (1..N) |-> IF s = {} THEN base ELSE Op(h[s \ {Max(s)}], q[Max(s)])]
               fold == CHOOSE h : h = Body(h)
    <2>1. N \in Nat /\ DOMAIN q = 1..N /\ \A i \in 1..N : q[i] \in E
      OBVIOUS
    <2>2. ValidateBatches(want, st, q, uniform) = fold[1..N]
      BY <2>1 DEF ValidateBatches, From, FoldLeft, MapThenFoldSet
    <2> HIDE DEF N, V, E, Op, base
    <2>3. step \in [V \X E -> V] /\ \A v \in V, e \in E : step[<<v, e>>] = Op(v, e)
      BY <1>1
    <2> HIDE DEF step
    <2>4. PICK g \in [SUBSET (1..N) -> V] : FoldsTo(g, base, step, q)
      <3>1. Stepper(V, E, step, base, q)
        BY <1>1, <2>3 DEF Stepper
      <3> QED BY <3>1, FoldExists DEF N
    <2>5. g = Body(g)
      <3>1. \A s \in SUBSET (1..N) : g[s] = Body(g)[s]
        BY <2>1, <2>3, <2>4, Prefix DEF FoldsTo, N
      <3> QED BY <2>4, <3>1
    <2>6. fold = Body(fold)
      BY <2>5
    <2> HIDE DEF fold
    <2>7. fold[{}] = base
      BY <2>1, <2>6, Prefix
    <2>8. ASSUME NEW i \in 1..N, fold[1..(i - 1)] \in V PROVE fold[1..i] = step[<<fold[1..(i - 1)], q[i]>>]
      <3>1. 1..i \in SUBSET (1..N) /\ 1..i # {} /\ Max(1..i) = i /\ (1..i) \ {i} = 1..(i - 1)
        BY <2>1, Prefix
      <3>2. fold[1..i] = Op(fold[1..(i - 1)], q[i])
        BY <2>6, <3>1
      <3> QED BY <2>1, <2>3, <2>8, <3>2
    <2>9. Unfolds(fold, V, step, base, q)
      BY <2>7, <2>8 DEF Unfolds, N
    <2>10. Stepper(V, E, step, base, q)
      BY <1>1, <2>3 DEF Stepper
    <2>11. fold[1..N] = Run(V, step, base, q)
      BY <2>9, <2>10, FoldIsRun DEF N
    <2> QED BY <2>2, <2>11
  <1>3. rows \in Seq(E) /\ <<>> \in Seq(E) /\ \A e \in E : Append(rows, e) \in Seq(E)
    OBVIOUS
  <1>4. step \in [V \X E -> V] /\ \A v \in V, e \in E : step[<<v, e>>] = Op(v, e)
    BY <1>1
  <1>5. /\ ValidateBatches(want, st, rows, uniform) = Run(V, step, base, rows)
        /\ ValidateBatches(want, st, <<>>, uniform) = Run(V, step, base, <<>>)
    BY <1>2, <1>3
  <1>6. ASSUME NEW e \in E
        PROVE  ValidateBatches(want, st, Append(rows, e), uniform) = Run(V, step, base, Append(rows, e))
    BY <1>2, <1>3
  <1> HIDE DEF V, E, Op, step, base
  <1>7. Stepper(V, E, step, base, rows)
    BY <1>1, <1>3, <1>4 DEF Stepper
  <1>8. Run(V, step, base, rows) \in V /\ Run(V, step, base, <<>>) = base
    BY <1>1, <1>7, RunType, RunEmpty
  <1>9. ASSUME NEW e \in E PROVE Run(V, step, base, Append(rows, e)) = Op(Run(V, step, base, rows), e)
    <2>1. Run(V, step, base, Append(rows, e)) = step[<<Run(V, step, base, rows), e>>]
      BY <1>7, RunAppend
    <2> QED BY <1>4, <1>8, <2>1
  <1> QED BY <1>5, <1>6, <1>8, <1>9 DEF V, E, Op, base

\* What one record after the other and one batch after the other have made of the same
\* rows.
Together(want, a, v) ==
  /\ a \in Results(want) /\ v \in Results(want)
  /\ Agree(a, v)
  /\ a.ok => Tracked(a.st)

LEMMA NextBatch ==
  ASSUME NEW want, NEW a, NEW v, Together(want, a, v), NEW b \in Slices, NEW uniform
  PROVE  Together(want, ApplySerial(want, a, b), BatchStep(want, uniform, v, b))
  <1>1. b \in Seq(InputRow) /\ b # <<>> /\ Homogeneous(b)
    BY DEF Slices
  <1>2. ApplySerial(want, a, b) \in Results(want)
    BY <1>1, SerialSteps DEF Together
  <1>3. v.st \in States(want) /\ a.st \in States(want) /\ BatchStep(want, uniform, v, b) \in Results(want)
    <2>1. v.st \in States(want) /\ a.st \in States(want)
      BY DEF Together, Results
    <2> QED BY <2>1, BatchStepType DEF Together
  <1>4. CASE ~a.ok
    <2>1. ApplySerial(want, a, b) = a
      BY <1>1, <1>4, SerialStuck DEF Together
    <2>2. BatchStep(want, uniform, v, b) = v
      BY <1>4 DEF BatchStep, Together, Agree
    <2> QED BY <2>1, <2>2
  <1>5. CASE a.ok
    <2>1. v.ok /\ a.st = v.st /\ Tracked(a.st)
      BY <1>5 DEF Together, Agree
    <2>2. a = From(a.st)
      BY <1>5 DEF From, Results, Together
    <2>3. Agree(ApplySerial(want, From(a.st), b), ValidateRecordBatch(want, a.st, b, uniform))
      BY <1>1, <1>3, <2>1, BatchIsSerial
    <2>4. BatchStep(want, uniform, v, b) = ValidateRecordBatch(want, a.st, b, uniform)
      BY <2>1 DEF BatchStep
    <2>5. ApplySerial(want, a, b).ok => Tracked(ApplySerial(want, a, b).st)
      BY <1>1, <2>1, SerialTracked DEF Together
    <2> QED BY <1>2, <1>3, <2>2, <2>3, <2>4, <2>5 DEF Together
  <1> QED BY <1>4, <1>5

\* At most two batches leave at once.
LEMMA FewBatches ==
  ASSUME NEW want, NEW st \in States(want), Tracked(st), NEW uniform
  PROVE  /\ Together(want, From(st), ValidateBatches(want, st, <<>>, uniform))
         /\ \A x \in Slices : Together(want, ApplySerial(want, From(st), x), ValidateBatches(want, st, <<x>>, uniform))
         /\ \A x, y \in Slices :
              Together(want, ApplySerial(want, From(st), x \o y), ValidateBatches(want, st, <<x, y>>, uniform))
  <1>1. From(st) \in Results(want) /\ From(st).ok /\ From(st).st = st
    BY DEF From, Results
  <1>2. Together(want, From(st), ValidateBatches(want, st, <<>>, uniform))
    <2>1. <<>> \in Seq(Slices)
      OBVIOUS
    <2>2. ValidateBatches(want, st, <<>>, uniform) = From(st)
      BY <2>1, BatchesSteps
    <2> QED BY <1>1, <2>2 DEF Together, Agree
  <1>3. ASSUME NEW x \in Slices
        PROVE  Together(want, ApplySerial(want, From(st), x), ValidateBatches(want, st, <<x>>, uniform))
    <2>1. <<>> \in Seq(Slices) /\ Append(<<>>, x) = <<x>>
      OBVIOUS
    <2>2. ValidateBatches(want, st, Append(<<>>, x), uniform)
            = BatchStep(want, uniform, ValidateBatches(want, st, <<>>, uniform), x)
      <3>1. PICK none : none = <<>>
        OBVIOUS
      <3>2. none \in Seq(Slices)
        BY <2>1, <3>1
      <3>3. \A e \in Slices : ValidateBatches(want, st, Append(none, e), uniform)
                                = BatchStep(want, uniform, ValidateBatches(want, st, none, uniform), e)
        BY <3>2, BatchesSteps
      <3> QED BY <3>1, <3>3
    <2> QED BY <1>2, <2>1, <2>2, NextBatch
  <1>4. ASSUME NEW x \in Slices, NEW y \in Slices
        PROVE  Together(want, ApplySerial(want, From(st), x \o y), ValidateBatches(want, st, <<x, y>>, uniform))
    <2>1. PICK first : first = <<x>>
      OBVIOUS
    <2>2. first \in Seq(Slices) /\ Append(first, y) = <<x, y>>
      <3>1. <<x>> \in Seq(Slices)
        OBVIOUS
      <3>2. Append(<<x>>, y) = <<x, y>>
        BY Pair
      <3> QED BY <2>1, <3>1, <3>2
    <2>3. ValidateBatches(want, st, Append(first, y), uniform)
            = BatchStep(want, uniform, ValidateBatches(want, st, first, uniform), y)
      <3>1. \A e \in Slices : ValidateBatches(want, st, Append(first, e), uniform)
                                = BatchStep(want, uniform, ValidateBatches(want, st, first, uniform), e)
        BY <2>2, BatchesSteps
      <3> QED BY <3>1
    <2>4. x \in Seq(InputRow) /\ y \in Seq(InputRow)
      BY DEF Slices
    <2>5. ApplySerial(want, From(st), x \o y) = ApplySerial(want, ApplySerial(want, From(st), x), y)
      BY <1>1, <2>4, SerialConcat
    <2>6. Together(want, ApplySerial(want, From(st), x), ValidateBatches(want, st, first, uniform))
      BY <1>3, <2>1
    <2>7. Together(want, ApplySerial(want, ApplySerial(want, From(st), x), y),
                   BatchStep(want, uniform, ValidateBatches(want, st, first, uniform), y))
      BY <2>6, NextBatch
    <2> QED BY <2>2, <2>3, <2>5, <2>7
  <1> QED BY <1>2, <1>3, <1>4

(***************************************************************************)
(* The update that waits for the next batch.                               *)
(***************************************************************************)
Waits(w) == w \in Seq(InputRow) /\ Homogeneous(w) /\ Deltas(w)

LEMMA NothingWaits == Waits(<<>>)
  BY DEF Waits, Homogeneous, Deltas

LEMMA SubWaits ==
  ASSUME NEW b, Waits(b), NEW j \in 1..Len(b), NEW i \in j..Len(b)
  PROVE  Waits(SubSeq(b, j, i)) /\ SubSeq(b, j, i) # <<>>
  <1> DEFINE g == SubSeq(b, j, i)
             M == i - j + 1
  <1>1. Len(b) \in Nat /\ DOMAIN b = 1..Len(b) /\ i \in Nat /\ j \in Nat /\ j >= 1 /\ j <= i /\ i <= Len(b)
        /\ M \in Nat /\ M >= 1 /\ b \in Seq(InputRow)
    BY DEF Waits
  <1>2. g \in Seq(InputRow) /\ Len(g) = M /\ DOMAIN g = 1..M /\ \A k \in 1..M : g[k] = b[k + j - 1]
    BY <1>1
  <1>3. 1 \in 1..M /\ \A k \in 1..M : k + j - 1 \in 1..Len(b)
    BY <1>1
  <1>4. g # <<>>
    BY <1>1, <1>2
  <1> HIDE DEF g, M
  <1>5. \A k \in 1..M : g[k].stream = b[1].stream /\ g[k].kind = b[1].kind /\ g[k].kind = "delta"
    <2>1. \A m \in 1..Len(b) : b[m].stream = b[1].stream /\ b[m].kind = b[1].kind /\ b[m].kind = "delta"
      BY <1>1 DEF Waits, Homogeneous, Deltas
    <2> QED BY <1>2, <1>3, <2>1
  <1>6. Homogeneous(g) /\ Deltas(g)
    BY <1>2, <1>3, <1>5 DEF Homogeneous, Deltas
  <1> QED BY <1>2, <1>4, <1>6 DEF Waits, g

LEMMA JoinWaits ==
  ASSUME NEW a, NEW b, Waits(a), Waits(b), a # <<>>, b # <<>>, Last(a).stream = b[1].stream
  PROVE  Waits(a \o b) /\ a \o b # <<>>
  <1> DEFINE g == a \o b
             M == Len(a)
             N == Len(b)
  <1>1. M \in Nat /\ M >= 1 /\ N \in Nat /\ N >= 1 /\ DOMAIN a = 1..M /\ DOMAIN b = 1..N
        /\ a \in Seq(InputRow) /\ b \in Seq(InputRow)
    BY DEF Waits
  <1>2. g \in Seq(InputRow) /\ Len(g) = M + N /\ DOMAIN g = 1..(M + N)
        /\ (\A k \in 1..M : g[k] = a[k]) /\ (\A k \in (M + 1)..(M + N) : g[k] = b[k - M])
    BY <1>1
  <1>3. g # <<>>
    BY <1>1, <1>2
  <1>4. Last(a) = a[M]
    BY DEF Last
  <1> HIDE DEF g, M, N
  <1>5. 1 \in 1..M /\ M \in 1..M /\ 1 \in 1..N
        /\ \A k \in 1..(M + N) : k \in 1..M \/ (k \in (M + 1)..(M + N) /\ k - M \in 1..N)
    BY <1>1
  <1>6. \A k \in 1..(M + N) : g[k].stream = g[1].stream /\ g[k].kind = "delta"
    <2>1. \A k \in 1..M : g[k].stream = a[1].stream /\ g[k].kind = "delta"
      BY <1>1, <1>2 DEF Waits, Homogeneous, Deltas
    <2>2. a[M].stream = a[1].stream /\ g[1].stream = a[1].stream
      BY <1>1, <1>2, <1>5 DEF Waits, Homogeneous
    <2>3. \A k \in 1..N : b[k].stream = a[1].stream /\ b[k].kind = "delta"
      BY <1>1, <1>4, <2>2 DEF Waits, Homogeneous, Deltas
    <2> QED BY <1>2, <1>5, <2>1, <2>2, <2>3
  <1>7. \A k \in 1..(M + N) : g[k].kind = g[1].kind
    <2>1. 1 \in 1..(M + N)
      BY <1>1
    <2> QED BY <1>6, <2>1
  <1> QED BY <1>2, <1>3, <1>6, <1>7 DEF Waits, Homogeneous, Deltas, g

\* Nothing is lost and nothing changes its place: the rows that leave and then those that
\* wait are the rows that waited and then those that arrived.
Coalesced(waiting, b, c) ==
  /\ Waits(c.waiting)
  /\ \/ c.out = <<>> /\ c.waiting = waiting \o b
     \/ \E x \in Slices : c.out = <<x>> /\ x \o c.waiting = waiting \o b
     \/ \E x, y \in Slices : c.out = <<x, y>> /\ (x \o y) \o c.waiting = waiting \o b

LEMMA Coalesces ==
  ASSUME NEW waiting, NEW b, Waits(waiting), b \in Slices
  PROVE  Coalesced(waiting, b, Coalesce(waiting, b))
  <1> DEFINE c == Coalesce(waiting, b)
             joins == waiting # <<>> /\ SameGroup(Last(waiting), b[1])
             head == IF joins THEN waiting ELSE <<>>
             released == IF waiting # <<>> /\ ~joins THEN <<waiting>> ELSE <<>>
             cut == Max(GroupStarts(b))
             N == Len(b)
  <1>1. b \in Seq(InputRow) /\ b # <<>> /\ Homogeneous(b) /\ waiting \in Seq(InputRow)
        /\ (waiting # <<>> => waiting \in Slices)
    BY DEF Slices, Waits
  <1>2. /\ <<>> \o waiting = waiting /\ <<>> \o b = b /\ waiting \o <<>> = waiting /\ b \o <<>> = b
        /\ (waiting \o b) \o <<>> = waiting \o b
    BY <1>1
  <1>3. /\ <<>> \o <<b>> = <<b>> /\ <<waiting>> \o <<b>> = <<waiting, b>>
    <2>1. waiting \in Seq(InputRow) /\ b \in Seq(InputRow)
      BY <1>1
    <2>2. <<b>> \in Seq(Seq(InputRow))
      BY <2>1
    <2> QED BY <2>1, <2>2, Pair
  <1>4. CASE ~Encoded(b)
    <2>1. c.waiting = <<>> /\ c.out = (IF waiting = <<>> THEN <<>> ELSE <<waiting>>) \o <<b>>
      BY <1>4 DEF Coalesce
    <2> HIDE DEF c
    <2>2. CASE waiting = <<>>
      <3>1. c.out = <<b>> /\ b \o c.waiting = waiting \o b
        BY <1>2, <1>3, <2>1, <2>2
      <3> QED BY <2>1, <3>1, NothingWaits DEF Coalesced, c
    <2>3. CASE waiting # <<>>
      <3>1. c.out = <<waiting, b>> /\ (waiting \o b) \o c.waiting = waiting \o b /\ waiting \in Slices
        BY <1>1, <1>2, <1>3, <2>1, <2>3
      <3> QED BY <2>1, <3>1, NothingWaits DEF Coalesced, c
    <2> QED BY <2>2, <2>3
  <1>5. ASSUME Encoded(b) PROVE Coalesced(waiting, b, c)
    <2>1. Waits(b)
      BY <1>1, <1>5 DEF Waits, Encoded, Deltas
    <2>2. joins => Last(waiting).stream = b[1].stream
      BY DEF SameGroup
    <2>3. CASE cut = 1
      <3>1. c.out = released /\ c.waiting = head \o b
        BY <1>5, <2>3 DEF Coalesce
      <3> HIDE DEF c, cut
      <3>2. CASE joins
        <4>1. c.out = <<>> /\ c.waiting = waiting \o b /\ Waits(waiting \o b)
          BY <1>1, <2>1, <2>2, <3>1, <3>2, JoinWaits
        <4> QED BY <4>1 DEF Coalesced, c
      <3>3. CASE ~joins /\ waiting = <<>>
        <4>1. c.out = <<>> /\ c.waiting = waiting \o b /\ c.waiting = b
          BY <1>2, <3>1, <3>3
        <4> QED BY <2>1, <4>1 DEF Coalesced, c
      <3>4. CASE ~joins /\ waiting # <<>>
        <4>1. c.out = <<waiting>> /\ c.waiting = b
          BY <1>2, <3>1, <3>4
        <4> QED BY <1>1, <2>1, <3>4, <4>1 DEF Coalesced, c
      <3> QED BY <3>2, <3>3, <3>4
    <2>4. CASE cut # 1
      <3> DEFINE front == SubSeq(b, 1, cut - 1)
                 rest == SubSeq(b, cut, N)
      <3>1. c.out = released \o <<head \o front>> /\ c.waiting = rest
        BY <1>5, <2>4 DEF Coalesce
      <3>2. cut \in 1..N /\ N \in Nat /\ cut - 1 \in 1..N /\ N \in cut..N
        <4>1. N \in Nat /\ N >= 1 /\ DOMAIN b = 1..N
          BY <1>1
        <4>2. GroupStarts(b) \in SUBSET (1..N) /\ 1 \in GroupStarts(b)
          BY <4>1 DEF GroupStarts
        <4>3. cut \in GroupStarts(b)
          <5> HIDE DEF N
          <5> QED BY <4>1, <4>2, MaxIn
        <4>4. cut \in 1..N
          BY <4>2, <4>3
        <4> HIDE DEF cut, N
        <4> QED BY <2>4, <4>1, <4>4
      <3> HIDE DEF c, cut
      <3>3. Waits(front) /\ front # <<>> /\ Waits(rest)
        <4>1. Waits(front) /\ front # <<>>
          <5>1. PICK j : j = cut - 1
            OBVIOUS
          <5>2. 1 \in 1..Len(b) /\ j \in 1..Len(b)
            BY <3>2, <5>1
          <5>3. Waits(SubSeq(b, 1, j)) /\ SubSeq(b, 1, j) # <<>>
            BY <2>1, <5>2, SubWaits
          <5> QED BY <5>1, <5>3
        <4>2. Waits(rest)
          BY <2>1, <3>2, SubWaits
        <4> QED BY <4>1, <4>2
      <3>4. front \o rest = b /\ front[1] = b[1] /\ front \in Seq(InputRow) /\ rest \in Seq(InputRow)
        BY <1>1, <3>2
      <3>5. front \in Slices
        BY <3>3 DEF Slices, Waits
      <3> HIDE DEF front, rest
      <3>6. CASE joins
        <4>1. Waits(waiting \o front) /\ waiting \o front # <<>>
          BY <2>2, <3>3, <3>4, <3>6, JoinWaits
        <4>2. PICK x : x = waiting \o front
          OBVIOUS
        <4>3. x \in Slices /\ x \o rest = waiting \o b
          <5>1. x \in Slices
            BY <4>1, <4>2 DEF Slices, Waits
          <5>2. (waiting \o front) \o rest = waiting \o (front \o rest)
            <6>1. waiting \in Seq(InputRow) /\ front \in Seq(InputRow) /\ rest \in Seq(InputRow)
              BY <1>1, <3>4
            <6> QED BY ONLY <6>1, Regroup
          <5> QED BY <3>4, <4>2, <5>1, <5>2
        <4>4. c.out = <<x>>
          <5>1. c.out = <<>> \o <<x>>
            BY <3>1, <3>6, <4>2
          <5>2. <<x>> \in Seq(Slices)
            BY <4>3
          <5>3. <<>> \o <<x>> = <<x>>
            BY <5>2
          <5> QED BY <5>1, <5>3
        <4> QED BY <3>1, <3>3, <4>3, <4>4 DEF Coalesced, c
      <3>7. CASE ~joins
        <4>1. <<>> \o front = front /\ head = <<>>
          BY <3>4, <3>7
        <4>2. CASE waiting = <<>>
          <5>1. c.out = <<>> \o <<front>>
            BY <3>1, <4>1, <4>2
          <5>2. <<front>> \in Seq(Slices)
            BY <3>5
          <5>3. c.out = <<front>>
            BY <5>1, <5>2
          <5>4. front \o rest = waiting \o b
            BY <1>2, <3>4, <4>2
          <5> QED BY <3>1, <3>3, <3>5, <5>3, <5>4 DEF Coalesced, c
        <4>3. CASE waiting # <<>>
          <5>1. c.out = <<waiting>> \o <<front>>
            BY <3>1, <3>7, <4>1, <4>3
          <5>2. waiting \in Slices
            BY <1>1, <4>3
          <5>3. c.out = <<waiting, front>>
            BY <3>5, <5>1, <5>2, Pair
          <5>4. (waiting \o front) \o rest = waiting \o (front \o rest)
            <6>1. waiting \in Seq(InputRow) /\ front \in Seq(InputRow) /\ rest \in Seq(InputRow)
              BY <1>1, <3>4
            <6> QED BY ONLY <6>1, Regroup
          <5> QED BY <3>1, <3>3, <3>4, <3>5, <5>2, <5>3, <5>4 DEF Coalesced, c
        <4> QED BY <4>2, <4>3
      <3> QED BY <3>6, <3>7
    <2> QED BY <2>3, <2>4
  <1> QED BY <1>4, <1>5

\* What leaves and what waits, applied one after the other, is everything.
LEMMA ReleasedTogether ==
  ASSUME NEW want, NEW st \in States(want), Tracked(st), NEW waiting \in Seq(InputRow), NEW b \in Seq(InputRow),
         NEW c, Coalesced(waiting, b, c), NEW uniform
  PROVE  \E a : /\ Together(want, a, ValidateBatches(want, st, c.out, uniform))
                /\ ApplySerial(want, From(st), waiting \o b) = ApplySerial(want, a, c.waiting)
  <1> DEFINE all == waiting \o b
  <1>1. c.waiting \in Seq(InputRow) /\ all \in Seq(InputRow) /\ From(st) \in Results(want)
    BY DEF Coalesced, Waits, From, Results
  <1> HIDE DEF all
  <1>2. CASE c.out = <<>> /\ c.waiting = all
    <2>1. Together(want, From(st), ValidateBatches(want, st, c.out, uniform))
      BY <1>2, FewBatches
    <2> QED BY <1>2, <2>1 DEF all
  <1>3. ASSUME NEW x \in Slices, c.out = <<x>>, x \o c.waiting = all
        PROVE  \E a : /\ Together(want, a, ValidateBatches(want, st, c.out, uniform))
                      /\ ApplySerial(want, From(st), all) = ApplySerial(want, a, c.waiting)
    <2>1. Together(want, ApplySerial(want, From(st), x), ValidateBatches(want, st, c.out, uniform))
      BY <1>3, FewBatches
    <2>2. x \in Seq(InputRow)
      BY DEF Slices
    <2>3. ApplySerial(want, From(st), all) = ApplySerial(want, ApplySerial(want, From(st), x), c.waiting)
      BY <1>1, <1>3, <2>2, SerialConcat
    <2> QED BY <2>1, <2>3
  <1>4. ASSUME NEW x \in Slices, NEW y \in Slices, c.out = <<x, y>>, (x \o y) \o c.waiting = all
        PROVE  \E a : /\ Together(want, a, ValidateBatches(want, st, c.out, uniform))
                      /\ ApplySerial(want, From(st), all) = ApplySerial(want, a, c.waiting)
    <2>1. PICK both : both = x \o y
      OBVIOUS
    <2>2. Together(want, ApplySerial(want, From(st), both), ValidateBatches(want, st, c.out, uniform))
      BY <1>4, <2>1, FewBatches
    <2>3. both \in Seq(InputRow)
      BY <2>1 DEF Slices
    <2>4. ApplySerial(want, From(st), both \o c.waiting) = ApplySerial(want, ApplySerial(want, From(st), both), c.waiting)
      BY <1>1, <2>3, SerialConcat
    <2> QED BY <1>4, <2>1, <2>2, <2>4
  <1>5. \/ c.out = <<>> /\ c.waiting = all
        \/ \E x \in Slices : c.out = <<x>> /\ x \o c.waiting = all
        \/ \E x, y \in Slices : c.out = <<x, y>> /\ (x \o y) \o c.waiting = all
    BY DEF Coalesced, all
  <1> QED BY <1>2, <1>3, <1>4, <1>5 DEF all

(***************************************************************************)
(* The Arrow entry point.                                                  *)
(***************************************************************************)
\* The batches so far left the state that the rows before the waiting update leave.
ArrowTracks ==
  mode = "arrow" /\ result.status = "reading" =>
    /\ Waits(pending)
    /\ Tracked(state)
    /\ ApplySerial(expected, Nothing, spool) = ApplySerial(expected, From(state), pending)

Serial == ApplySerial(expected, Nothing, spool)

LEMMA ReadBatchTracks ==
  ASSUME BatchTypeOK, ArrowTracks, ReadBatch
  PROVE  BatchTypeOK' /\ ArrowTracks' /\ ArrowIsSerial' /\ result'.status \in {"reading", "failed"}
  <1>0. mode = "arrow" /\ result.status = "reading" /\ mode' = mode /\ expected' = expected /\ invalid' = invalid
    BY DEF ReadBatch
  <1>a. PICK k \in 1..MaxBatch : \E chosen \in [1..k -> Rows], uniform \in BOOLEAN :
          LET rows == [i \in 1..k |-> Numbered(chosen[i], Len(spool) + i)]
              step == Coalesce(pending, rows)
              res == ValidateBatches(expected, state, step.out, uniform)
          IN /\ Len(spool) + k <= MaxRows /\ Homogeneous(rows)
             /\ spool' = spool \o rows
             /\ pending' = step.waiting
             /\ emitted' = emitted \o step.out
             /\ state' = IF res.ok THEN res.st ELSE state
             /\ parts' = parts \union StagedBy(step.out)
             /\ result' = IF res.ok THEN result ELSE Failed
    BY DEF ReadBatch
  <1>1. PICK chosen \in [1..k -> Rows], uniform \in BOOLEAN :
          LET rows == [i \in 1..k |-> Numbered(chosen[i], Len(spool) + i)]
              step == Coalesce(pending, rows)
              res == ValidateBatches(expected, state, step.out, uniform)
          IN /\ Len(spool) + k <= MaxRows /\ Homogeneous(rows)
             /\ spool' = spool \o rows
             /\ pending' = step.waiting
             /\ emitted' = emitted \o step.out
             /\ state' = IF res.ok THEN res.st ELSE state
             /\ parts' = parts \union StagedBy(step.out)
             /\ result' = IF res.ok THEN result ELSE Failed
    BY <1>a
  <1> DEFINE rows == [i \in 1..k |-> Numbered(chosen[i], Len(spool) + i)]
             step == Coalesce(pending, rows)
             res == ValidateBatches(expected, state, step.out, uniform)
  <1>2. /\ Homogeneous(rows) /\ spool' = spool \o rows /\ pending' = step.waiting
        /\ state' = IF res.ok THEN res.st ELSE state
        /\ result' = IF res.ok THEN result ELSE Failed
    BY <1>1
  <1>3. spool \in Seq(InputRow) /\ Len(spool) \in Nat /\ (\A i \in 1..Len(spool) : spool[i].n = i)
        /\ state \in States(expected) /\ k \in Nat /\ k >= 1
    BY BatchAssumption DEF BatchTypeOK
  <1>4. \A i \in 1..k : Numbered(chosen[i], Len(spool) + i) \in InputRow /\ Numbered(chosen[i], Len(spool) + i).n = Len(spool) + i
    BY <1>3, NumberedType
  <1>5. rows \in Seq(InputRow) /\ Len(rows) = k /\ (\A i \in 1..k : rows[i].n = Len(spool) + i) /\ rows # <<>>
    BY <1>3, <1>4
  <1> HIDE DEF rows
  <1>6. spool' \in Seq(InputRow) /\ \A i \in DOMAIN spool' : spool'[i].n = i
    <2>1. DOMAIN (spool \o rows) = 1..(Len(spool) + k) /\ (spool \o rows) \in Seq(InputRow)
          /\ (\A i \in 1..Len(spool) : (spool \o rows)[i] = spool[i])
          /\ \A i \in (Len(spool) + 1)..(Len(spool) + k) : (spool \o rows)[i] = rows[i - Len(spool)]
      <3>1. spool \in Seq(InputRow) /\ rows \in Seq(InputRow) /\ k = Len(rows)
        BY <1>3, <1>5
      <3> QED BY ONLY <3>1, Joined
    <2>2. \A i \in (Len(spool) + 1)..(Len(spool) + k) : i - Len(spool) \in 1..k /\ Len(spool) + (i - Len(spool)) = i
      BY <1>3
    <2>3. \A i \in 1..(Len(spool) + k) : i \in 1..Len(spool) \/ i \in (Len(spool) + 1)..(Len(spool) + k)
      BY <1>3
    <2>4. \A i \in (Len(spool) + 1)..(Len(spool) + k) : (spool \o rows)[i].n = i
      BY <1>5, <2>1, <2>2
    <2> QED BY <1>2, <1>3, <2>1, <2>3, <2>4
  <1>7. Waits(pending) /\ Tracked(state) /\ Serial = ApplySerial(expected, From(state), pending)
        /\ pending \in Seq(InputRow)
    BY <1>0 DEF ArrowTracks, Serial, Waits
  <1>8. Coalesced(pending, rows, step)
    <2>1. rows \in Slices
      BY <1>2, <1>5 DEF Slices
    <2> QED BY <1>7, <2>1, Coalesces
  <1> HIDE DEF step, res
  <1>9. PICK a : /\ Together(expected, a, res)
                 /\ ApplySerial(expected, From(state), pending \o rows) = ApplySerial(expected, a, step.waiting)
    <2>1. PICK st, waiting : st = state /\ waiting = pending
      OBVIOUS
    <2>2. \E a : /\ Together(expected, a, ValidateBatches(expected, st, step.out, uniform))
                 /\ ApplySerial(expected, From(st), waiting \o rows) = ApplySerial(expected, a, step.waiting)
      <3>1. st \in States(expected) /\ Tracked(st) /\ waiting \in Seq(InputRow) /\ rows \in Seq(InputRow)
            /\ Coalesced(waiting, rows, step)
        BY <1>3, <1>5, <1>7, <1>8, <2>1
      <3> QED BY <3>1, ReleasedTogether
    <2> QED BY <2>1, <2>2 DEF res
  <1>10. ApplySerial(expected, Nothing, spool \o rows) = ApplySerial(expected, a, step.waiting)
    <2>1. Nothing \in Results(expected) /\ From(state) \in Results(expected)
      BY <1>3, FreshType DEF From, Results
    <2>2. ApplySerial(expected, Nothing, spool \o rows) = ApplySerial(expected, Serial, rows)
      BY <1>3, <1>5, <2>1, SerialConcat DEF Serial
    <2>3. ApplySerial(expected, From(state), pending \o rows) = ApplySerial(expected, ApplySerial(expected, From(state), pending), rows)
      BY <1>5, <1>7, <2>1, SerialConcat
    <2> QED BY <1>7, <1>9, <2>2, <2>3
  <1>11. Waits(step.waiting) /\ step.waiting \in Seq(InputRow) /\ a \in Results(expected) /\ res \in Results(expected)
    BY <1>8, <1>9 DEF Coalesced, Waits, Together
  <1>12. CASE res.ok
    <2>1. a.ok /\ a.st = res.st /\ Tracked(res.st) /\ a = From(res.st) /\ res.st \in States(expected)
      BY <1>9, <1>11, <1>12 DEF Together, Agree, From, Results
    <2>2. state' = res.st /\ result'.status = "reading"
      BY <1>0, <1>2, <1>12
    <2>3. BatchTypeOK'
      BY <1>0, <1>6, <2>1, <2>2 DEF BatchTypeOK
    <2>4. ArrowTracks'
      BY <1>0, <1>2, <1>10, <1>11, <2>1, <2>2 DEF ArrowTracks
    <2> QED BY <2>2, <2>3, <2>4 DEF ArrowIsSerial
  <1>13. CASE ~res.ok
    <2>1. ~a.ok
      BY <1>9, <1>13 DEF Together, Agree
    <2>2. ~ApplySerial(expected, Nothing, spool \o rows).ok
      BY <1>10, <1>11, <2>1, SerialStuck
    <2>3. state' = state /\ result'.status = "failed"
      BY <1>2, <1>13 DEF Failed, Reading
    <2>4. BatchTypeOK' /\ ArrowTracks'
      BY <1>0, <1>6, <2>3 DEF BatchTypeOK, ArrowTracks
    <2> QED BY <1>0, <1>2, <2>2, <2>3, <2>4 DEF ArrowIsSerial
  <1> QED BY <1>12, <1>13

LEMMA FinishArrowIsSerial ==
  ASSUME BatchTypeOK, ArrowTracks, FinishArrow
  PROVE  BatchTypeOK' /\ ArrowTracks' /\ ArrowIsSerial' /\ PublishedReplays'
  <1>0. mode = "arrow" /\ result.status = "reading" /\ mode' = mode /\ expected' = expected /\ invalid' = invalid
        /\ spool' = spool
    BY DEF FinishArrow
  <1> DEFINE rest == IF pending = <<>> THEN <<>> ELSE <<pending>>
  <1>1. PICK uniform \in BOOLEAN :
          LET res == ValidateBatches(expected, state, rest, uniform)
          IN /\ state' = IF res.ok THEN res.st ELSE state
             /\ result' =
                  IF ~res.ok \/ Unobserved(res.st) # {} \/ Unreached(res.st) # {} THEN Failed
                  ELSE IF spool = <<>> THEN [Reading EXCEPT !.status = "empty"]
                  ELSE IF ClaimsCollide(spool) THEN Failed
                  ELSE [status |-> "accepted", accepted |-> 1..Len(spool), quarantined |-> {},
                        checkpoints |-> Checkpoints(res.st, {})]
    BY DEF FinishArrow
  <1> DEFINE res == ValidateBatches(expected, state, rest, uniform)
             serial == ApplySerial(expected, Nothing, spool)
             clean == serial.ok /\ RepeatedIds(Range(spool)) = {} /\ expected \subseteq serial.st.reached
  <1>2. /\ state' = IF res.ok THEN res.st ELSE state
        /\ result' =
             IF ~res.ok \/ Unobserved(res.st) # {} \/ Unreached(res.st) # {} THEN Failed
             ELSE IF spool = <<>> THEN [Reading EXCEPT !.status = "empty"]
             ELSE IF ClaimsCollide(spool) THEN Failed
             ELSE [status |-> "accepted", accepted |-> 1..Len(spool), quarantined |-> {},
                   checkpoints |-> Checkpoints(res.st, {})]
    BY <1>1
  <1>3. spool \in Seq(InputRow) /\ (\A i \in DOMAIN spool : spool[i].n = i) /\ state \in States(expected)
        /\ DOMAIN spool = 1..Len(spool)
    BY DEF BatchTypeOK
  <1>4. Waits(pending) /\ Tracked(state) /\ serial = ApplySerial(expected, From(state), pending)
    BY <1>0 DEF ArrowTracks
  <1>5. Together(expected, serial, res)
    <2>1. CASE pending = <<>>
      <3>1. ApplySerial(expected, From(state), <<>>) = From(state)
        <4>1. From(state) \in Results(expected) /\ <<>> \in Seq(InputRow)
          BY <1>3 DEF From, Results
        <4> QED BY <4>1, SerialSteps
      <3> QED BY <1>3, <1>4, <2>1, <3>1, FewBatches
    <2>2. CASE pending # <<>>
      <3>1. pending \in Slices
        BY <1>4, <2>2 DEF Waits, Slices
      <3> QED BY <1>3, <1>4, <2>2, <3>1, FewBatches
    <2> QED BY <2>1, <2>2
  <1> HIDE DEF rest, res, serial
  <1>6. /\ res.ok <=> serial.ok
        /\ serial.ok => serial.st = res.st /\ Tracked(serial.st)
        /\ res \in Results(expected)
    BY <1>5 DEF Together, Agree
  <1>7. serial.ok => (Unobserved(serial.st) = {} /\ Unreached(serial.st) = {} <=> expected \subseteq serial.st.reached)
    BY <1>6 DEF Tracked, Unobserved, Unreached
  <1>8. ClaimsCollide(spool) <=> RepeatedIds(Range(spool)) # {}
    BY DEF ClaimsCollide
  <1>9. \/ result'.status = "failed" /\ ~clean
        \/ result'.status = "empty"
        \/ /\ result'.status = "accepted" /\ clean
           /\ result'.accepted = 1..Len(spool) /\ result'.checkpoints = Checkpoints(serial.st, {})
    <2>1. Failed.status = "failed" /\ [Reading EXCEPT !.status = "empty"].status = "empty"
      BY DEF Failed, Reading
    <2> QED BY <1>2, <1>6, <1>7, <1>8, <2>1
  <1>10. state' \in States(expected)
    BY <1>2, <1>3, <1>6 DEF Results
  <1>11. BatchTypeOK'
    BY <1>0, <1>3, <1>10 DEF BatchTypeOK
  <1>12. ArrowTracks'
    BY <1>9 DEF ArrowTracks
  <1>13. ArrowIsSerial'
    BY <1>0, <1>9 DEF ArrowIsSerial, serial, Checkpoints
  <1>14. PublishedReplays'
    <2> SUFFICES ASSUME result'.status = "accepted"
                 PROVE  LET replay == Replay(expected, spool, result'.accepted) IN
                        /\ replay.ok
                        /\ \A a \in result'.accepted, r \in Range(spool) : r.id = spool[a].id /\ r.id # Unique => r.n = a
                        /\ \A e \in expected :
                             (\E a \in result'.accepted : spool[a].stream = e.stream) => e \in replay.st.reached
      BY <1>0 DEF PublishedReplays
    <2>1. clean /\ result'.accepted = 1..Len(spool)
      BY <1>9
    <2>2. \A i \in DOMAIN spool : spool[i].n \in result'.accepted
      BY <1>3, <2>1
    <2>3. Replay(expected, spool, result'.accepted) = serial
      BY <1>3, <2>2, KeepAll DEF serial
    <2>4. ASSUME NEW a \in result'.accepted, NEW r \in Range(spool), r.id = spool[a].id, r.id # Unique
          PROVE  r.n = a
      <3>1. spool[a] \in Range(spool) /\ spool[a].n = a
        BY <1>3, <2>1 DEF Range
      <3>2. r.n # a => r.id \in RepeatedIds(Range(spool))
        BY <2>4, <3>1 DEF RepeatedIds
      <3> QED BY <2>1, <3>2
    <2> QED BY <2>1, <2>3, <2>4
  <1> QED BY <1>11, <1>12, <1>13, <1>14

(***************************************************************************)
(* Every run.                                                              *)
(***************************************************************************)
BatchInv ==
  /\ BatchTypeOK /\ MappingTracks /\ ArrowTracks
  /\ PublishedReplays /\ QuarantineIsExact /\ ArrowIsSerial

LEMMA BatchInitInv == BatchInit => BatchInv
  <1> SUFFICES ASSUME BatchInit PROVE BatchInv
    OBVIOUS
  <1> USE DEF BatchInit
  <1>0. <<>> \in Seq(InputRow) /\ Nothing \in Results(expected) /\ {} \in SUBSET Streams
    BY FreshType
  <1>1. Fresh \in States(expected) /\ From(Fresh) = Nothing
    BY <1>0 DEF Nothing, From, Results
  <1>2. BatchTypeOK
    BY <1>0, <1>1 DEF BatchTypeOK
  <1>3. MappingTracks
    <2>1. Survivors(expected, <<>>, {}, {}) = [st |-> Fresh, bad |-> {}]
      <3>1. PICK none : none = {}
        OBVIOUS
      <3>2. none \in SUBSET Streams
        BY <3>1
      <3>3. Survivors(expected, <<>>, none, none) = Start(none)
        BY <1>0, <3>2, SurviveSteps
      <3> QED BY <3>1, <3>3 DEF Start
    <2>2. 1..Len(<<>>) = {}
      OBVIOUS
    <2> QED BY <2>1, <2>2 DEF MappingTracks
  <1>4. ArrowTracks
    <2>1. Tracked(Fresh)
      BY DEF Tracked, Fresh, Domains
    <2> QED BY <1>1, <2>1, NothingWaits DEF ArrowTracks
  <1>5. PublishedReplays /\ QuarantineIsExact /\ ArrowIsSerial
    BY DEF PublishedReplays, QuarantineIsExact, ArrowIsSerial, Reading
  <1> QED BY <1>2, <1>3, <1>4, <1>5 DEF BatchInv

LEMMA BatchNextInv == BatchInv /\ [BatchNext]_batchVars => BatchInv'
  <1> SUFFICES ASSUME BatchInv, [BatchNext]_batchVars PROVE BatchInv'
    OBVIOUS
  <1>0. BatchTypeOK /\ MappingTracks /\ ArrowTracks /\ PublishedReplays /\ QuarantineIsExact /\ ArrowIsSerial
    BY DEF BatchInv
  <1>1. CASE ReadRecord
    <2>1. BatchTypeOK' /\ MappingTracks'
      BY <1>0, <1>1, ReadRecordTracks
    <2>2. result'.status = "reading" /\ mode' = "mapping"
      BY <1>1 DEF ReadRecord
    <2>3. ArrowTracks' /\ PublishedReplays' /\ QuarantineIsExact' /\ ArrowIsSerial'
      BY <2>2 DEF ArrowTracks, PublishedReplays, QuarantineIsExact, ArrowIsSerial
    <2> QED BY <2>1, <2>3 DEF BatchInv
  <1>2. CASE FinishMapping
    <2>1. PublishedReplays' /\ QuarantineIsExact'
      BY <1>0, <1>2, FinishMappingReplays, FinishMappingIsExact
    <2>2. BatchTypeOK' /\ MappingTracks'
      BY <1>0, <1>2 DEF FinishMapping, BatchTypeOK, MappingTracks
    <2>3. ArrowTracks' /\ ArrowIsSerial'
      BY <1>2 DEF FinishMapping, ArrowTracks, ArrowIsSerial
    <2> QED BY <2>1, <2>2, <2>3 DEF BatchInv
  <1>3. CASE ReadBatch
    <2>1. BatchTypeOK' /\ ArrowTracks' /\ ArrowIsSerial' /\ result'.status \in {"reading", "failed"}
      BY <1>0, <1>3, ReadBatchTracks
    <2>2. mode' = "arrow"
      BY <1>3 DEF ReadBatch
    <2>3. MappingTracks' /\ PublishedReplays' /\ QuarantineIsExact'
      BY <2>1, <2>2 DEF MappingTracks, PublishedReplays, QuarantineIsExact
    <2> QED BY <2>1, <2>3 DEF BatchInv
  <1>4. CASE FinishArrow
    <2>1. BatchTypeOK' /\ ArrowTracks' /\ ArrowIsSerial' /\ PublishedReplays'
      BY <1>0, <1>4, FinishArrowIsSerial
    <2>2. MappingTracks' /\ QuarantineIsExact'
      BY <1>4 DEF FinishArrow, MappingTracks, QuarantineIsExact
    <2> QED BY <2>1, <2>2 DEF BatchInv
  <1>5. CASE BatchDone \/ UNCHANGED batchVars
    <2>1. UNCHANGED batchVars
      BY <1>5 DEF BatchDone
    <2>2. BatchTypeOK' /\ MappingTracks' /\ ArrowTracks'
      BY <1>0, <2>1 DEF batchVars, BatchTypeOK, MappingTracks, ArrowTracks
    <2>3. PublishedReplays' /\ QuarantineIsExact' /\ ArrowIsSerial'
      BY <1>0, <2>1 DEF batchVars, PublishedReplays, QuarantineIsExact, ArrowIsSerial,
         Checkpoints
    <2> QED BY <2>2, <2>3 DEF BatchInv
  <1> QED BY <1>1, <1>2, <1>3, <1>4, <1>5 DEF BatchNext

LEMMA BatchKeepsInv == BatchSpec => []BatchInv
  BY BatchInitInv, BatchNextInv, PTL DEF BatchSpec

\* What the validator publishes replays from nothing, in the order of the input: the
\* removal of repeated records and of failed streams opens no gap, no event id of it
\* occurs anywhere else in the input, and every expected checkpoint of a published
\* stream is met; for any rows, streams and expectations, through both entry points.
THEOREM WhatIsPublishedReplays == BatchSpec => []PublishedReplays
  <1>1. BatchInv => PublishedReplays
    BY DEF BatchInv
  <1> QED BY <1>1, BatchKeepsInv, PTL

\* The Mapping entry point refuses streams as a whole, except for records whose id comes
\* twice, and refuses nothing when the input passes one record at a time, whatever the
\* rows and however they are interleaved.
THEOREM WhatIsQuarantinedIsExact == BatchSpec => []QuarantineIsExact
  <1>1. BatchInv => QuarantineIsExact
    BY DEF BatchInv
  <1> QED BY <1>1, BatchKeepsInv, PTL

\* The Arrow entry point accepts exactly the inputs that pass one record at a time with
\* ids of their own and every expected checkpoint met, and with the same checkpoints,
\* wherever the input is cut into batches, however rows are grouped into updates and
\* whichever way a batch is applied.
THEOREM ArrowMatchesOneByOne == BatchSpec => []ArrowIsSerial
  <1>1. BatchInv => ArrowIsSerial
    BY DEF BatchInv
  <1> QED BY <1>1, BatchKeepsInv, PTL
===============================================================================
