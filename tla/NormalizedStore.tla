--------------------------- MODULE NormalizedStore ---------------------------
(***************************************************************************)
(* Publication of normalized snapshots beside their event-claim indexes    *)
(* (normalized_v3.py, data_lake.py).                                       *)
(*                                                                         *)
(* A writer stages a snapshot and the index of its event claims, takes the *)
(* lake-wide commit lock, compares its claims with those of every snapshot *)
(* that is published, publishes the index, then the snapshot, and loads it *)
(* back without the lock.  An index only speeds the comparison up: when it *)
(* is lost, a call that has a storage policy rebuilds it from its snapshot *)
(* under the lock of that index.  Readers load snapshots at any time.      *)
(* Processes die and leave indexes without snapshots, indexes moved aside  *)
(* and stages; directory renames fail; the capacity check may refuse.      *)
(***************************************************************************)
EXTENDS Naturals, FiniteSets

CONSTANTS
  Procs,       \* processes that write and read the lake
  Batches,     \* the snapshots that can be published, by their content
  Legacy,      \* those published in the old layout before the first call
  Conflicts,   \* pairs of batches that give one event id two contents
  None,        \* no process, no batch
  MaxCalls,    \* bound: calls of all processes
  MaxCrashes,  \* bound: deaths of a process
  MaxFaults,   \* bound: renames that fail and capacity refusals
  MaxDamage    \* bound: losses of index files

ASSUME StoreAssumption ==
  /\ Legacy \subseteq Batches /\ None \notin Procs \union Batches
  /\ Conflicts \subseteq Batches \X Batches
  /\ \A c \in Conflicts : <<c[2], c[1]>> \in Conflicts /\ c[1] # c[2]
  /\ \A b, c \in Legacy : <<b, c>> \notin Conflicts
  /\ MaxCalls \in Nat /\ MaxCrashes \in Nat /\ MaxFaults \in Nat /\ MaxDamage \in Nat

VARIABLES
  snapshots,  \* the published batches
  index,      \* the claim index of each batch: absent, partial or whole
  commit,     \* holder of the lake-wide commit lock
  indexLock,  \* holder of the lock of each index
  proc,       \* what each process does
  stages,     \* staging directories on disk
  owned,      \* staging directories whose owner lock is held
  lost,       \* batches whose index lost files, or was being moved by a dead process
  calls, crashes, faults, damage

vars == <<snapshots, index, commit, indexLock, proc, stages, owned, lost,
          calls, crashes, faults, damage>>

Idle == [pc |-> "idle", batch |-> None, target |-> None, todo |-> {}, stage |-> 0,
         policy |-> FALSE, preexisted |-> FALSE, outcome |-> "none"]

Init ==
  /\ snapshots = Legacy
  /\ index = [b \in Batches |-> "absent"]
  /\ commit = None
  /\ indexLock = [b \in Batches |-> None]
  /\ proc = [p \in Procs |-> Idle]
  /\ stages = {} /\ owned = {} /\ lost = {}
  /\ calls = 0 /\ crashes = 0 /\ faults = 0 /\ damage = 0

Lake == <<snapshots, index, commit, indexLock>>
Dirs == <<stages, owned>>
Counts == <<lost, calls, crashes, faults, damage>>

\* The index of b passes its validation; nothing else is loaded or compared.
Whole(b) == index[b] = "whole"

\* The claims of b and c give one event id two contents.
Disagree(b, c) == <<b, c>> \in Conflicts

At(p, pc) == proc[p].pc = pc
Goto(p, pc) == proc' = [proc EXCEPT ![p].pc = pc]
Writing(p) == proc[p].batch # None

\* Mutation of End: an error leaves the commit lock behind.
EndKeepingCommit(p, outcome) ==
  /\ proc' = [proc EXCEPT ![p] = [@ EXCEPT !.pc = IF Writing(p) THEN "retire" ELSE "idle",
                                           !.outcome = outcome, !.target = None, !.todo = {}]]
  /\ commit' = IF commit = p /\ outcome # "error" THEN None ELSE commit

\* A writer that fails or succeeds leaves the commit lock and retires its stage.
End(p, outcome) ==
  /\ proc' = [proc EXCEPT ![p] = [@ EXCEPT !.pc = IF Writing(p) THEN "retire" ELSE "idle",
                                           !.outcome = outcome, !.target = None, !.todo = {}]]
  /\ commit' = IF commit = p THEN None ELSE commit

(***************************************************************************)
(* Stages.                                                                 *)
(***************************************************************************)
\* A new stage has an owner lock before it exists; what no lock protects is
\* collected first.  All of it happens under the collector's lock.
Abandoned == stages \ owned

NewStage == calls + 1

StartWrite(p, b) ==
  /\ At(p, "idle") /\ calls < MaxCalls /\ b \notin Legacy
  /\ calls' = calls + 1
  /\ LET stage == NewStage IN
     /\ stages' = (stages \ Abandoned) \union {stage}
     /\ owned' = owned \union {stage}
     /\ proc' = [proc EXCEPT ![p] = [Idle EXCEPT !.pc = "staged", !.batch = b,
                                                 !.stage = stage, !.policy = TRUE]]
  /\ UNCHANGED <<Lake, lost, crashes, faults, damage>>

Retire(p) ==
  /\ At(p, "retire")
  /\ stages' = stages \ {proc[p].stage}
  /\ owned' = owned \ {proc[p].stage}
  /\ proc' = [proc EXCEPT ![p] = [Idle EXCEPT !.outcome = proc[p].outcome]]
  /\ UNCHANGED <<Lake, Counts>>
(***************************************************************************)
(* The commit of a writer.                                                 *)
(***************************************************************************)
EnterCommit(p) ==
  /\ At(p, "staged") /\ commit = None
  /\ commit' = p
  /\ proc' = [proc EXCEPT ![p] = [@ EXCEPT
       !.pc = IF proc[p].batch \in snapshots THEN "existing" ELSE "history",
       !.todo = snapshots]]
  /\ UNCHANGED <<snapshots, index, indexLock, Dirs, Counts>>

\* The same content is published already: it is loaded, without a policy.
LoadExisting(p) ==
  /\ At(p, "existing")
  /\ End(p, IF Whole(proc[p].batch) THEN "published" ELSE "error")
  /\ UNCHANGED <<snapshots, index, indexLock, Dirs, Counts>>

\* The index of a published snapshot is used, or rebuilt when it is not there.
CheckHistory(p) ==
  /\ At(p, "history")
  /\ \E h \in proc[p].todo :
       proc' = [proc EXCEPT ![p] =
                  IF Whole(h) THEN [proc[p] EXCEPT !.todo = proc[p].todo \ {h}]
                  ELSE [@ EXCEPT !.pc = "rebuild", !.target = h]]
  /\ UNCHANGED <<Lake, Dirs, Counts>>

\* Claims of published snapshots only: an index alone refuses nobody.
Historical == snapshots

\* Mutation of ClaimConflict: an index that was there before is taken for checked.
ClaimConflictUnlessIndexed(b) ==
  index[b] = "absent" /\ \E h \in Historical \ {b} : Disagree(b, h)
ClaimConflict(b) == \E h \in Historical \ {b} : Disagree(b, h)

JudgeClaims(p) ==
  /\ At(p, "history") /\ proc[p].todo = {}
  /\ IF ClaimConflict(proc[p].batch)
     THEN End(p, "conflict")
     ELSE /\ proc' = [proc EXCEPT ![p] = [@ EXCEPT !.pc = "rebuild", !.target = proc[p].batch,
                                         !.preexisted = index[proc[p].batch] # "absent"]]
          /\ UNCHANGED commit
  /\ UNCHANGED <<snapshots, index, indexLock, Dirs, Counts>>

\* Mutation of Publishable: the snapshot may come before its index.
PublishableEarly(p) ==
  At(p, "indexed") \/ (At(p, "rebuild") /\ proc[p].target = proc[p].batch)
Publishable(p) == At(p, "indexed")

\* The snapshot becomes visible; the commit lock is released.
PublishSnapshot(p) ==
  /\ Publishable(p)
  /\ snapshots' = snapshots \union {proc[p].batch}
  /\ Goto(p, "verify")
  /\ commit' = None
  /\ UNCHANGED <<index, indexLock, Dirs, Counts>>

\* A rename that fails takes a new index back; a capacity refusal does not.
RolledBack(p, error) == error = "rename" /\ ~proc[p].preexisted

PublishSnapshotFails(p) ==
  /\ At(p, "indexed") /\ faults < MaxFaults
  /\ faults' = faults + 1
  /\ \E error \in {"rename", "capacity"} :
       index' = IF RolledBack(p, error) THEN [index EXCEPT ![proc[p].batch] = "absent"]
                                        ELSE index
  /\ End(p, "error")
  /\ UNCHANGED <<snapshots, indexLock, Dirs, lost, calls, crashes, damage>>

Verify(p) ==
  /\ At(p, "verify")
  /\ End(p, IF Whole(proc[p].batch) THEN "published" ELSE "unverified")
  /\ UNCHANGED <<snapshots, index, indexLock, Dirs, Counts>>
(***************************************************************************)
(* Loads, and the index of one snapshot.                                   *)
(***************************************************************************)
StartLoad(p, b, policy) ==
  /\ At(p, "idle") /\ calls < MaxCalls /\ b \in snapshots \ Legacy
  /\ calls' = calls + 1
  /\ proc' = [proc EXCEPT ![p] = [Idle EXCEPT !.pc = "load", !.target = b, !.policy = policy]]
  /\ UNCHANGED <<Lake, Dirs, lost, crashes, faults, damage>>

\* The claims of the snapshot are computed, then its index is compared with them.
Load(p) ==
  /\ At(p, "load")
  /\ IF Whole(proc[p].target) THEN End(p, "loaded")
     ELSE Goto(p, "rebuild") /\ UNCHANGED commit
  /\ UNCHANGED <<snapshots, index, indexLock, Dirs, Counts>>

LockIndex(p) ==
  /\ At(p, "rebuild") /\ indexLock[proc[p].target] = None
  /\ indexLock' = [indexLock EXCEPT ![proc[p].target] = p]
  /\ Goto(p, "locked")
  /\ UNCHANGED <<snapshots, index, commit, Dirs, Counts>>

\* Who asked for the index goes on.
Resume(p) ==
  /\ indexLock' = [indexLock EXCEPT ![proc[p].target] = None]
  /\ IF ~Writing(p) THEN End(p, "loaded")
     ELSE /\ proc' = [proc EXCEPT ![p] =
               [@ EXCEPT !.pc = IF proc[p].target = proc[p].batch THEN "indexed" ELSE "history",
                         !.todo = proc[p].todo \ {proc[p].target}, !.target = None]]
          /\ UNCHANGED commit

\* Somebody else published a whole index in the meantime, or a writer that died.
IndexFound(p) ==
  /\ At(p, "locked") /\ Whole(proc[p].target)
  /\ Resume(p)
  /\ UNCHANGED <<snapshots, index, Dirs, Counts>>

GiveUpIndex(p) ==
  /\ indexLock' = [indexLock EXCEPT ![proc[p].target] = None]
  /\ End(p, "error")
  /\ UNCHANGED <<snapshots, index, Dirs>>

\* Mutation of Recoverable: an index that lost some of its files stays as it is.
RecoverableIfAbsent(p) == proc[p].policy /\ index[proc[p].target] = "absent"
Recoverable(p) == proc[p].policy

NeedsPolicy(p) ==
  /\ At(p, "locked") /\ ~Whole(proc[p].target) /\ ~Recoverable(p)
  /\ GiveUpIndex(p)
  /\ UNCHANGED Counts

\* What is left of the index is kept as evidence before a new one is published.
MoveAside(p) ==
  /\ At(p, "locked") /\ index[proc[p].target] = "partial" /\ Recoverable(p)
  /\ index' = [index EXCEPT ![proc[p].target] = "absent"]
  /\ Goto(p, "aside")
  /\ UNCHANGED <<snapshots, commit, indexLock, Dirs, Counts>>

IndexWanted(p) == \/ At(p, "aside")
                  \/ At(p, "locked") /\ index[proc[p].target] = "absent" /\ Recoverable(p)

PublishIndex(p) ==
  /\ IndexWanted(p)
  /\ index' = [index EXCEPT ![proc[p].target] = "whole"]
  /\ Resume(p)
  /\ UNCHANGED <<snapshots, Dirs, Counts>>

PublishIndexFails(p) ==
  /\ IndexWanted(p) /\ faults < MaxFaults
  /\ faults' = faults + 1
  /\ lost' = lost \union ({proc[p].target} \intersect snapshots)
  /\ GiveUpIndex(p)
  /\ UNCHANGED <<calls, crashes, damage>>
(***************************************************************************)
(* The environment.                                                        *)
(***************************************************************************)
\* The death of a process frees its locks; its directories stay as they are.
Crash(p) ==
  /\ ~At(p, "idle") /\ crashes < MaxCrashes
  /\ crashes' = crashes + 1
  /\ commit' = IF commit = p THEN None ELSE commit
  /\ indexLock' = [b \in Batches |-> IF indexLock[b] = p THEN None ELSE indexLock[b]]
  /\ owned' = owned \ {proc[p].stage}
  /\ lost' = IF At(p, "aside") THEN lost \union {proc[p].target} ELSE lost
  /\ proc' = [proc EXCEPT ![p] = Idle]
  /\ UNCHANGED <<snapshots, index, stages, calls, faults, damage>>

\* Files of an index disappear, or all of it.
Damage(b) ==
  /\ index[b] = "whole" /\ damage < MaxDamage
  /\ damage' = damage + 1
  /\ lost' = lost \union {b}
  /\ \E left \in {"absent", "partial"} : index' = [index EXCEPT ![b] = left]
  /\ UNCHANGED <<snapshots, commit, indexLock, proc, Dirs, calls, crashes, faults>>
-----------------------------------------------------------------------------
Proceed(p) ==
  \/ EnterCommit(p) \/ LoadExisting(p) \/ CheckHistory(p) \/ JudgeClaims(p)
  \/ PublishSnapshot(p) \/ Verify(p) \/ Retire(p)
  \/ Load(p) \/ LockIndex(p) \/ IndexFound(p) \/ NeedsPolicy(p) \/ MoveAside(p)
  \/ PublishIndex(p)

\* The bound on calls is reached and nobody is busy.
Quiet == calls = MaxCalls /\ (\A p \in Procs : At(p, "idle")) /\ UNCHANGED vars

Next ==
  \/ \E p \in Procs :
       \/ Proceed(p) \/ PublishSnapshotFails(p) \/ PublishIndexFails(p) \/ Crash(p)
       \/ \E b \in Batches : StartWrite(p, b) \/ \E policy \in BOOLEAN : StartLoad(p, b, policy)
  \/ \E b \in Batches : Damage(b)
  \/ Quiet

Spec == Init /\ [][Next]_vars
FairSpec == Spec /\ \A p \in Procs : WF_vars(Proceed(p))
-----------------------------------------------------------------------------

\* No two published snapshots give one event id two contents, whichever writers
\* died between their index and their snapshot and were run again
\* (_assert_lake_wide_claims under the commit lock).
NoConflictingClaims == \A b, c \in snapshots : <<b, c>> \notin Conflicts

\* A published snapshot has its whole index unless files of it were lost, or a
\* process that rebuilt it was stopped half-way: a commit never shows a snapshot
\* whose claims are still to come, and a rollback never takes the index of a
\* snapshot that others can see.
SnapshotHasIndex ==
  \A b \in snapshots \ Legacy :
    \/ index[b] = "whole" \/ b \in lost
    \/ \E p \in Procs : indexLock[b] = p

\* A load that has a policy gives a published snapshot back whatever happened to
\* its index before, unless a rename or the capacity check fails during the load.
RecoverableLoad ==
  [][\A p \in Procs :
       proc[p].policy /\ ~Writing(p) /\ proc[p].pc # "idle" /\ proc'[p].outcome = "error" =>
         faults' > faults]_vars

\* Every call ends: no order of the locks of commits, loads and rebuilds blocks it,
\* and the lock of a dead process is free.
CallsEnd == \A p \in Procs : []<>(proc[p].pc = "idle")
=============================================================================
