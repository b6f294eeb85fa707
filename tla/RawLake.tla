------------------------------ MODULE RawLake ------------------------------
(***************************************************************************)
(* The Raw layer of data_lake.py: write_raw_bytes, the cleanup of archived *)
(* objects and the readers, run by several processes on one lake.          *)
(*                                                                         *)
(* Writers and cleanups of a key hold its process lock, which the operating*)
(* system releases when they die; readers hold nothing.  The quota check   *)
(* and the rename that publishes an object are one step under the capacity *)
(* tree lock.  A directory is modelled by what _load_raw_from_dir checks:  *)
(* the content its manifest names, the files in it and whether the payload *)
(* still has its hash.  Sizes count payloads.                              *)
(***************************************************************************)
EXTENDS Naturals, Sequences, FiniteSets

CONSTANTS
  Procs,       \* processes
  Keys,        \* (source, idempotency key) pairs
  Contents,    \* payload and metadata a caller may write under a key
  Receipts,    \* archive receipts a cleanup may be called with
  Quota,       \* hot_quota_bytes, in payloads
  LegacyKeys,  \* keys an older version may have left half deleted in place
  MaxCrashes,  \* bound: processes killed
  MaxFaults,   \* bound: I/O errors and refusals by the free-space floor
  MaxDamage,   \* bound: published payloads changed from outside
  None

ASSUME LakeAssumption ==
  /\ Quota \in Nat /\ MaxCrashes \in Nat /\ MaxFaults \in Nat /\ MaxDamage \in Nat
  /\ LegacyKeys \subseteq Keys
  /\ None \notin Contents /\ None \notin Receipts /\ None \notin Procs

Files == {"payload", "manifest"}

Dir == [content : Contents, files : SUBSET Files, sound : BOOLEAN]

ASSUME NoneIsNoDirectory == None \notin Dir

VARIABLES
  \* The lake.
  claim,     \* key-claims/...: the content a key is bound to
  stages,    \* raw/.staging/raw-<key>-*
  object,    \* object=<id>
  deleting,  \* deleting=<id>
  tomb,      \* object=<id>.cleanup.json: the receipt it records
  aside,     \* payloads in quarantine/raw-unpublished
  archive,   \* whether the archive volume holds a verified copy (external)
  \* The processes.
  lock,      \* holder of the raw-key lock
  pc,        \* what each process is about to do
  key,       \* the key it works on
  arg,       \* the content it writes or the receipt it cleans with
  \* History, read by no action.
  acked,     \* writes acknowledged, and not damaged since
  calm,      \* reads of a resolvable key whose directories have not moved since
  \* The environment.
  crashes, faults, damage

lake  == <<claim, stages, object, deleting, tomb, aside, archive>>
procs == <<lock, pc, key, arg>>
env   == <<crashes, faults, damage>>
vars  == <<lake, procs, acked, calm, env>>

WritePC   == {"claim", "bind", "check", "recover", "recovered", "existing", "capacity", "payload",
              "manifest", "publish", "reply"}
CleanupPC == {"judge", "rename", "tomb", "unlink payload", "unlink manifest", "rmdir"}
ReadPC    == {"find", "find archived", "load", "load archived", "bytes", "tombed", "leaving"}
LockedPC  == WritePC \cup CleanupPC

LakeTypeOK ==
  /\ claim \in [Keys -> Contents \cup {None}]
  /\ stages \in [Keys -> Seq(Dir)]
  /\ object \in [Keys -> Dir \cup {None}] /\ deleting \in [Keys -> Dir \cup {None}]
  /\ tomb \in [Keys -> Receipts \cup {None}]
  /\ aside \in Nat
  /\ archive \in [Keys -> BOOLEAN]

ProcsTypeOK ==
  /\ lock \in [Keys -> Procs \cup {None}]
  /\ pc \in [Procs -> {"idle", "returned", "failed"} \cup LockedPC \cup ReadPC]
  /\ key \in [Procs -> Keys]
  /\ arg \in [Procs -> Contents \cup Receipts \cup {None}]

TypeOK ==
  /\ LakeTypeOK /\ ProcsTypeOK
  /\ acked \in [Keys -> BOOLEAN] /\ calm \in [Procs -> BOOLEAN]
  /\ crashes \in 0..MaxCrashes /\ faults \in 0..MaxFaults /\ damage \in 0..MaxDamage

(* A lake without the key, or one in which an older version wrote the      *)
(* tombstone and died while it deleted the object in place.                *)
Init ==
  /\ stages = [k \in Keys |-> <<>>] /\ deleting = [k \in Keys |-> None]
  /\ aside = 0
  /\ \E old \in [LegacyKeys -> BOOLEAN], c \in Contents, r \in Receipts, f \in SUBSET Files :
       LET Old(k) == k \in LegacyKeys /\ old[k]
       IN /\ claim = [k \in Keys |-> IF Old(k) THEN c ELSE None]
          /\ tomb = [k \in Keys |-> IF Old(k) THEN r ELSE None]
          /\ archive = [k \in Keys |-> Old(k)]
          /\ object = [k \in Keys |-> IF Old(k)
                                      THEN [content |-> c, files |-> f, sound |-> TRUE] ELSE None]
  /\ acked = [k \in Keys |-> FALSE]
  /\ lock = [k \in Keys |-> None] /\ pc = [p \in Procs |-> "idle"]
  /\ key \in [Procs -> Keys] /\ arg = [p \in Procs |-> None]
  /\ calm = [p \in Procs |-> FALSE]
  /\ crashes = 0 /\ faults = 0 /\ damage = 0

-----------------------------------------------------------------------------
(* _load_raw_from_dir succeeds for a reference to content c. *)
Loads(d, c) == d # None /\ d.content = c /\ d.files = Files /\ d.sound

(* _tree_size, in payloads: raw/.staging is transient and does not count. *)
Payloads(dirs) == Cardinality({k \in Keys : dirs[k] # None /\ "payload" \in dirs[k].files})

HotSize == Payloads(object) + Payloads(deleting) + aside

(* The directory a reader or a retry finds. *)
Whole(c) == [content |-> c, files |-> Files, sound |-> TRUE]

Fault == faults < MaxFaults /\ faults' = faults + 1

At(p, label) == pc[p] = label

\* The process is in no call; a read leaves its outcome behind.
Free(p) == pc[p] \in {"idle", "returned", "failed"}

Goto(p, label) == pc' = [pc EXCEPT ![p] = label]

(* The call of a writer or a cleanup ends and releases the key. *)
Leave(p) ==
  /\ Goto(p, "idle")
  /\ lock' = [lock EXCEPT ![key[p]] = None]

Stay == UNCHANGED lock

-----------------------------------------------------------------------------
(* write_raw_bytes. *)

Acquire(p, k, a, label) ==
  /\ Free(p) /\ lock[k] = None
  /\ lock' = [lock EXCEPT ![k] = p]
  /\ key' = [key EXCEPT ![p] = k] /\ arg' = [arg EXCEPT ![p] = a]
  /\ Goto(p, label)

WriteCall(p, k, c) ==
  /\ Acquire(p, k, c, "claim")
  /\ UNCHANGED <<lake, acked, env>>

MayClaim(p) == claim[key[p]] \in {None, arg[p]}

(* _ensure_raw_key_claim: an existing claim must be for this content.      *)
FindClaim(p) ==
  /\ At(p, "claim")
  /\ IF ~MayClaim(p) THEN Leave(p)
     ELSE Goto(p, IF claim[key[p]] = arg[p] THEN "check" ELSE "bind") /\ Stay
  /\ UNCHANGED <<lake, key, arg, acked, env>>

BindKey(p) ==
  /\ At(p, "bind")
  /\ claim' = [claim EXCEPT ![key[p]] = arg[p]]
  /\ Goto(p, "check")
  /\ UNCHANGED <<stages, object, deleting, tomb, aside, archive, lock, key, arg, acked, env>>

Retired(k) == tomb[k] # None \/ deleting[k] # None

CheckRetired(p) ==
  /\ At(p, "check")
  /\ IF Retired(key[p]) THEN Leave(p) ELSE Goto(p, "recover") /\ Stay
  /\ UNCHANGED <<lake, key, arg, acked, env>>

RoomForOne == HotSize + 1 <= Quota

(* _recover_raw_staging, one stage an earlier writer died with.            *)
RecoverStage(p) ==
  LET k == key[p]
      found == Head(stages[k])
  IN
  /\ pc[p] \in {"recover", "recovered"} /\ stages[k] # <<>>
  /\ IF ~Loads(found, arg[p])
     THEN /\ stages' = [stages EXCEPT ![k] = Tail(@)]
          /\ aside' = aside + (IF "payload" \in found.files THEN 1 ELSE 0)
          /\ Stay /\ UNCHANGED <<object, pc>>
     ELSE IF object[k] # None
     THEN /\ UNCHANGED <<object, aside>>
          /\ IF Loads(object[k], arg[p])
             THEN /\ stages' = [stages EXCEPT ![k] = Tail(@)]
                  /\ Goto(p, "recovered") /\ Stay
             ELSE Leave(p) /\ UNCHANGED stages
     ELSE /\ UNCHANGED aside
          /\ IF RoomForOne
             THEN /\ stages' = [stages EXCEPT ![k] = Tail(@)]
                  /\ object' = [object EXCEPT ![k] = found]
                  /\ Goto(p, "recovered") /\ Stay
             ELSE Leave(p) /\ UNCHANGED <<stages, object>>
  /\ UNCHANGED <<claim, deleting, tomb, archive, key, arg, acked, env>>

RecoverDone(p) ==
  /\ pc[p] \in {"recover", "recovered"} /\ stages[key[p]] = <<>>
  /\ Goto(p, IF At(p, "recovered") THEN "reply" ELSE "existing") /\ Stay
  /\ UNCHANGED <<lake, key, arg, acked, env>>

(* An object is already there: it is returned, or put aside if it no       *)
(* longer loads.                                                           *)
Existing(p) ==
  LET k == key[p] IN
  /\ At(p, "existing")
  /\ IF object[k] = None
     THEN Goto(p, "capacity") /\ UNCHANGED <<object, aside>>
     ELSE IF Loads(object[k], arg[p])
     THEN Goto(p, "reply") /\ UNCHANGED <<object, aside>>
     ELSE /\ object' = [object EXCEPT ![k] = None]
          /\ aside' = aside + (IF "payload" \in object[k].files THEN 1 ELSE 0)
          /\ Goto(p, "capacity")
  /\ UNCHANGED <<claim, stages, deleting, tomb, archive, lock, key, arg, acked, env>>

CheckCapacity(p) ==
  /\ At(p, "capacity")
  /\ IF HotSize + 1 <= Quota THEN Goto(p, "payload") /\ Stay ELSE Leave(p)
  /\ UNCHANGED <<lake, key, arg, acked, env>>

StagePayload(p) ==
  /\ At(p, "payload")
  /\ stages' = [stages EXCEPT ![key[p]] =
                  Append(@, [content |-> arg[p], files |-> {"payload"}, sound |-> TRUE])]
  /\ Goto(p, "manifest")
  /\ UNCHANGED <<claim, object, deleting, tomb, aside, archive, lock, key, arg, acked, env>>

OwnStage(p) == Len(stages[key[p]])

StageManifest(p) ==
  /\ At(p, "manifest")
  /\ stages' = [stages EXCEPT ![key[p]][OwnStage(p)].files = Files]
  /\ Goto(p, "publish")
  /\ UNCHANGED <<claim, object, deleting, tomb, aside, archive, lock, key, arg, acked, env>>

RemoveOwnStage(p) ==
  stages' = [stages EXCEPT ![key[p]] = SubSeq(@, 1, OwnStage(p) - 1)]

(* _publish_tree_entry: the quota check and the rename are one step.       *)
PublishObject(p) ==
  /\ At(p, "publish")
  /\ RemoveOwnStage(p)
  /\ IF RoomForOne
     THEN /\ object' = [object EXCEPT ![key[p]] = stages[key[p]][OwnStage(p)]]
          /\ Goto(p, "reply") /\ Stay
     ELSE Leave(p) /\ UNCHANGED object
  /\ UNCHANGED <<claim, deleting, tomb, aside, archive, key, arg, acked, env>>

Reply(p) ==
  /\ At(p, "reply")
  /\ acked' = [acked EXCEPT ![key[p]] = @ \/ Loads(object[key[p]], arg[p])]
  /\ Leave(p)
  /\ UNCHANGED <<lake, key, arg, env>>

(* An I/O error or the free-space floor ends the call; its stage is removed. *)
WriteFails(p) ==
  /\ pc[p] \in WritePC /\ Fault
  /\ IF pc[p] \in {"manifest", "publish"} THEN RemoveOwnStage(p) ELSE UNCHANGED stages
  /\ Leave(p)
  /\ UNCHANGED <<claim, object, deleting, tomb, aside, archive, key, arg, acked, crashes, damage>>

Write(p) ==
  \/ FindClaim(p) \/ BindKey(p) \/ CheckRetired(p) \/ RecoverStage(p) \/ RecoverDone(p) \/ Existing(p)
  \/ CheckCapacity(p) \/ StagePayload(p) \/ StageManifest(p) \/ PublishObject(p) \/ Reply(p)

-----------------------------------------------------------------------------
(* cleanup_archived_raw_object. *)

CleanupCall(p, k, r) ==
  /\ Acquire(p, k, r, "judge")
  /\ UNCHANGED <<lake, acked, env>>

ToDeleting(k) ==
  /\ deleting' = [deleting EXCEPT ![k] = object[k]]
  /\ object' = [object EXCEPT ![k] = None]

\* Mutation of JudgeArchived: a tombstone means that there is nothing left to do.
JudgeArchivedDone(p) ==
  /\ At(p, "judge") /\ tomb[key[p]] # None
  /\ Leave(p)
  /\ UNCHANGED <<lake, key, arg, acked, env>>

(* The tombstone is there: an interrupted cleanup is resumed, with the same *)
(* receipt only.                                                            *)
JudgeArchived(p) ==
  LET k == key[p]
      refused == tomb[k] # arg[p] \/ ~archive[k] \/ (object[k] # None /\ deleting[k] # None)
  IN
  /\ At(p, "judge") /\ tomb[k] # None
  /\ \/ refused /\ Leave(p) /\ UNCHANGED <<object, deleting>>
     \/ ~refused /\ object[k] # None /\ ToDeleting(k) /\ Goto(p, "unlink payload") /\ Stay
     \/ /\ ~refused /\ object[k] = None /\ UNCHANGED <<object, deleting>>
        /\ IF deleting[k] # None THEN Goto(p, "unlink payload") /\ Stay ELSE Leave(p)
  /\ UNCHANGED <<claim, stages, tomb, aside, archive, key, arg, acked, env>>

\* Mutation of Cleanable: the receipt is believed without reading the archive.
CleanableUnverified(dirs, k) == dirs[k] # None /\ Loads(dirs[k], claim[k])

Cleanable(dirs, k) == dirs[k] # None /\ Loads(dirs[k], claim[k]) /\ archive[k]

(* Without a tombstone an interrupted cleanup is resumed from its deleting  *)
(* directory, and a new one starts from the object.                         *)
Judge(p) ==
  LET k == key[p] IN
  /\ At(p, "judge") /\ tomb[k] = None
  /\ IF deleting[k] # None
     THEN IF Cleanable(deleting, k) THEN Goto(p, "tomb") /\ Stay ELSE Leave(p)
     ELSE IF Cleanable(object, k) THEN Goto(p, "rename") /\ Stay ELSE Leave(p)
  /\ UNCHANGED <<lake, key, arg, acked, env>>

\* Mutation of AfterRename: the payload is unlinked before the tombstone exists.
AfterRenameUnlink == "unlink payload"

AfterRename == "tomb"

RenameObject(p) ==
  /\ At(p, "rename")
  /\ ToDeleting(key[p])
  /\ Goto(p, AfterRename)
  /\ UNCHANGED <<claim, stages, tomb, aside, archive, lock, key, arg, acked, env>>

WriteTombstone(p) ==
  /\ At(p, "tomb")
  /\ tomb' = [tomb EXCEPT ![key[p]] = arg[p]]
  /\ Goto(p, "unlink payload")
  /\ UNCHANGED <<claim, stages, object, deleting, aside, archive, lock, key, arg, acked, env>>

(* _finalize_raw_deleting, one file at a time; a payload that changed is    *)
(* not unlinked.                                                            *)
UnlinkPayload(p) ==
  LET k == key[p]
      there == "payload" \in deleting[k].files
  IN
  /\ At(p, "unlink payload")
  /\ IF there /\ ~deleting[k].sound
     THEN Leave(p) /\ UNCHANGED deleting
     ELSE /\ deleting' = [deleting EXCEPT ![k].files = @ \ {"payload"}]
          /\ Goto(p, "unlink manifest") /\ Stay
  /\ UNCHANGED <<claim, stages, object, tomb, aside, archive, key, arg, acked, env>>

UnlinkManifest(p) ==
  /\ At(p, "unlink manifest")
  /\ deleting' = [deleting EXCEPT ![key[p]].files = @ \ {"manifest"}]
  /\ Goto(p, "rmdir")
  /\ UNCHANGED <<claim, stages, object, tomb, aside, archive, lock, key, arg, acked, env>>

RemoveDeleting(p) ==
  /\ At(p, "rmdir")
  /\ deleting' = [deleting EXCEPT ![key[p]] = None]
  /\ Leave(p)
  /\ UNCHANGED <<claim, stages, object, tomb, aside, archive, key, arg, acked, env>>

CleanupFails(p) ==
  /\ pc[p] \in CleanupPC /\ Fault
  /\ Leave(p)
  /\ UNCHANGED <<lake, key, arg, acked, crashes, damage>>

Cleanup(p) ==
  \/ JudgeArchived(p) \/ Judge(p) \/ RenameObject(p) \/ WriteTombstone(p) \/ UnlinkPayload(p)
  \/ UnlinkManifest(p) \/ RemoveDeleting(p)

-----------------------------------------------------------------------------
(* validate_raw_reference and load_raw_object, without any lock. *)

ReadCall(p, k, label) ==
  /\ Free(p) /\ claim[k] # None
  /\ key' = [key EXCEPT ![p] = k] /\ arg' = [arg EXCEPT ![p] = claim[k]]
  /\ Goto(p, label)
  /\ UNCHANGED <<lake, lock, acked, env>>

FindObject(p) ==
  /\ pc[p] \in {"find", "find archived"}
  /\ IF object[key[p]] # None
     THEN Goto(p, IF At(p, "find") THEN "load" ELSE "load archived")
     ELSE Goto(p, IF At(p, "find") THEN "failed" ELSE "tombed")
  /\ UNCHANGED <<lake, lock, key, arg, acked, env>>

LoadObject(p) ==
  /\ pc[p] \in {"load", "load archived"}
  /\ IF Loads(object[key[p]], arg[p])
     THEN Goto(p, IF At(p, "load") THEN "bytes" ELSE "returned")
     ELSE Goto(p, "failed")
  /\ UNCHANGED <<lake, lock, key, arg, acked, env>>

(* load_raw_object opens the payload again after it was validated.         *)
ReadBytes(p) ==
  /\ At(p, "bytes")
  /\ Goto(p, IF object[key[p]] # None THEN "returned" ELSE "failed")
  /\ UNCHANGED <<lake, lock, key, arg, acked, env>>

\* Mutation of FindTombstone: a reader does not look into deleting directories.
FindTombstoneOnly(p) ==
  /\ At(p, "tombed")
  /\ Goto(p, IF tomb[key[p]] # None /\ archive[key[p]] THEN "returned" ELSE "failed")
  /\ UNCHANGED <<lake, lock, key, arg, acked, env>>

FindTombstone(p) ==
  /\ At(p, "tombed")
  /\ IF tomb[key[p]] # None
     THEN Goto(p, IF archive[key[p]] THEN "returned" ELSE "failed")
     ELSE Goto(p, "leaving")
  /\ UNCHANGED <<lake, lock, key, arg, acked, env>>

FindDeleting(p) ==
  /\ At(p, "leaving")
  /\ Goto(p, IF Loads(deleting[key[p]], arg[p]) THEN "returned" ELSE "failed")
  /\ UNCHANGED <<lake, lock, key, arg, acked, env>>

Read(p) ==
  \/ FindObject(p) \/ LoadObject(p) \/ ReadBytes(p) \/ FindTombstone(p) \/ FindDeleting(p)

-----------------------------------------------------------------------------
(* The environment. *)

(* The archive controller copies an object to the archive volume.          *)
CopyToArchive(k) ==
  /\ ~archive[k] /\ object[k] # None /\ Loads(object[k], claim[k])
  /\ archive' = [archive EXCEPT ![k] = TRUE]
  /\ UNCHANGED <<claim, stages, object, deleting, tomb, aside, procs, acked, env>>

(* A published payload changes, but not under the eyes of a reader.        *)
Damage(k) ==
  /\ damage < MaxDamage
  /\ object[k] # None /\ "payload" \in object[k].files /\ object[k].sound
  /\ \A p \in Procs : key[p] = k => pc[p] # "bytes"
  /\ object' = [object EXCEPT ![k].sound = FALSE]
  /\ acked' = [acked EXCEPT ![k] = FALSE]
  /\ damage' = damage + 1
  /\ UNCHANGED <<claim, stages, deleting, tomb, aside, archive, procs, crashes, faults>>

Crash(p) ==
  /\ crashes < MaxCrashes /\ ~Free(p)
  /\ crashes' = crashes + 1
  /\ Goto(p, "idle")
  /\ lock' = [k \in Keys |-> IF lock[k] = p THEN None ELSE lock[k]]
  /\ UNCHANGED <<lake, key, arg, acked, faults, damage>>

-----------------------------------------------------------------------------
(* What validate_raw_reference would find if nothing moved meanwhile. *)
Resolvable(k, archived) ==
  IF object[k] # None THEN Loads(object[k], claim[k])
  ELSE archived /\ (IF tomb[k] # None THEN archive[k] ELSE Loads(deleting[k], claim[k]))

Moved(k) == object'[k] # object[k] \/ deleting'[k] # deleting[k] \/ tomb'[k] # tomb[k]

Watch ==
  calm' = [p \in Procs |->
            IF pc'[p] \in {"find", "find archived"} /\ pc'[p] # pc[p]
            THEN Resolvable(key'[p], pc'[p] = "find archived")
            ELSE calm[p] /\ ~Moved(key[p])]

Step(p) == Write(p) \/ Cleanup(p) \/ Read(p)

Next ==
  /\ \/ \E p \in Procs, k \in Keys :
          \/ \E c \in Contents : WriteCall(p, k, c)
          \/ \E r \in Receipts : CleanupCall(p, k, r)
          \/ ReadCall(p, k, "find") \/ ReadCall(p, k, "find archived")
     \/ \E p \in Procs : Step(p) \/ WriteFails(p) \/ CleanupFails(p) \/ Crash(p)
     \/ \E k \in Keys : CopyToArchive(k) \/ Damage(k)
  /\ Watch

Spec == Init /\ [][Next]_vars

(***************************************************************************)
(* Fairness.  A call that has begun runs on; the operator repeats          *)
(* an interrupted cleanup, with the receipt its tombstone names if it has  *)
(* one, until it gets the lock, which no queue hands out.                  *)
(***************************************************************************)
Resume(k) ==
  /\ \E p \in Procs, r \in Receipts :
       /\ tomb[k] \in {None, r}
       /\ deleting[k] # None
       /\ CleanupCall(p, k, r)
  /\ Watch

FairSpec ==
  /\ Spec
  /\ \A p \in Procs : WF_vars(Step(p) /\ Watch)
  /\ \A k \in Keys : SF_vars(Resume(k))

-----------------------------------------------------------------------------
(* Properties. *)

\* A key has one content for ever: whatever lies under it, published, staged to
\* be published or on its way out, is what its claim says.
OneContent ==
  \A k \in Keys :
    /\ object[k] # None => object[k].content = claim[k]
    /\ deleting[k] # None => deleting[k].content = claim[k]

\* An acknowledged write can be resolved ever after, from the hot volume or
\* through its tombstone from the archive, also in the middle of a cleanup and
\* after one was cut short, unless the object was damaged from outside.
AcknowledgedResolvable == \A k \in Keys : acked[k] => Resolvable(k, TRUE)

\* A dead writer's stage is used up before the next one is made.
OneStage == \A k \in Keys : Len(stages[k]) <= 1 /\ (stages[k] # <<>> => object[k] = None)

\* A reader that is not disturbed by a writer or a cleanup of its key finds a
\* key that was resolvable when it started.
CalmReadsSucceed == \A p \in Procs : pc[p] = "failed" => ~calm[p]

\* A key that was archived and cleaned never becomes hot again.
NeverHotAgain ==
  [][\A k \in Keys : tomb[k] # None /\ object[k] = None => object'[k] = None]_vars

\* A cleanup that left its deleting directory behind is completed by calling it
\* again with the same receipt, unless its payload was changed from outside.
CleanupCompletes == \A k \in Keys : (deleting[k] # None) ~> (deleting[k] = None \/ damage > 0)

KeyStage ==
  [k \in Keys |-> IF tomb[k] # None THEN "archived"
                  ELSE IF deleting[k] # None THEN "leaving"
                  ELSE IF object[k] # None THEN "hot" ELSE "absent"]

Abstract == INSTANCE RawKeys WITH content <- claim, stage <- KeyStage

\* The keys live the life RawKeys promises.
ImplementsKeys == Abstract!Spec

=============================================================================
