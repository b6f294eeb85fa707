----------------------------- MODULE Lake_proofs -----------------------------
(***************************************************************************)
(* What holds of the two trees of files that many processes write without  *)
(* a common lock.                                                          *)
(*                                                                         *)
(* RawLake: for any number of processes, keys, contents, receipts, crashes,*)
(* I/O errors and damaged objects.                                         *)
(*                                                                         *)
(* ResearchDataset: the published datasets are lines that only move        *)
(* forward, for any number of callers, calls, revisions of the provider    *)
(* and deaths.                                                             *)
(***************************************************************************)
EXTENDS RawLake, ResearchDataset, SequenceTheorems, WellFoundedInduction, TLAPS

-----------------------------------------------------------------------------
(* The inductive invariant.  A call past its checks relies on what it saw,  *)
(* because it holds the key.                                                *)

Owners == \A p \in Procs : pc[p] \in LockedPC => lock[key[p]] = p

WriterOK(p) ==
  LET k == key[p] IN
  /\ pc[p] \in WritePC => arg[p] \in Contents
  /\ pc[p] = "bind" => claim[k] = None
  /\ pc[p] \in WritePC \ {"claim", "bind"} => claim[k] = arg[p]
  /\ pc[p] \in WritePC \ {"claim", "bind", "check"} => tomb[k] = None /\ deleting[k] = None
  /\ pc[p] \in {"existing", "capacity", "payload"} => stages[k] = <<>>
  /\ pc[p] \in {"capacity", "payload", "manifest", "publish"} => object[k] = None
  /\ pc[p] \in {"manifest", "publish"} => Len(stages[k]) = 1
  /\ pc[p] = "publish" => stages[k][1].files = Files

CleanerOK(p) ==
  LET k == key[p] IN
  /\ pc[p] \in CleanupPC => arg[p] \in Receipts
  /\ pc[p] = "rename" => object[k] # None /\ deleting[k] = None /\ tomb[k] = None /\ archive[k]
  /\ pc[p] = "tomb" => object[k] = None /\ deleting[k] # None /\ tomb[k] = None /\ archive[k]
  /\ pc[p] \in {"unlink payload", "unlink manifest", "rmdir"} =>
       object[k] = None /\ deleting[k] # None /\ tomb[k] # None

LayoutOK(k) ==
  /\ object[k] # None => object[k].content = claim[k]
  /\ deleting[k] # None => deleting[k].content = claim[k]
  /\ Len(stages[k]) <= 1
  /\ stages[k] # <<>> =>
       /\ stages[k][1].content = claim[k] /\ stages[k][1].sound
       /\ object[k] = None /\ tomb[k] = None /\ deleting[k] = None
  /\ object[k] = None \/ deleting[k] = None
  /\ tomb[k] # None => archive[k] /\ claim[k] # None
  /\ acked[k] => Resolvable(k, TRUE)

LakeInv ==
  /\ TypeOK /\ Owners
  /\ \A p \in Procs : WriterOK(p) /\ CleanerOK(p)
  /\ \A k \in Keys : LayoutOK(k)

-----------------------------------------------------------------------------
LEMMA InitInv == Init => LakeInv
<1> SUFFICES ASSUME Init PROVE LakeInv
  OBVIOUS
<1> USE LakeAssumption, NoneIsNoDirectory
<1>1. TypeOK
  BY DEF Init, TypeOK, LakeTypeOK, ProcsTypeOK, Dir, Files
<1>2. Owners /\ \A p \in Procs : WriterOK(p) /\ CleanerOK(p)
  BY DEF Init, Owners, WriterOK, CleanerOK, LockedPC, WritePC, CleanupPC
<1>3. \A k \in Keys : LayoutOK(k)
  BY DEF Init, LayoutOK, Dir
<1> QED BY <1>1, <1>2, <1>3 DEF LakeInv

LEMMA CalmType == Watch => calm' \in [Procs -> BOOLEAN]
  BY DEF Watch, Resolvable, Loads, Moved

(* A step of the holder of a key disturbs nobody else: the other calls hold *)
(* other keys, and the other keys look as before.                           *)
Own(p) ==
  /\ key' = key /\ arg' = arg
  /\ \E l \in {"idle"} \cup LockedPC :
       /\ pc' = [pc EXCEPT ![p] = l]
       /\ \/ lock' = lock
          \/ l = "idle" /\ lock' = [lock EXCEPT ![key[p]] = None]

Elsewhere(k) ==
  \A j \in Keys \ {k} :
    /\ claim'[j] = claim[j] /\ stages'[j] = stages[j]
    /\ object'[j] = object[j] /\ deleting'[j] = deleting[j]
    /\ tomb'[j] = tomb[j] /\ archive'[j] = archive[j] /\ acked'[j] = acked[j]

LEMMA StepInv ==
  ASSUME LakeInv, TypeOK', NEW p \in Procs, pc[p] \in LockedPC, Own(p), Elsewhere(key[p]),
         WriterOK(p)', CleanerOK(p)', LayoutOK(key[p])'
  PROVE  LakeInv'
<1>0. /\ \A q \in Procs : key[q] \in Keys /\ WriterOK(q) /\ CleanerOK(q)
      /\ \A j \in Keys : LayoutOK(j)
      /\ key' = key /\ lock[key[p]] = p /\ Owners /\ lock \in [Keys -> Procs \cup {None}]
  BY DEF LakeInv, TypeOK, LakeTypeOK, ProcsTypeOK, Owners, Own
<1>1. \A q \in Procs \ {p} : pc'[q] = pc[q] /\ key'[q] = key[q] /\ arg'[q] = arg[q]
  BY DEF Own, LakeInv, TypeOK, LakeTypeOK, ProcsTypeOK
<1>2. \A q \in Procs \ {p} : pc[q] \in LockedPC => lock[key[q]] = q /\ key[q] # key[p]
  BY <1>0 DEF Owners
<1>3. Owners'
  <2>1. ASSUME NEW q \in Procs, q # p, pc'[q] \in LockedPC PROVE lock'[key[q]] = q
    <3>1. lock[key[q]] = q /\ key[q] # key[p]
      BY <1>1, <1>2, <2>1
    <3> QED BY <1>0, <3>1 DEF Own
  <2>2. ASSUME pc'[p] \in LockedPC PROVE lock'[key[p]] = p
    <3>1. PICK l \in {"idle"} \cup LockedPC :
            /\ pc' = [pc EXCEPT ![p] = l]
            /\ lock' = lock \/ (l = "idle" /\ lock' = [lock EXCEPT ![key[p]] = None])
      BY DEF Own
    <3>2. l # "idle"
      BY <2>2, <3>1 DEF LakeInv, TypeOK, LakeTypeOK, ProcsTypeOK, LockedPC, WritePC, CleanupPC
    <3> QED BY <1>0, <3>1, <3>2
  <2> QED BY <1>0, <2>1, <2>2 DEF Owners
<1>4. ASSUME NEW q \in Procs, q # p PROVE WriterOK(q)' /\ CleanerOK(q)'
  <2>1. CASE pc[q] \notin LockedPC
    BY <1>1, <1>4, <2>1 DEF WriterOK, CleanerOK, LockedPC, WritePC, CleanupPC
  <2>2. CASE pc[q] \in LockedPC
    <3>1. key[q] \in Keys \ {key[p]}
      BY <1>0, <1>2, <1>4, <2>2
    <3>2. /\ claim'[key[q]] = claim[key[q]] /\ stages'[key[q]] = stages[key[q]]
          /\ object'[key[q]] = object[key[q]] /\ deleting'[key[q]] = deleting[key[q]]
          /\ tomb'[key[q]] = tomb[key[q]] /\ archive'[key[q]] = archive[key[q]]
      BY <3>1 DEF Elsewhere
    <3>3. pc'[q] = pc[q] /\ key'[q] = key[q] /\ arg'[q] = arg[q]
      BY <1>1, <1>4
    <3>4. WriterOK(q)'
      BY <1>0, <3>2, <3>3 DEF WriterOK
    <3>5. CleanerOK(q)'
      BY ZenonT(40), <1>0, <3>2, <3>3 DEF CleanerOK
    <3> QED BY <3>4, <3>5
  <2> QED BY <2>1, <2>2
<1>5. ASSUME NEW j \in Keys, j # key[p] PROVE LayoutOK(j)'
  <2>1. LayoutOK(j)
    BY <1>0
  <2> QED BY <1>5, <2>1 DEF Elsewhere, LayoutOK, Resolvable, Loads
<1> QED BY <1>0, <1>3, <1>4, <1>5 DEF LakeInv

\* The types of what lies under one key.
KeyTyped(k) ==
  /\ k \in Keys
  /\ claim[k] \in Contents \cup {None} /\ stages[k] \in Seq(Dir)
  /\ object[k] \in Dir \cup {None} /\ deleting[k] \in Dir \cup {None}
  /\ tomb[k] \in Receipts \cup {None} /\ archive[k] \in BOOLEAN
  /\ acked[k] \in BOOLEAN

LEMMA KeyTypes ==
  ASSUME LakeInv, NEW p \in Procs
  PROVE  KeyTyped(key[p]) /\ TypeOK /\ WriterOK(p) /\ CleanerOK(p) /\ LayoutOK(key[p])
  BY DEF LakeInv, KeyTyped, TypeOK, LakeTypeOK, ProcsTypeOK

\* A key with no stage.
LEMMA NoStage == Len(<<>>) = 0 /\ Len(<<>>) <= 1
  OBVIOUS

LEMMA OneStageIsOne ==
  ASSUME NEW S, NEW s \in Seq(S), s # <<>>, Len(s) <= 1
  PROVE  Len(s) = 1
<1>1. Len(s) \in Nat /\ Len(s) # 0
  BY EmptySeq
<1>2. ASSUME NEW n \in Nat, n # 0, n <= 1 PROVE n = 1
  BY <1>2
<1> QED BY <1>1, <1>2
\* A key with one stage.
LEMMA OneElement ==
  ASSUME NEW S, NEW s \in Seq(S), Len(s) = 1
  PROVE  s # <<>> /\ s[1] \in S /\ Head(s) = s[1] /\ Tail(s) = <<>> /\ SubSeq(s, 1, Len(s) - 1) = <<>>
<1>1. s # <<>> /\ s[1] \in S /\ Head(s) = s[1]
  OBVIOUS
<1>2. Tail(s) \in Seq(S) /\ Len(Tail(s)) = 0
  BY <1>1, HeadTailProperties
<1>3. SubSeq(s, 1, 0) = <<>>
  BY SubSeqEmpty
<1>4. Tail(s) = <<>>
  BY <1>2, EmptySeq
<1> QED BY <1>1, <1>3, <1>4

\* The holder goes on inside its call.
LEMMA MoveOn ==
  ASSUME LakeInv, NEW p \in Procs, pc[p] \in LockedPC, NEW l \in LockedPC, Goto(p, l),
         UNCHANGED <<lock, key, arg, acked, env>>, Watch,
         LakeTypeOK', Elsewhere(key[p]), WriterOK(p)', CleanerOK(p)', LayoutOK(key[p])'
  PROVE  LakeInv'
<1>1. TypeOK
  BY DEF LakeInv
<1>2. ProcsTypeOK'
  BY <1>1 DEF TypeOK, ProcsTypeOK, Goto
<1>3. TypeOK'
  BY <1>1, <1>2, CalmType DEF TypeOK, env
<1>4. Own(p)
  BY DEF Own, Goto
<1> QED BY <1>3, <1>4, StepInv

\* The holder's call ends.
LEMMA MoveOut ==
  ASSUME LakeInv, NEW p \in Procs, pc[p] \in LockedPC, Leave(p), UNCHANGED <<key, arg>>, Watch,
         LakeTypeOK', Elsewhere(key[p]), LayoutOK(key[p])', acked' \in [Keys -> BOOLEAN],
         crashes' = crashes, faults' \in 0..MaxFaults, damage' = damage
  PROVE  LakeInv'
<1>1. TypeOK /\ key[p] \in Keys
  BY DEF LakeInv, TypeOK, ProcsTypeOK
<1>2. ProcsTypeOK' /\ pc'[p] = "idle"
  BY <1>1 DEF TypeOK, ProcsTypeOK, Goto, Leave
<1>3. TypeOK'
  BY <1>1, <1>2, CalmType DEF TypeOK
<1>4. Own(p)
  BY DEF Own, Goto, Leave
<1>5. WriterOK(p)' /\ CleanerOK(p)'
  BY <1>2 DEF WriterOK, CleanerOK, WritePC, CleanupPC
<1> QED BY <1>3, <1>4, <1>5, StepInv

\* The holder's call ends and has changed nothing.
LEMMA MoveOutQuietly ==
  ASSUME LakeInv, NEW p \in Procs, pc[p] \in LockedPC, Leave(p),
         UNCHANGED <<lake, key, arg, acked, crashes, damage>>, faults' \in 0..MaxFaults, Watch
  PROVE  LakeInv'
<1>1. LakeTypeOK' /\ acked' \in [Keys -> BOOLEAN] /\ key[p] \in Keys /\ LayoutOK(key[p])
  BY DEF LakeInv, TypeOK, LakeTypeOK, ProcsTypeOK, lake
<1>2. Elsewhere(key[p])
  BY DEF Elsewhere, lake
<1>3. LayoutOK(key[p])'
  BY <1>1 DEF LayoutOK, Resolvable, Loads, lake
<1> QED BY <1>1, <1>2, <1>3, MoveOut

\* The holder goes on inside its call and has changed nothing.
LEMMA MoveOnQuietly ==
  ASSUME LakeInv, NEW p \in Procs, pc[p] \in LockedPC, NEW l \in LockedPC, Goto(p, l),
         UNCHANGED <<lake, lock, key, arg, acked, env>>, Watch,
         (WriterOK(p) /\ CleanerOK(p))'
  PROVE  LakeInv'
<1>1. LakeTypeOK' /\ key[p] \in Keys /\ LayoutOK(key[p])
  BY DEF LakeInv, TypeOK, LakeTypeOK, ProcsTypeOK, lake
<1>2. Elsewhere(key[p])
  BY DEF Elsewhere, lake
<1>3. LayoutOK(key[p])'
  BY <1>1 DEF LayoutOK, Resolvable, Loads, lake
<1> QED BY <1>1, <1>2, <1>3, MoveOn

LEMMA PublishObjectInv ==
  ASSUME LakeInv, NEW p \in Procs, PublishObject(p), Watch
  PROVE  LakeInv'
<1> DEFINE k == key[p]
<1> USE LakeAssumption, NoneIsNoDirectory DEF KeyTyped
<1>0. KeyTyped(k) /\ TypeOK /\ WriterOK(p) /\ CleanerOK(p) /\ LayoutOK(k)
  BY KeyTypes
<1>1. pc[p] = "publish" /\ pc[p] \in LockedPC
  BY DEF PublishObject, At, LockedPC, WritePC
<1>2. /\ Len(stages[k]) = 1 /\ stages[k][1] \in Dir /\ stages[k][1].files = Files /\ stages[k] # <<>>
      /\ SubSeq(stages[k], 1, Len(stages[k]) - 1) = <<>>
      /\ claim[k] = arg[p] /\ object[k] = None
      /\ tomb[k] = None /\ deleting[k] = None
  BY <1>1, <1>0, OneElement DEF WriterOK, WritePC
<1>3. /\ stages' = [stages EXCEPT ![k] = <<>>]
      /\ UNCHANGED <<claim, deleting, tomb, aside, archive, key, arg, acked, env>>
  BY <1>2 DEF PublishObject, RemoveOwnStage, OwnStage
<1>4. CASE RoomForOne
  <2>1. object' = [object EXCEPT ![k] = stages[k][1]] /\ Goto(p, "reply") /\ lock' = lock
    BY <1>2, <1>4 DEF PublishObject, RemoveOwnStage, OwnStage, Stay
  <2>2. LakeTypeOK'
    BY <1>0, <1>2, <1>3, <2>1, EmptySeq DEF TypeOK, LakeTypeOK
  <2>3. /\ stages'[k] = <<>> /\ object'[k] = stages[k][1] /\ pc'[p] = "reply"
        /\ Elsewhere(k)
    BY <1>0, <1>3, <2>1 DEF TypeOK, LakeTypeOK, ProcsTypeOK, Elsewhere, Goto
  <2>4. WriterOK(p)' /\ CleanerOK(p)'
    BY <1>0, <1>1, <1>2, <1>3, <2>3 DEF WriterOK, CleanerOK, WritePC, CleanupPC
  <2>5. LayoutOK(k)'
    BY <1>0, <1>2, <1>3, <2>3 DEF LayoutOK, Resolvable, Loads
  <2> QED BY <1>1, <1>3, <2>1, <2>2, <2>3, <2>4, <2>5, MoveOn DEF LockedPC, WritePC
<1>5. CASE ~RoomForOne
  <2>1. object' = object /\ Leave(p)
    BY <1>5 DEF PublishObject
  <2>2. LakeTypeOK' /\ acked' \in [Keys -> BOOLEAN]
    BY <1>0, <1>3, <2>1, EmptySeq DEF TypeOK, LakeTypeOK
  <2>3. stages'[k] = <<>> /\ Elsewhere(k)
    BY <1>0, <1>3, <2>1 DEF TypeOK, LakeTypeOK, Elsewhere
  <2>4. LayoutOK(k)'
    BY <1>0, <1>3, <2>1, <2>3 DEF LayoutOK, Resolvable, Loads
  <2>5. crashes' = crashes /\ damage' = damage /\ faults' \in 0..MaxFaults
    BY <1>0, <1>3 DEF TypeOK, env
  <2> QED BY <1>1, <1>3, <2>1, <2>2, <2>3, <2>4, <2>5, MoveOut
<1> QED BY <1>4, <1>5

LEMMA FindClaimInv ==
  ASSUME LakeInv, NEW p \in Procs, FindClaim(p), Watch
  PROVE  LakeInv'
<1> DEFINE k == key[p]
<1> USE LakeAssumption, NoneIsNoDirectory DEF KeyTyped
<1>0. KeyTyped(k) /\ TypeOK /\ WriterOK(p) /\ CleanerOK(p) /\ LayoutOK(k)
  BY KeyTypes
<1>1. pc[p] \in LockedPC /\ pc[p] = "claim"
  BY DEF FindClaim, At, LockedPC, WritePC
<1>2. UNCHANGED <<lake, key, arg, acked, env>> /\ faults' \in 0..MaxFaults
  BY <1>0 DEF FindClaim, TypeOK, env
<1>3. CASE ~MayClaim(p)
  <2>1. Leave(p)
    BY <1>0, <1>1, <1>3 DEF FindClaim, MayClaim
  <2> QED BY <1>1, <1>2, <2>1, MoveOutQuietly DEF env
<1>4. CASE MayClaim(p) /\ claim[k] = arg[p]
  <2>1. Goto(p, "check") /\ lock' = lock
    BY <1>0, <1>1, <1>4 DEF FindClaim, Stay, MayClaim
  <2>2. (WriterOK(p) /\ CleanerOK(p))'
    BY <1>0, <1>1, <1>2, <1>4, <2>1
       DEF TypeOK, ProcsTypeOK, Goto, WriterOK, CleanerOK, WritePC, CleanupPC, lake, MayClaim
  <2> QED BY <1>1, <1>2, <2>1, <2>2, MoveOnQuietly DEF LockedPC, WritePC
<1>5. CASE MayClaim(p) /\ claim[k] # arg[p]
  <2>1. Goto(p, "bind") /\ lock' = lock
    BY <1>0, <1>1, <1>5 DEF FindClaim, Stay, MayClaim
  <2>2. (WriterOK(p) /\ CleanerOK(p))'
    BY <1>0, <1>1, <1>2, <1>5, <2>1
       DEF TypeOK, ProcsTypeOK, Goto, WriterOK, CleanerOK, WritePC, CleanupPC, lake, MayClaim
  <2> QED BY <1>1, <1>2, <2>1, <2>2, MoveOnQuietly DEF LockedPC, WritePC
<1> QED BY <1>3, <1>4, <1>5

LEMMA CheckRetiredInv ==
  ASSUME LakeInv, NEW p \in Procs, CheckRetired(p), Watch
  PROVE  LakeInv'
<1> DEFINE k == key[p]
<1> USE LakeAssumption, NoneIsNoDirectory DEF KeyTyped
<1>0. KeyTyped(k) /\ TypeOK /\ WriterOK(p) /\ CleanerOK(p) /\ LayoutOK(k)
  BY KeyTypes
<1>1. pc[p] \in LockedPC /\ pc[p] = "check"
  BY DEF CheckRetired, At, LockedPC, WritePC
<1>2. UNCHANGED <<lake, key, arg, acked, env>> /\ faults' \in 0..MaxFaults
  BY <1>0 DEF CheckRetired, TypeOK, env
<1>3. CASE Retired(k)
  <2>1. Leave(p)
    BY <1>0, <1>1, <1>3 DEF CheckRetired, Retired
  <2> QED BY <1>1, <1>2, <2>1, MoveOutQuietly DEF env
<1>4. CASE ~Retired(k)
  <2>1. Goto(p, "recover") /\ lock' = lock
    BY <1>0, <1>1, <1>4 DEF CheckRetired, Stay, Retired
  <2>2. (WriterOK(p) /\ CleanerOK(p))'
    BY <1>0, <1>1, <1>2, <1>4, <2>1
       DEF TypeOK, ProcsTypeOK, Goto, WriterOK, CleanerOK, WritePC, CleanupPC, lake, Retired
  <2> QED BY <1>1, <1>2, <2>1, <2>2, MoveOnQuietly DEF LockedPC, WritePC
<1> QED BY <1>3, <1>4

LEMMA CheckCapacityInv ==
  ASSUME LakeInv, NEW p \in Procs, CheckCapacity(p), Watch
  PROVE  LakeInv'
<1> DEFINE k == key[p]
<1> USE LakeAssumption, NoneIsNoDirectory DEF KeyTyped
<1>0. KeyTyped(k) /\ TypeOK /\ WriterOK(p) /\ CleanerOK(p) /\ LayoutOK(k)
  BY KeyTypes
<1>1. pc[p] \in LockedPC /\ pc[p] = "capacity"
  BY DEF CheckCapacity, At, LockedPC, WritePC
<1>2. UNCHANGED <<lake, key, arg, acked, env>> /\ faults' \in 0..MaxFaults
  BY <1>0 DEF CheckCapacity, TypeOK, env
<1>3. CASE ~(HotSize + 1 <= Quota)
  <2>1. Leave(p)
    BY <1>0, <1>1, <1>3 DEF CheckCapacity
  <2> QED BY <1>1, <1>2, <2>1, MoveOutQuietly DEF env
<1>4. CASE HotSize + 1 <= Quota
  <2>1. Goto(p, "payload") /\ lock' = lock
    BY <1>0, <1>1, <1>4 DEF CheckCapacity, Stay
  <2>2. (WriterOK(p) /\ CleanerOK(p))'
    BY <1>0, <1>1, <1>2, <1>4, <2>1
       DEF TypeOK, ProcsTypeOK, Goto, WriterOK, CleanerOK, WritePC, CleanupPC, lake
  <2> QED BY <1>1, <1>2, <2>1, <2>2, MoveOnQuietly DEF LockedPC, WritePC
<1> QED BY <1>3, <1>4

LEMMA BindKeyInv ==
  ASSUME LakeInv, NEW p \in Procs, BindKey(p), Watch
  PROVE  LakeInv'
<1> DEFINE k == key[p]
<1> USE LakeAssumption, NoneIsNoDirectory DEF KeyTyped
<1>0. KeyTyped(k) /\ TypeOK /\ WriterOK(p) /\ CleanerOK(p) /\ LayoutOK(k)
  BY KeyTypes
<1>1. pc[p] \in LockedPC /\ pc[p] = "bind"
  BY DEF BindKey, At, LockedPC, WritePC
<1>2. /\ claim' = [claim EXCEPT ![k] = arg[p]] /\ Goto(p, "check")
      /\ UNCHANGED <<stages, object, deleting, tomb, aside, archive, lock, key, arg, acked, env>>
  BY DEF BindKey
<1>3. arg[p] \in Contents /\ claim[k] = None
  BY <1>0, <1>1 DEF WriterOK, WritePC
<1>4. object[k] = None /\ deleting[k] = None /\ stages[k] = <<>> /\ tomb[k] = None /\ ~acked[k]
  <2>1. object[k] = None /\ deleting[k] = None /\ tomb[k] = None
    BY <1>0, <1>3 DEF LayoutOK, Dir
  <2>2. stages[k] = <<>>
    <3>1. ASSUME stages[k] # <<>> PROVE FALSE
      <4>1. stages[k][1] \in Dir
        BY <1>0, <3>1
      <4> QED BY <1>0, <1>3, <3>1, <4>1 DEF LayoutOK, Dir
    <3> QED BY <3>1
  <2> QED BY <1>0, <2>1, <2>2 DEF LayoutOK, Resolvable, Loads
<1>5. LakeTypeOK'
  BY <1>0, <1>2, <1>3 DEF TypeOK, LakeTypeOK
<1>6. claim'[k] = arg[p] /\ pc'[p] = "check" /\ Elsewhere(k)
  BY <1>0, <1>2 DEF TypeOK, LakeTypeOK, ProcsTypeOK, Elsewhere, Goto
<1>7. (WriterOK(p) /\ CleanerOK(p))'
  BY <1>2, <1>3, <1>6 DEF WriterOK, CleanerOK, WritePC, CleanupPC
<1>8. LayoutOK(k)'
  <2>1. object'[k] = None /\ deleting'[k] = None /\ stages'[k] = <<>> /\ tomb'[k] = None /\ ~acked'[k]
    BY <1>2, <1>4
  <2> QED BY <1>2, <2>1, NoStage DEF LayoutOK
<1> QED BY <1>1, <1>2, <1>5, <1>6, <1>7, <1>8, MoveOn DEF LockedPC, WritePC

LEMMA RecoverDoneInv ==
  ASSUME LakeInv, NEW p \in Procs, RecoverDone(p), Watch
  PROVE  LakeInv'
<1> DEFINE k == key[p]
<1> USE LakeAssumption, NoneIsNoDirectory DEF KeyTyped
<1>0. KeyTyped(k) /\ TypeOK /\ WriterOK(p) /\ CleanerOK(p) /\ LayoutOK(k)
  BY KeyTypes
<1>1. pc[p] \in LockedPC /\ pc[p] \in {"recover", "recovered"}
  BY DEF RecoverDone, At, LockedPC, WritePC
<1>2. UNCHANGED <<lake, lock, key, arg, acked, env>> /\ stages[k] = <<>>
  BY DEF RecoverDone, Stay
<1>3. PICK l \in {"reply", "existing"} : Goto(p, l)
  BY DEF RecoverDone
<1>4. (WriterOK(p) /\ CleanerOK(p))'
  BY <1>0, <1>1, <1>2, <1>3
     DEF TypeOK, ProcsTypeOK, Goto, WriterOK, CleanerOK, WritePC, CleanupPC, lake
<1> QED BY <1>1, <1>2, <1>3, <1>4, MoveOnQuietly DEF LockedPC, WritePC

LEMMA RecoverStageInv ==
  ASSUME LakeInv, NEW p \in Procs, RecoverStage(p), Watch
  PROVE  LakeInv'
<1> DEFINE k == key[p]
<1> USE LakeAssumption, NoneIsNoDirectory DEF KeyTyped
<1>0. KeyTyped(k) /\ TypeOK /\ WriterOK(p) /\ CleanerOK(p) /\ LayoutOK(k)
  BY KeyTypes
<1>1. pc[p] \in LockedPC /\ pc[p] \in {"recover", "recovered"}
  BY DEF RecoverStage, At, LockedPC, WritePC
<1> DEFINE found == Head(stages[k])
<1>2. /\ stages[k] # <<>> /\ Len(stages[k]) = 1 /\ found = stages[k][1] /\ found \in Dir
      /\ Tail(stages[k]) = <<>> /\ object[k] = None /\ deleting[k] = None /\ tomb[k] = None
      /\ claim[k] = arg[p] /\ ~acked[k] /\ arg[p] \in Contents
  <2>1. stages[k] # <<>>
    BY DEF RecoverStage
  <2>2. Len(stages[k]) = 1
    <3>1. Len(stages[k]) <= 1
      BY <1>0 DEF LayoutOK
    <3> QED BY <1>0, <2>1, <3>1, OneStageIsOne
  <2>3. object[k] = None /\ deleting[k] = None /\ tomb[k] = None
    BY <1>0, <2>1 DEF LayoutOK
  <2>4. ~acked[k]
    BY <1>0, <2>3 DEF LayoutOK, Resolvable, Loads
  <2>5. claim[k] = arg[p] /\ arg[p] \in Contents
    BY <1>0, <1>1 DEF WriterOK, WritePC
  <2> QED BY <1>0, <2>1, <2>2, <2>3, <2>4, <2>5, OneElement
<1>3. UNCHANGED <<claim, deleting, tomb, archive, key, arg, acked, env>>
  BY DEF RecoverStage
<1>4. CASE ~Loads(found, arg[p])
  <2>1. /\ stages' = [stages EXCEPT ![k] = <<>>] /\ UNCHANGED <<object, pc, lock>>
        /\ aside' = aside + (IF "payload" \in found.files THEN 1 ELSE 0)
    BY <1>2, <1>4 DEF RecoverStage, Stay
  <2>2. LakeTypeOK'
    <3>1. aside \in Nat /\ aside' \in Nat
      BY <1>0, <2>1 DEF TypeOK, LakeTypeOK
    <3> QED BY <1>0, <1>3, <2>1, <3>1, EmptySeq DEF TypeOK, LakeTypeOK
  <2>3. stages'[k] = <<>> /\ Elsewhere(k)
    BY <1>0, <1>3, <2>1 DEF TypeOK, LakeTypeOK, Elsewhere
  <2>4. (WriterOK(p) /\ CleanerOK(p))'
    BY <1>0, <1>1, <1>2, <1>3, <2>1, <2>3 DEF WriterOK, CleanerOK, WritePC, CleanupPC
  <2>5. LayoutOK(k)'
    <3>1. object'[k] = None /\ deleting'[k] = None /\ tomb'[k] = None /\ ~acked'[k]
      BY <1>2, <1>3, <2>1
    <3> QED BY <1>3, <2>3, <3>1, NoStage DEF LayoutOK
  <2>6. TypeOK' /\ Own(p)
    <3>1. Own(p)
      BY <1>0, <1>1, <1>3, <2>1 DEF Own, TypeOK, ProcsTypeOK
    <3> QED BY <1>0, <1>3, <2>1, <2>2, <3>1, CalmType DEF TypeOK, ProcsTypeOK, env
  <2> QED BY <1>1, <2>3, <2>4, <2>5, <2>6, StepInv
<1>5. CASE Loads(found, arg[p]) /\ RoomForOne
  <2>1. /\ stages' = [stages EXCEPT ![k] = <<>>] /\ object' = [object EXCEPT ![k] = found]
        /\ Goto(p, "recovered") /\ UNCHANGED <<lock, aside>>
    BY <1>2, <1>5 DEF RecoverStage, Stay
  <2>2. LakeTypeOK'
    BY <1>0, <1>2, <1>3, <2>1, EmptySeq DEF TypeOK, LakeTypeOK
  <2>3. stages'[k] = <<>> /\ object'[k] = found /\ pc'[p] = "recovered" /\ Elsewhere(k)
    BY <1>0, <1>3, <2>1 DEF TypeOK, LakeTypeOK, ProcsTypeOK, Elsewhere, Goto
  <2>4. (WriterOK(p) /\ CleanerOK(p))'
    BY <1>2, <1>3, <2>3 DEF WriterOK, CleanerOK, WritePC, CleanupPC
  <2>5. LayoutOK(k)'
    <3>1. /\ deleting'[k] = None /\ tomb'[k] = None /\ ~acked'[k]
          /\ object'[k].content = claim'[k]
      BY <1>2, <1>3, <1>5, <2>3 DEF Loads
    <3> QED BY <1>3, <2>3, <3>1, NoStage DEF LayoutOK
  <2> QED BY <1>1, <1>3, <2>1, <2>2, <2>3, <2>4, <2>5, MoveOn DEF LockedPC, WritePC
<1>6. CASE Loads(found, arg[p]) /\ ~RoomForOne
  <2>1. Leave(p) /\ UNCHANGED <<stages, object, aside>>
    BY <1>2, <1>6 DEF RecoverStage
  <2>2. faults' \in 0..MaxFaults
    BY <1>0, <1>3 DEF TypeOK, env
  <2> QED BY <1>1, <1>3, <2>1, <2>2, MoveOutQuietly DEF lake, env
<1> QED BY <1>4, <1>5, <1>6

LEMMA ExistingInv ==
  ASSUME LakeInv, NEW p \in Procs, Existing(p), Watch
  PROVE  LakeInv'
<1> DEFINE k == key[p]
<1> USE LakeAssumption, NoneIsNoDirectory DEF KeyTyped
<1>0. KeyTyped(k) /\ TypeOK /\ WriterOK(p) /\ CleanerOK(p) /\ LayoutOK(k)
  BY KeyTypes
<1>1. pc[p] \in LockedPC /\ pc[p] = "existing"
  BY DEF Existing, At, LockedPC, WritePC
<1>2. /\ UNCHANGED <<claim, stages, deleting, tomb, archive, lock, key, arg, acked, env>>
      /\ claim[k] = arg[p] /\ arg[p] \in Contents
      /\ tomb[k] = None /\ deleting[k] = None /\ stages[k] = <<>>
  BY <1>0, <1>1 DEF Existing, WriterOK, WritePC
<1>3. CASE object[k] = None \/ Loads(object[k], arg[p])
  <2>1. UNCHANGED lake
    BY <1>2, <1>3 DEF Existing, lake, Loads
  <2>2. PICK l \in {"capacity", "reply"} : Goto(p, l) /\ (l = "capacity" => object[k] = None)
    BY <1>3 DEF Existing, Loads
  <2>3. (WriterOK(p) /\ CleanerOK(p))'
    BY <1>0, <1>2, <2>1, <2>2
       DEF TypeOK, ProcsTypeOK, Goto, WriterOK, CleanerOK, WritePC, CleanupPC, lake
  <2> QED BY <1>1, <1>2, <2>1, <2>2, <2>3, MoveOnQuietly DEF LockedPC, WritePC
<1>4. CASE object[k] # None /\ ~Loads(object[k], arg[p])
  <2>1. /\ object' = [object EXCEPT ![k] = None] /\ Goto(p, "capacity")
        /\ aside' = aside + (IF "payload" \in object[k].files THEN 1 ELSE 0)
    BY <1>4 DEF Existing
  <2>2. ~acked[k]
    BY <1>0, <1>2, <1>4 DEF LayoutOK, Resolvable
  <2>3. LakeTypeOK'
    <3>1. aside \in Nat /\ aside' \in Nat
      BY <1>0, <2>1 DEF TypeOK, LakeTypeOK
    <3> QED BY <1>0, <1>2, <2>1, <3>1 DEF TypeOK, LakeTypeOK
  <2>4. object'[k] = None /\ pc'[p] = "capacity" /\ Elsewhere(k)
    BY <1>0, <1>2, <2>1 DEF TypeOK, LakeTypeOK, ProcsTypeOK, Elsewhere, Goto
  <2>5. (WriterOK(p) /\ CleanerOK(p))'
    BY <1>2, <2>4 DEF WriterOK, CleanerOK, WritePC, CleanupPC
  <2>6. LayoutOK(k)'
    <3>1. deleting'[k] = None /\ tomb'[k] = None /\ stages'[k] = <<>> /\ ~acked'[k]
      BY <1>2, <2>2
    <3> QED BY <1>2, <2>4, <3>1, NoStage DEF LayoutOK
  <2> QED BY <1>1, <1>2, <2>1, <2>3, <2>4, <2>5, <2>6, MoveOn DEF LockedPC, WritePC
<1> QED BY <1>3, <1>4

LEMMA StagePayloadInv ==
  ASSUME LakeInv, NEW p \in Procs, StagePayload(p), Watch
  PROVE  LakeInv'
<1> DEFINE k == key[p]
<1> USE LakeAssumption, NoneIsNoDirectory DEF KeyTyped
<1>0. KeyTyped(k) /\ TypeOK /\ WriterOK(p) /\ CleanerOK(p) /\ LayoutOK(k)
  BY KeyTypes
<1>1. pc[p] \in LockedPC /\ pc[p] = "payload"
  BY DEF StagePayload, At, LockedPC, WritePC
<1> DEFINE new == [content |-> arg[p], files |-> {"payload"}, sound |-> TRUE]
<1>2. /\ claim[k] = arg[p] /\ arg[p] \in Contents /\ new \in Dir
      /\ stages[k] = <<>> /\ object[k] = None /\ tomb[k] = None /\ deleting[k] = None
  BY <1>0, <1>1 DEF WriterOK, WritePC, Dir, Files
<1>3. /\ stages' = [stages EXCEPT ![k] = <<new>>] /\ Goto(p, "manifest")
      /\ UNCHANGED <<claim, object, deleting, tomb, aside, archive, lock, key, arg, acked, env>>
  <2>1. Append(stages[k], new) = <<new>>
    BY <1>2
  <2> QED BY <2>1 DEF StagePayload
<1>4. LakeTypeOK'
  <2>1. <<new>> \in Seq(Dir)
    BY <1>2
  <2> QED BY <1>0, <1>3, <2>1 DEF TypeOK, LakeTypeOK
<1>5. stages'[k] = <<new>> /\ pc'[p] = "manifest" /\ Elsewhere(k)
  BY <1>0, <1>3 DEF TypeOK, LakeTypeOK, ProcsTypeOK, Elsewhere, Goto
<1>6. Len(stages'[k]) = 1 /\ stages'[k][1] = new
  BY <1>5
<1>7. (WriterOK(p) /\ CleanerOK(p))'
  BY <1>2, <1>3, <1>5, <1>6 DEF WriterOK, CleanerOK, WritePC, CleanupPC
<1>8. LayoutOK(k)'
  <2>1. new.content = claim[k] /\ new.sound
    BY <1>2
  <2>2. Len(stages'[k]) <= 1
    BY <1>6
  <2>3. ~acked[k]
    BY <1>0, <1>2 DEF LayoutOK, Resolvable, Loads
  <2> QED BY <1>2, <1>3, <1>6, <2>1, <2>2, <2>3 DEF LayoutOK
<1> QED BY <1>1, <1>3, <1>4, <1>5, <1>7, <1>8, MoveOn DEF LockedPC, WritePC

LEMMA StageManifestInv ==
  ASSUME LakeInv, NEW p \in Procs, StageManifest(p), Watch
  PROVE  LakeInv'
<1> DEFINE k == key[p]
<1> USE LakeAssumption, NoneIsNoDirectory DEF KeyTyped
<1>0. KeyTyped(k) /\ TypeOK /\ WriterOK(p) /\ CleanerOK(p) /\ LayoutOK(k)
  BY KeyTypes
<1>1. pc[p] \in LockedPC /\ pc[p] = "manifest"
  BY DEF StageManifest, At, LockedPC, WritePC
<1> DEFINE old == stages[k][1]
           new == [old EXCEPT !.files = Files]
<1>2. /\ claim[k] = arg[p] /\ arg[p] \in Contents
      /\ Len(stages[k]) = 1 /\ object[k] = None /\ tomb[k] = None /\ deleting[k] = None
  BY <1>0, <1>1 DEF WriterOK, WritePC
<1>3. /\ stages[k] # <<>> /\ old \in Dir /\ new \in Dir
      /\ new.content = old.content /\ new.sound = old.sound /\ new.files = Files
  <2>1. stages[k] # <<>> /\ old \in Dir
    BY <1>0, <1>2, OneElement
  <2> QED BY <2>1 DEF Dir
<1>4. /\ stages' = [stages EXCEPT ![k] = [@ EXCEPT ![1] = new]] /\ Goto(p, "publish")
      /\ UNCHANGED <<claim, object, deleting, tomb, aside, archive, lock, key, arg, acked, env>>
  BY <1>2 DEF StageManifest, OwnStage
<1>5. [stages[k] EXCEPT ![1] = new] \in Seq(Dir) /\ Len([stages[k] EXCEPT ![1] = new]) = 1
      /\ [stages[k] EXCEPT ![1] = new][1] = new
  BY <1>0, <1>2, <1>3, ExceptSeq
<1>6. LakeTypeOK'
  BY <1>0, <1>4, <1>5 DEF TypeOK, LakeTypeOK
<1>7. /\ stages'[k] = [stages[k] EXCEPT ![1] = new] /\ pc'[p] = "publish" /\ Elsewhere(k)
  BY <1>0, <1>4 DEF TypeOK, LakeTypeOK, ProcsTypeOK, Elsewhere, Goto
<1>8. Len(stages'[k]) = 1 /\ stages'[k][1] = new
  BY <1>5, <1>7
<1>9. (WriterOK(p) /\ CleanerOK(p))'
  BY <1>2, <1>3, <1>4, <1>7, <1>8 DEF WriterOK, CleanerOK, WritePC, CleanupPC
<1>10. LayoutOK(k)'
  <2>1. new.content = claim[k] /\ new.sound /\ ~acked[k]
    BY <1>0, <1>2, <1>3 DEF LayoutOK, Resolvable, Loads
  <2>2. Len(stages'[k]) <= 1
    BY <1>8
  <2> QED BY <1>2, <1>4, <1>8, <2>1, <2>2 DEF LayoutOK
<1> QED BY <1>1, <1>4, <1>6, <1>7, <1>9, <1>10, MoveOn DEF LockedPC, WritePC

LEMMA ReplyInv ==
  ASSUME LakeInv, NEW p \in Procs, Reply(p), Watch
  PROVE  LakeInv'
<1> DEFINE k == key[p]
<1> USE LakeAssumption, NoneIsNoDirectory DEF KeyTyped
<1>0. KeyTyped(k) /\ TypeOK /\ WriterOK(p) /\ CleanerOK(p) /\ LayoutOK(k)
  BY KeyTypes
<1>1. pc[p] \in LockedPC /\ pc[p] = "reply"
  BY DEF Reply, At, LockedPC, WritePC
<1>2. Leave(p) /\ UNCHANGED <<lake, key, arg, env>> /\ claim[k] = arg[p]
  BY <1>0, <1>1 DEF Reply, WriterOK, WritePC
<1>3. acked' = [acked EXCEPT ![k] = acked[k] \/ Loads(object[k], arg[p])]
  BY DEF Reply
<1>4. LakeTypeOK' /\ acked' \in [Keys -> BOOLEAN] /\ Elsewhere(k)
  <2>1. (acked[k] \/ Loads(object[k], arg[p])) \in BOOLEAN
    OBVIOUS
  <2>2. acked' \in [Keys -> BOOLEAN] /\ \A j \in Keys \ {k} : acked'[j] = acked[j]
    BY <1>0, <1>3, <2>1 DEF TypeOK
  <2> QED BY <1>0, <1>2, <2>2 DEF TypeOK, LakeTypeOK, Elsewhere, lake
<1>5. LayoutOK(k)'
  <2>1. acked'[k] => Resolvable(k, TRUE)
    <3>1. acked'[k] => acked[k] \/ Loads(object[k], claim[k])
      BY <1>0, <1>2, <1>3, ZenonT(20) DEF TypeOK
    <3>2. Loads(object[k], claim[k]) => Resolvable(k, TRUE)
      BY DEF Resolvable, Loads
    <3> QED BY <1>0, <3>1, <3>2 DEF LayoutOK
  <2>2. Resolvable(k, TRUE) => Resolvable(k, TRUE)'
    BY <1>2 DEF Resolvable, Loads, lake
  <2> QED BY <1>0, <1>2, <2>1, <2>2 DEF LayoutOK, lake
<1>6. faults' \in 0..MaxFaults /\ crashes' = crashes /\ damage' = damage
  BY <1>0, <1>2 DEF TypeOK, env
<1> QED BY <1>1, <1>2, <1>4, <1>5, <1>6, MoveOut

LEMMA FaultType ==
  ASSUME LakeInv, Fault
  PROVE  faults' \in 0..MaxFaults
<1>1. faults \in 0..MaxFaults
  BY DEF LakeInv, TypeOK
<1> QED BY <1>1, LakeAssumption DEF Fault

LEMMA WriteFailsInv ==
  ASSUME LakeInv, NEW p \in Procs, WriteFails(p), Watch
  PROVE  LakeInv'
<1> DEFINE k == key[p]
<1> USE LakeAssumption, NoneIsNoDirectory DEF KeyTyped
<1>0. KeyTyped(k) /\ TypeOK /\ WriterOK(p) /\ CleanerOK(p) /\ LayoutOK(k)
  BY KeyTypes
<1>1. pc[p] \in LockedPC /\ pc[p] \in WritePC
  BY DEF WriteFails, At, LockedPC, WritePC
<1>2. /\ Leave(p) /\ faults' \in 0..MaxFaults
      /\ UNCHANGED <<claim, object, deleting, tomb, aside, archive, key, arg, acked, crashes, damage>>
  BY FaultType DEF WriteFails
<1>3. CASE pc[p] \notin {"manifest", "publish"}
  <2>1. UNCHANGED lake
    BY <1>2, <1>3 DEF WriteFails, lake
  <2> QED BY <1>1, <1>2, <2>1, MoveOutQuietly
<1>4. CASE pc[p] \in {"manifest", "publish"}
  <2>1. SubSeq(stages[k], 1, Len(stages[k]) - 1) = <<>>
    BY <1>0, <1>4, OneElement DEF WriterOK, WritePC
  <2>2. stages' = [stages EXCEPT ![k] = <<>>]
    BY <1>4, <2>1 DEF WriteFails, RemoveOwnStage, OwnStage
  <2>3. LakeTypeOK' /\ acked' \in [Keys -> BOOLEAN]
    BY <1>0, <1>2, <2>2, EmptySeq DEF TypeOK, LakeTypeOK
  <2>4. stages'[k] = <<>> /\ Elsewhere(k)
    BY <1>0, <1>2, <2>2 DEF TypeOK, LakeTypeOK, Elsewhere
  <2>5. LayoutOK(k)'
    BY <1>0, <1>2, <2>4, NoStage DEF LayoutOK, Resolvable, Loads
  <2> QED BY <1>1, <1>2, <2>3, <2>4, <2>5, MoveOut
<1> QED BY <1>3, <1>4

LEMMA CleanupFailsInv ==
  ASSUME LakeInv, NEW p \in Procs, CleanupFails(p), Watch
  PROVE  LakeInv'
<1> DEFINE k == key[p]
<1> USE LakeAssumption, NoneIsNoDirectory DEF KeyTyped
<1>0. KeyTyped(k) /\ TypeOK /\ WriterOK(p) /\ CleanerOK(p) /\ LayoutOK(k)
  BY KeyTypes
<1>1. pc[p] \in LockedPC /\ pc[p] \in CleanupPC
  BY DEF CleanupFails, At, LockedPC, CleanupPC
<1>2. faults' \in 0..MaxFaults
  BY FaultType DEF CleanupFails
<1> QED BY <1>1, <1>2, MoveOutQuietly DEF CleanupFails

LEMMA ToDeletingLayout ==
  ASSUME LakeInv, NEW k \in Keys, ToDeleting(k), object[k] # None, deleting[k] = None,
         UNCHANGED <<claim, stages, tomb, aside, archive, acked>>
  PROVE  /\ LakeTypeOK' /\ Elsewhere(k) /\ LayoutOK(k)'
         /\ object'[k] = None /\ deleting'[k] = object[k]
<1>1. TypeOK /\ LayoutOK(k)
  BY DEF LakeInv
<1>2. /\ LakeTypeOK' /\ Elsewhere(k)
      /\ object'[k] = None /\ deleting'[k] = object[k]
  BY <1>1 DEF ToDeleting, TypeOK, LakeTypeOK, Elsewhere
<1>3. stages[k] = <<>>
  BY <1>1 DEF LayoutOK
<1>4. LayoutOK(k)'
  BY <1>1, <1>2, <1>3, NoStage DEF LayoutOK, Resolvable, Loads
<1> QED BY <1>2, <1>4

LEMMA JudgeArchivedInv ==
  ASSUME LakeInv, NEW p \in Procs, JudgeArchived(p), Watch
  PROVE  LakeInv'
<1> DEFINE k == key[p]
<1> USE LakeAssumption, NoneIsNoDirectory DEF KeyTyped
<1>0. KeyTyped(k) /\ TypeOK /\ WriterOK(p) /\ CleanerOK(p) /\ LayoutOK(k)
  BY KeyTypes
<1>1. pc[p] \in LockedPC /\ pc[p] = "judge"
  BY DEF JudgeArchived, At, LockedPC, CleanupPC
<1> DEFINE refused == tomb[k] # arg[p] \/ ~archive[k] \/ (object[k] # None /\ deleting[k] # None)
<1>2. /\ UNCHANGED <<claim, stages, tomb, aside, archive, key, arg, acked, env>>
      /\ tomb[k] # None /\ faults' \in 0..MaxFaults /\ arg[p] \in Receipts
  BY <1>0, <1>1 DEF JudgeArchived, TypeOK, env, CleanerOK, CleanupPC
<1>3. CASE Leave(p) /\ UNCHANGED <<object, deleting>>
  BY <1>1, <1>2, <1>3, MoveOutQuietly DEF lake, env
<1>4. CASE ~refused /\ object[k] # None /\ ToDeleting(k) /\ Goto(p, "unlink payload") /\ lock' = lock
  <2>1. /\ LakeTypeOK' /\ Elsewhere(k) /\ LayoutOK(k)'
        /\ object'[k] = None /\ deleting'[k] = object[k]
    BY <1>0, <1>2, <1>4, ToDeletingLayout
  <2>2. pc'[p] = "unlink payload"
    BY <1>0, <1>4 DEF TypeOK, ProcsTypeOK, Goto
  <2>3. (WriterOK(p) /\ CleanerOK(p))'
    BY <1>2, <1>4, <2>1, <2>2 DEF WriterOK, CleanerOK, WritePC, CleanupPC
  <2> QED BY <1>1, <1>2, <1>4, <2>1, <2>3, MoveOn DEF LockedPC, CleanupPC
<1>5. CASE /\ ~refused /\ object[k] = None /\ deleting[k] # None /\ UNCHANGED <<object, deleting>>
           /\ Goto(p, "unlink payload") /\ lock' = lock
  <2>1. (WriterOK(p) /\ CleanerOK(p))'
    BY <1>0, <1>2, <1>5
       DEF TypeOK, ProcsTypeOK, Goto, WriterOK, CleanerOK, WritePC, CleanupPC
  <2> QED BY <1>1, <1>2, <1>5, <2>1, MoveOnQuietly DEF LockedPC, CleanupPC, lake
<1> QED BY <1>3, <1>4, <1>5 DEF JudgeArchived, Stay

LEMMA JudgeInv ==
  ASSUME LakeInv, NEW p \in Procs, Judge(p), Watch
  PROVE  LakeInv'
<1> DEFINE k == key[p]
<1> USE LakeAssumption, NoneIsNoDirectory DEF KeyTyped
<1>0. KeyTyped(k) /\ TypeOK /\ WriterOK(p) /\ CleanerOK(p) /\ LayoutOK(k)
  BY KeyTypes
<1>1. pc[p] \in LockedPC /\ pc[p] = "judge"
  BY DEF Judge, At, LockedPC, CleanupPC
<1>2. UNCHANGED <<lake, key, arg, acked, env>> /\ faults' \in 0..MaxFaults
      /\ tomb[k] = None /\ arg[p] \in Receipts
  BY <1>0, <1>1 DEF Judge, TypeOK, env, CleanerOK, CleanupPC
<1>3. CASE Leave(p)
  BY <1>1, <1>2, <1>3, MoveOutQuietly DEF env
<1>4. CASE deleting[k] # None /\ Cleanable(deleting, k) /\ Goto(p, "tomb") /\ lock' = lock
  <2>1. object[k] = None /\ archive[k]
    BY <1>0, <1>4 DEF LayoutOK, Cleanable
  <2>2. (WriterOK(p) /\ CleanerOK(p))'
    BY <1>0, <1>2, <1>4, <2>1
       DEF TypeOK, ProcsTypeOK, Goto, WriterOK, CleanerOK, WritePC, CleanupPC, lake
  <2> QED BY <1>1, <1>2, <1>4, <2>2, MoveOnQuietly DEF LockedPC, CleanupPC
<1>5. CASE deleting[k] = None /\ Cleanable(object, k) /\ Goto(p, "rename") /\ lock' = lock
  <2>1. object[k] # None /\ Loads(object[k], claim[k]) /\ archive[k]
    BY <1>5 DEF Cleanable
  <2>2. (WriterOK(p) /\ CleanerOK(p))'
    BY <1>0, <1>2, <1>5, <2>1
       DEF TypeOK, ProcsTypeOK, Goto, WriterOK, CleanerOK, WritePC, CleanupPC, lake
  <2> QED BY <1>1, <1>2, <1>5, <2>2, MoveOnQuietly DEF LockedPC, CleanupPC
<1> QED BY <1>3, <1>4, <1>5 DEF Judge, Stay

LEMMA RenameObjectInv ==
  ASSUME LakeInv, NEW p \in Procs, RenameObject(p), Watch
  PROVE  LakeInv'
<1> DEFINE k == key[p]
<1> USE LakeAssumption, NoneIsNoDirectory DEF KeyTyped
<1>0. KeyTyped(k) /\ TypeOK /\ WriterOK(p) /\ CleanerOK(p) /\ LayoutOK(k)
  BY KeyTypes
<1>1. pc[p] \in LockedPC /\ pc[p] = "rename"
  BY DEF RenameObject, At, LockedPC, CleanupPC
<1>2. /\ UNCHANGED <<claim, stages, tomb, aside, archive, lock, key, arg, acked, env>>
      /\ ToDeleting(k) /\ Goto(p, "tomb") /\ arg[p] \in Receipts
      /\ object[k] # None /\ deleting[k] = None /\ tomb[k] = None /\ archive[k]
  BY <1>0, <1>1 DEF RenameObject, AfterRename, CleanerOK, CleanupPC
<1>3. /\ LakeTypeOK' /\ Elsewhere(k) /\ LayoutOK(k)'
      /\ object'[k] = None /\ deleting'[k] = object[k]
  BY <1>0, <1>2, ToDeletingLayout
<1>4. pc'[p] = "tomb"
  BY <1>0, <1>2 DEF TypeOK, ProcsTypeOK, Goto
<1>5. (WriterOK(p) /\ CleanerOK(p))'
  BY <1>2, <1>3, <1>4 DEF WriterOK, CleanerOK, WritePC, CleanupPC
<1> QED BY <1>1, <1>2, <1>3, <1>5, MoveOn DEF LockedPC, CleanupPC

LEMMA WriteTombstoneInv ==
  ASSUME LakeInv, NEW p \in Procs, WriteTombstone(p), Watch
  PROVE  LakeInv'
<1> DEFINE k == key[p]
<1> USE LakeAssumption, NoneIsNoDirectory DEF KeyTyped
<1>0. KeyTyped(k) /\ TypeOK /\ WriterOK(p) /\ CleanerOK(p) /\ LayoutOK(k)
  BY KeyTypes
<1>1. pc[p] \in LockedPC /\ pc[p] = "tomb"
  BY DEF WriteTombstone, At, LockedPC, CleanupPC
<1>2. /\ tomb' = [tomb EXCEPT ![k] = arg[p]] /\ Goto(p, "unlink payload")
      /\ UNCHANGED <<claim, stages, object, deleting, aside, archive, lock, key, arg, acked, env>>
      /\ object[k] = None /\ deleting[k] # None /\ tomb[k] = None /\ archive[k] /\ arg[p] \in Receipts
  BY <1>0, <1>1 DEF WriteTombstone, CleanerOK, CleanupPC
<1>3. LakeTypeOK'
  BY <1>0, <1>2 DEF TypeOK, LakeTypeOK
<1>4. tomb'[k] = arg[p] /\ arg[p] # None /\ pc'[p] = "unlink payload" /\ Elsewhere(k)
  BY <1>0, <1>2 DEF TypeOK, LakeTypeOK, ProcsTypeOK, Elsewhere, Goto
<1>5. (WriterOK(p) /\ CleanerOK(p))'
  BY <1>2, <1>4 DEF WriterOK, CleanerOK, WritePC, CleanupPC
<1>6. LayoutOK(k)'
  <2>1. stages[k] = <<>>
    BY <1>0, <1>2 DEF LayoutOK
  <2>2. deleting[k].content = claim[k] /\ claim[k] # None
    BY <1>0, <1>2 DEF LayoutOK, Dir
  <2> QED BY <1>2, <1>4, <2>1, <2>2, NoStage DEF LayoutOK, Resolvable
<1> QED BY <1>1, <1>2, <1>3, <1>4, <1>5, <1>6, MoveOn DEF LockedPC, CleanupPC

LEMMA UnlinkLayout ==
  ASSUME LakeInv, NEW k \in Keys, NEW f \in SUBSET Files, deleting[k] # None, tomb[k] # None,
         deleting' = [deleting EXCEPT ![k].files = f],
         UNCHANGED <<claim, stages, object, tomb, aside, archive, acked>>
  PROVE  LakeTypeOK' /\ Elsewhere(k) /\ LayoutOK(k)' /\ deleting'[k] # None
<1>1. TypeOK /\ LayoutOK(k) /\ deleting[k] \in Dir
  BY DEF LakeInv, TypeOK, LakeTypeOK
<1> DEFINE new == [deleting[k] EXCEPT !.files = f]
<1>2. new \in Dir /\ new.content = deleting[k].content /\ new # None
  BY <1>1, NoneIsNoDirectory DEF Dir
<1>3. deleting' = [deleting EXCEPT ![k] = new]
  OBVIOUS
<1>4. LakeTypeOK' /\ Elsewhere(k) /\ deleting'[k] = new
  BY <1>1, <1>2, <1>3 DEF TypeOK, LakeTypeOK, Elsewhere
<1>5. LayoutOK(k)'
  BY <1>1, <1>2, <1>4 DEF LayoutOK, Resolvable, Loads
<1> QED BY <1>2, <1>4, <1>5

LEMMA UnlinkPayloadInv ==
  ASSUME LakeInv, NEW p \in Procs, UnlinkPayload(p), Watch
  PROVE  LakeInv'
<1> DEFINE k == key[p]
<1> USE LakeAssumption, NoneIsNoDirectory DEF KeyTyped
<1>0. KeyTyped(k) /\ TypeOK /\ WriterOK(p) /\ CleanerOK(p) /\ LayoutOK(k)
  BY KeyTypes
<1>1. pc[p] \in LockedPC /\ pc[p] = "unlink payload"
  BY DEF UnlinkPayload, At, LockedPC, CleanupPC
<1>2. /\ UNCHANGED <<claim, stages, object, tomb, aside, archive, key, arg, acked, env>>
      /\ faults' \in 0..MaxFaults
      /\ object[k] = None /\ deleting[k] # None /\ tomb[k] # None /\ arg[p] \in Receipts
  BY <1>0, <1>1 DEF UnlinkPayload, CleanerOK, CleanupPC, TypeOK, env
<1>3. CASE Leave(p) /\ UNCHANGED deleting
  BY <1>1, <1>2, <1>3, MoveOutQuietly DEF lake, env
<1>4. CASE /\ deleting' = [deleting EXCEPT ![k].files = @ \ {"payload"}]
           /\ Goto(p, "unlink manifest") /\ lock' = lock
  <2>1. deleting[k].files \ {"payload"} \in SUBSET Files
    BY <1>0, <1>2 DEF Dir
  <2>2. LakeTypeOK' /\ Elsewhere(k) /\ LayoutOK(k)' /\ deleting'[k] # None
    BY ZenonT(40), <1>0, <1>2, <1>4, <2>1, UnlinkLayout
  <2>3. pc'[p] = "unlink manifest"
    BY <1>0, <1>4 DEF TypeOK, ProcsTypeOK, Goto
  <2>4. (WriterOK(p) /\ CleanerOK(p))'
    BY <1>2, <2>2, <2>3 DEF WriterOK, CleanerOK, WritePC, CleanupPC
  <2> QED BY <1>1, <1>2, <1>4, <2>2, <2>4, MoveOn DEF LockedPC, CleanupPC
<1> QED BY <1>3, <1>4 DEF UnlinkPayload, Stay

LEMMA UnlinkManifestInv ==
  ASSUME LakeInv, NEW p \in Procs, UnlinkManifest(p), Watch
  PROVE  LakeInv'
<1> DEFINE k == key[p]
<1> USE LakeAssumption, NoneIsNoDirectory DEF KeyTyped
<1>0. KeyTyped(k) /\ TypeOK /\ WriterOK(p) /\ CleanerOK(p) /\ LayoutOK(k)
  BY KeyTypes
<1>1. pc[p] \in LockedPC /\ pc[p] = "unlink manifest"
  BY DEF UnlinkManifest, At, LockedPC, CleanupPC
<1>2. /\ UNCHANGED <<claim, stages, object, tomb, aside, archive, lock, key, arg, acked, env>>
      /\ object[k] = None /\ deleting[k] # None /\ tomb[k] # None /\ arg[p] \in Receipts
      /\ deleting' = [deleting EXCEPT ![k].files = @ \ {"manifest"}] /\ Goto(p, "rmdir")
  BY <1>0, <1>1 DEF UnlinkManifest, CleanerOK, CleanupPC
<1>3. deleting[k].files \ {"manifest"} \in SUBSET Files
  BY <1>0, <1>2 DEF Dir
<1>4. LakeTypeOK' /\ Elsewhere(k) /\ LayoutOK(k)' /\ deleting'[k] # None
  BY ZenonT(40), <1>0, <1>2, <1>3, UnlinkLayout
<1>5. pc'[p] = "rmdir"
  BY <1>0, <1>2 DEF TypeOK, ProcsTypeOK, Goto
<1>6. (WriterOK(p) /\ CleanerOK(p))'
  BY <1>2, <1>4, <1>5 DEF WriterOK, CleanerOK, WritePC, CleanupPC
<1> QED BY <1>1, <1>2, <1>4, <1>6, MoveOn DEF LockedPC, CleanupPC

LEMMA RemoveDeletingInv ==
  ASSUME LakeInv, NEW p \in Procs, RemoveDeleting(p), Watch
  PROVE  LakeInv'
<1> DEFINE k == key[p]
<1> USE LakeAssumption, NoneIsNoDirectory DEF KeyTyped
<1>0. KeyTyped(k) /\ TypeOK /\ WriterOK(p) /\ CleanerOK(p) /\ LayoutOK(k)
  BY KeyTypes
<1>1. pc[p] \in LockedPC /\ pc[p] = "rmdir"
  BY DEF RemoveDeleting, At, LockedPC, CleanupPC
<1>2. /\ UNCHANGED <<claim, stages, object, tomb, aside, archive, key, arg, acked, env>>
      /\ object[k] = None /\ deleting[k] # None /\ tomb[k] # None
      /\ deleting' = [deleting EXCEPT ![k] = None] /\ Leave(p)
  BY <1>0, <1>1 DEF RemoveDeleting, CleanerOK, CleanupPC
<1>3. LakeTypeOK' /\ Elsewhere(k) /\ deleting'[k] = None /\ acked' \in [Keys -> BOOLEAN]
  BY <1>0, <1>2 DEF TypeOK, LakeTypeOK, Elsewhere
<1>4. LayoutOK(k)'
  BY <1>0, <1>2, <1>3 DEF LayoutOK, Resolvable
<1>5. faults' \in 0..MaxFaults /\ crashes' = crashes /\ damage' = damage
  BY <1>0, <1>2 DEF TypeOK, env
<1> QED BY <1>1, <1>2, <1>3, <1>4, <1>5, MoveOut

-----------------------------------------------------------------------------
(* Calls begin, reads and crashes: the lake stays as it is. *)

LEMMA LakeUntouched ==
  ASSUME LakeInv, TypeOK', NEW p \in Procs, UNCHANGED <<lake, acked>>,
         \A q \in Procs \ {p} :
           /\ pc'[q] = pc[q] /\ key'[q] = key[q] /\ arg'[q] = arg[q]
           /\ pc[q] \in LockedPC => lock'[key[q]] = q,
         pc'[p] \in LockedPC => lock'[key'[p]] = p,
         (WriterOK(p) /\ CleanerOK(p))'
  PROVE  LakeInv'
<1>1. Owners'
  BY DEF Owners
<1>2. ASSUME NEW q \in Procs, q # p PROVE (WriterOK(q) /\ CleanerOK(q))'
  <2>1. WriterOK(q) /\ CleanerOK(q) /\ pc'[q] = pc[q] /\ key'[q] = key[q] /\ arg'[q] = arg[q]
    BY <1>2 DEF LakeInv
  <2>2. WriterOK(q)'
    BY <2>1 DEF WriterOK, lake
  <2>3. CleanerOK(q)'
    BY <2>1 DEF CleanerOK, lake
  <2> QED BY <2>2, <2>3
<1>3. ASSUME NEW k \in Keys PROVE LayoutOK(k)'
  <2>1. LayoutOK(k)
    BY DEF LakeInv
  <2> QED BY <2>1 DEF LayoutOK, Resolvable, Loads, lake
<1> QED BY <1>1, <1>2, <1>3 DEF LakeInv

LEMMA AcquireInv ==
  ASSUME LakeInv, NEW p \in Procs, NEW k \in Keys, NEW a \in Contents \cup Receipts,
         NEW l \in {"claim", "judge"}, Acquire(p, k, a, l),
         IF l = "claim" THEN a \in Contents ELSE a \in Receipts,
         UNCHANGED <<lake, acked, env>>, Watch
  PROVE  LakeInv'
<1>1. TypeOK /\ Owners
  BY DEF LakeInv
<1>2. /\ pc' = [pc EXCEPT ![p] = l] /\ key' = [key EXCEPT ![p] = k]
      /\ arg' = [arg EXCEPT ![p] = a] /\ lock' = [lock EXCEPT ![k] = p] /\ lock[k] = None
  BY DEF Acquire, Goto
<1>3. TypeOK'
  <2>1. LakeTypeOK'
    BY <1>1 DEF TypeOK, LakeTypeOK, lake
  <2>2. ProcsTypeOK'
    BY <1>1, <1>2 DEF TypeOK, ProcsTypeOK, LockedPC, WritePC, CleanupPC
  <2> QED BY <1>1, <2>1, <2>2, CalmType DEF TypeOK, env
<1>4. pc'[p] = l /\ key'[p] = k /\ arg'[p] = a /\ lock'[k] = p
  BY <1>1, <1>2 DEF TypeOK, ProcsTypeOK
<1>5. ASSUME NEW q \in Procs \ {p}
      PROVE  /\ pc'[q] = pc[q] /\ key'[q] = key[q] /\ arg'[q] = arg[q]
             /\ pc[q] \in LockedPC => lock'[key[q]] = q
  <2>1. pc[q] \in LockedPC => key[q] # k
    BY <1>1, <1>2, LakeAssumption DEF Owners
  <2> QED BY <1>1, <1>2, <2>1 DEF Owners, TypeOK, ProcsTypeOK
<1>6. (WriterOK(p) /\ CleanerOK(p))'
  BY <1>4 DEF WriterOK, CleanerOK, WritePC, CleanupPC
<1> QED BY <1>3, <1>4, <1>5, <1>6, LakeUntouched

\* A reader finds its label outside the calls that hold a key.
LEMMA ReadingInv ==
  ASSUME LakeInv, NEW p \in Procs, NEW k \in Keys, NEW a \in Contents \cup Receipts \cup {None},
         NEW l \in {"returned", "failed"} \cup ReadPC,
         key' = [key EXCEPT ![p] = k], arg' = [arg EXCEPT ![p] = a], Goto(p, l),
         UNCHANGED <<lake, lock, acked, env>>, Watch
  PROVE  LakeInv'
<1>1. TypeOK /\ Owners
  BY DEF LakeInv
<1>2. TypeOK'
  <2>1. LakeTypeOK'
    BY <1>1 DEF TypeOK, LakeTypeOK, lake
  <2>2. ProcsTypeOK'
    BY <1>1 DEF TypeOK, ProcsTypeOK, Goto
  <2> QED BY <1>1, <2>1, <2>2, CalmType DEF TypeOK, env
<1>3. pc'[p] = l /\ l \notin LockedPC
  BY <1>1 DEF TypeOK, ProcsTypeOK, Goto, LockedPC, WritePC, CleanupPC, ReadPC
<1>4. ASSUME NEW q \in Procs \ {p}
      PROVE  /\ pc'[q] = pc[q] /\ key'[q] = key[q] /\ arg'[q] = arg[q]
             /\ pc[q] \in LockedPC => lock'[key[q]] = q
  BY <1>1 DEF TypeOK, ProcsTypeOK, Owners, Goto
<1>5. (WriterOK(p) /\ CleanerOK(p))'
  BY <1>3 DEF WriterOK, CleanerOK, LockedPC, WritePC, CleanupPC
<1> QED BY <1>2, <1>3, <1>4, <1>5, LakeUntouched

LEMMA ReadInv ==
  ASSUME LakeInv, NEW p \in Procs, Read(p), Watch
  PROVE  LakeInv'
<1>1. key[p] \in Keys /\ arg[p] \in Contents \cup Receipts \cup {None}
      /\ key = [key EXCEPT ![p] = key[p]] /\ arg = [arg EXCEPT ![p] = arg[p]]
  BY DEF LakeInv, TypeOK, ProcsTypeOK
<1>2. UNCHANGED <<lake, lock, key, arg, acked, env>>
  BY DEF Read, FindObject, LoadObject, ReadBytes, FindTombstone, FindDeleting
<1>3. PICK l \in {"returned", "failed"} \cup ReadPC : Goto(p, l)
  <2>1. CASE FindObject(p)
    BY <2>1 DEF FindObject, ReadPC
  <2>2. CASE LoadObject(p)
    BY <2>2 DEF LoadObject, ReadPC
  <2>3. CASE ReadBytes(p)
    BY <2>3 DEF ReadBytes, ReadPC
  <2>4. CASE FindTombstone(p)
    BY <2>4 DEF FindTombstone, ReadPC
  <2>5. CASE FindDeleting(p)
    BY <2>5 DEF FindDeleting, ReadPC
  <2> QED BY <2>1, <2>2, <2>3, <2>4, <2>5 DEF Read
<1> QED BY <1>1, <1>2, <1>3, ReadingInv

LEMMA ReadCallInv ==
  ASSUME LakeInv, NEW p \in Procs, NEW k \in Keys, NEW l \in {"find", "find archived"},
         ReadCall(p, k, l), Watch
  PROVE  LakeInv'
<1>1. claim[k] \in Contents \cup Receipts \cup {None}
  BY DEF LakeInv, TypeOK, LakeTypeOK
<1>2. l \in {"returned", "failed"} \cup ReadPC
  BY DEF ReadPC
<1> QED BY <1>1, <1>2, ReadingInv DEF ReadCall

LEMMA CrashInv ==
  ASSUME LakeInv, NEW p \in Procs, Crash(p), Watch
  PROVE  LakeInv'
<1> USE LakeAssumption
<1>1. TypeOK /\ Owners
  BY DEF LakeInv
<1>2. TypeOK'
  <2>1. LakeTypeOK'
    BY <1>1 DEF TypeOK, LakeTypeOK, lake, Crash
  <2>2. ProcsTypeOK'
    BY <1>1 DEF TypeOK, ProcsTypeOK, Goto, Crash
  <2>3. crashes' \in 0..MaxCrashes
    BY <1>1 DEF TypeOK, Crash
  <2> QED BY <1>1, <2>1, <2>2, <2>3, CalmType DEF TypeOK, Crash
<1>3. pc'[p] = "idle"
  BY <1>1 DEF TypeOK, ProcsTypeOK, Goto, Crash
<1>4. ASSUME NEW q \in Procs \ {p}
      PROVE  /\ pc'[q] = pc[q] /\ key'[q] = key[q] /\ arg'[q] = arg[q]
             /\ pc[q] \in LockedPC => lock'[key[q]] = q
  <2>1. pc[q] \in LockedPC => lock[key[q]] = q /\ key[q] \in Keys
    BY <1>1 DEF Owners, TypeOK, ProcsTypeOK
  <2> QED BY <1>1, <2>1 DEF TypeOK, ProcsTypeOK, Goto, Crash
<1>5. (WriterOK(p) /\ CleanerOK(p))' /\ pc'[p] \notin LockedPC
  BY <1>3 DEF WriterOK, CleanerOK, LockedPC, WritePC, CleanupPC
<1> QED BY <1>2, <1>4, <1>5, LakeUntouched DEF Crash

-----------------------------------------------------------------------------
(* The environment. *)

LEMMA CopyToArchiveInv ==
  ASSUME LakeInv, NEW k \in Keys, CopyToArchive(k), Watch
  PROVE  LakeInv'
<1>1. TypeOK /\ Owners
  BY DEF LakeInv
<1>2. /\ archive' = [archive EXCEPT ![k] = TRUE]
      /\ UNCHANGED <<claim, stages, object, deleting, tomb, aside, lock, pc, key, arg, acked, env>>
  BY DEF CopyToArchive, procs
<1>3. TypeOK' /\ Owners'
  <2>1. LakeTypeOK'
    BY <1>1, <1>2 DEF TypeOK, LakeTypeOK
  <2>2. ProcsTypeOK' /\ Owners'
    BY <1>1, <1>2 DEF TypeOK, ProcsTypeOK, Owners
  <2> QED BY <1>1, <1>2, <2>1, <2>2, CalmType DEF TypeOK, env
<1>4. \A j \in Keys : archive[j] => archive'[j]
  BY <1>1, <1>2 DEF TypeOK, LakeTypeOK
<1>5. ASSUME NEW q \in Procs PROVE (WriterOK(q) /\ CleanerOK(q))'
  <2>1. WriterOK(q) /\ CleanerOK(q) /\ key[q] \in Keys
    BY DEF LakeInv, TypeOK, ProcsTypeOK
  <2>2. WriterOK(q)'
    BY <1>2, <2>1 DEF WriterOK
  <2>3. CleanerOK(q)'
    BY <1>2, <1>4, <2>1 DEF CleanerOK
  <2> QED BY <2>2, <2>3
<1>6. ASSUME NEW j \in Keys PROVE LayoutOK(j)'
  <2>1. LayoutOK(j)
    BY DEF LakeInv
  <2> QED BY <1>2, <1>4, <2>1 DEF LayoutOK, Resolvable, Loads
<1> QED BY <1>3, <1>5, <1>6 DEF LakeInv

LEMMA DamageInv ==
  ASSUME LakeInv, NEW k \in Keys, Damage(k), Watch
  PROVE  LakeInv'
<1> USE LakeAssumption, NoneIsNoDirectory
<1>1. TypeOK /\ Owners /\ object[k] \in Dir
  BY DEF LakeInv, TypeOK, LakeTypeOK, Damage
<1> DEFINE new == [object[k] EXCEPT !.sound = FALSE]
<1>2. /\ object' = [object EXCEPT ![k] = new] /\ acked' = [acked EXCEPT ![k] = FALSE]
      /\ UNCHANGED <<claim, stages, deleting, tomb, aside, archive, lock, pc, key, arg, crashes, faults>>
  BY DEF Damage, procs
<1>3. new \in Dir /\ new # None /\ new.content = object[k].content
  BY <1>1 DEF Dir
<1>4. TypeOK' /\ Owners'
  <2>1. LakeTypeOK'
    BY <1>1, <1>2, <1>3 DEF TypeOK, LakeTypeOK
  <2>2. ProcsTypeOK' /\ Owners'
    BY <1>1, <1>2 DEF TypeOK, ProcsTypeOK, Owners
  <2>3. damage' \in 0..MaxDamage /\ acked' \in [Keys -> BOOLEAN]
    BY <1>1, <1>2 DEF TypeOK, Damage
  <2> QED BY <1>1, <1>2, <2>1, <2>2, <2>3, CalmType DEF TypeOK
<1>5. /\ object[k] # None /\ object'[k] = new /\ ~acked'[k]
      /\ \A j \in Keys \ {k} : object'[j] = object[j] /\ acked'[j] = acked[j]
  BY <1>1, <1>2 DEF TypeOK, LakeTypeOK, Damage
<1>6. ASSUME NEW q \in Procs PROVE (WriterOK(q) /\ CleanerOK(q))'
  <2>1. WriterOK(q) /\ CleanerOK(q) /\ key[q] \in Keys
    BY DEF LakeInv, TypeOK, ProcsTypeOK
  <2>2. object'[key[q]] = None <=> object[key[q]] = None
    BY <1>3, <1>5, <2>1
  <2>3. WriterOK(q)'
    BY <1>2, <2>1, <2>2 DEF WriterOK
  <2>4. CleanerOK(q)'
    BY <1>2, <2>1, <2>2 DEF CleanerOK
  <2> QED BY <2>3, <2>4
<1>7. ASSUME NEW j \in Keys PROVE LayoutOK(j)'
  <2>1. LayoutOK(j)
    BY DEF LakeInv
  <2>2. CASE j = k
    BY <1>2, <1>3, <1>5, <2>1, <2>2 DEF LayoutOK
  <2>3. CASE j # k
    BY <1>2, <1>5, <2>1, <2>3 DEF LayoutOK, Resolvable, Loads
  <2> QED BY <2>2, <2>3
<1> QED BY <1>4, <1>6, <1>7 DEF LakeInv

-----------------------------------------------------------------------------
(* The invariant is inductive. *)

LEMMA WriteInv ==
  ASSUME LakeInv, NEW p \in Procs, Write(p), Watch
  PROVE  LakeInv'
  BY FindClaimInv, BindKeyInv, CheckRetiredInv, RecoverStageInv, RecoverDoneInv, ExistingInv,
     CheckCapacityInv, StagePayloadInv, StageManifestInv, PublishObjectInv, ReplyInv DEF Write

LEMMA CleanupInv ==
  ASSUME LakeInv, NEW p \in Procs, Cleanup(p), Watch
  PROVE  LakeInv'
  BY JudgeArchivedInv, JudgeInv, RenameObjectInv, WriteTombstoneInv, UnlinkPayloadInv,
     UnlinkManifestInv, RemoveDeletingInv DEF Cleanup

LEMMA StutterInv == LakeInv /\ UNCHANGED vars => LakeInv'
<1> SUFFICES ASSUME LakeInv, UNCHANGED vars PROVE LakeInv'
  OBVIOUS
<1>1. UNCHANGED <<lake, procs, acked, calm, env>>
  BY DEF vars
<1>2. TypeOK' /\ Owners'
  BY <1>1 DEF LakeInv, TypeOK, LakeTypeOK, ProcsTypeOK, Owners, lake, procs, env
<1>3. ASSUME NEW p \in Procs PROVE (WriterOK(p) /\ CleanerOK(p))'
  <2>1. WriterOK(p) /\ CleanerOK(p)
    BY DEF LakeInv
  <2> QED BY <1>1, <2>1 DEF WriterOK, CleanerOK, lake, procs
<1>4. ASSUME NEW k \in Keys PROVE LayoutOK(k)'
  <2>1. LayoutOK(k)
    BY DEF LakeInv
  <2> QED BY <1>1, <2>1 DEF LayoutOK, Resolvable, Loads, lake
<1> QED BY <1>2, <1>3, <1>4 DEF LakeInv

LEMMA NextInv == LakeInv /\ Next => LakeInv'
<1> SUFFICES ASSUME LakeInv, Next PROVE LakeInv'
  OBVIOUS
<1>0. Watch
  BY DEF Next
<1>1. ASSUME NEW p \in Procs, NEW k \in Keys, NEW c \in Contents, WriteCall(p, k, c)
      PROVE  LakeInv'
  BY <1>0, <1>1, AcquireInv DEF WriteCall
<1>2. ASSUME NEW p \in Procs, NEW k \in Keys, NEW r \in Receipts, CleanupCall(p, k, r)
      PROVE  LakeInv'
  BY <1>0, <1>2, AcquireInv DEF CleanupCall
<1>3. ASSUME NEW p \in Procs, NEW k \in Keys, NEW l \in {"find", "find archived"}, ReadCall(p, k, l)
      PROVE  LakeInv'
  BY <1>0, <1>3, ReadCallInv
<1>4. ASSUME NEW p \in Procs, Step(p) \/ WriteFails(p) \/ CleanupFails(p) \/ Crash(p)
      PROVE  LakeInv'
  BY <1>0, <1>4, WriteInv, CleanupInv, ReadInv, WriteFailsInv, CleanupFailsInv, CrashInv DEF
     Step
<1>5. ASSUME NEW k \in Keys, CopyToArchive(k) \/ Damage(k)
      PROVE  LakeInv'
  BY <1>0, <1>5, CopyToArchiveInv, DamageInv
<1> QED BY <1>1, <1>2, <1>3, <1>4, <1>5 DEF Next

THEOREM LakeInvariant == Spec => []LakeInv
<1>1. LakeInv /\ [Next]_vars => LakeInv'
  BY NextInv, StutterInv
<1> QED BY InitInv, <1>1, PTL DEF Spec

-----------------------------------------------------------------------------
(* Every variable keeps its type. *)
THEOREM LakeTypeCorrect == Spec => []TypeOK
<1>1. LakeInv => TypeOK
  BY DEF LakeInv
<1> QED BY LakeInvariant, <1>1, PTL

(* A key has one content for ever, whoever wrote it and whatever was cut    *)
(* short: write_raw_bytes and cleanup_archived_raw_object never publish or  *)
(* remove anything but what the claim names.                                *)
THEOREM OneContentHolds == Spec => []OneContent
<1>1. LakeInv => OneContent
  BY DEF LakeInv, LayoutOK, OneContent
<1> QED BY LakeInvariant, <1>1, PTL

(* An acknowledged write stays resolvable through cleanups, crashes and     *)
(* failures: _finalize_raw_deleting destroys only what the archive holds    *)
(* and the tombstone points to.                                             *)
THEOREM AcknowledgedResolvableHolds == Spec => []AcknowledgedResolvable
<1>1. LakeInv => AcknowledgedResolvable
  BY DEF LakeInv, LayoutOK, AcknowledgedResolvable
<1> QED BY LakeInvariant, <1>1, PTL

(* _recover_raw_staging leaves nothing behind: there is never more than one *)
(* stage of a key, and none beside a published object.                      *)
THEOREM OneStageHolds == Spec => []OneStage
<1>1. LakeInv => OneStage
  BY DEF LakeInv, LayoutOK, OneStage
<1> QED BY LakeInvariant, <1>1, PTL

(* write_raw_bytes never brings a key back whose cleanup wrote a tombstone. *)
THEOREM NeverHotAgainHolds == Spec => NeverHotAgain
<1> DEFINE Cold == \A k \in Keys : tomb[k] # None /\ object[k] = None => object'[k] = None
<1>1. ASSUME LakeInv, [Next]_vars PROVE Cold
  <2> SUFFICES ASSUME NEW k \in Keys, tomb[k] # None, object[k] = None PROVE object'[k] = None
    OBVIOUS
  <2>0. object \in [Keys -> Dir \cup {None}]
    BY <1>1 DEF LakeInv, TypeOK, LakeTypeOK
  <2>1. CASE UNCHANGED vars
    BY <2>1 DEF vars, lake
  <2>2. ASSUME NEW p \in Procs, RecoverStage(p) PROVE object'[k] = None
    <3>1. stages[key[p]] # <<>> /\ key[p] \in Keys
      BY <1>1, <2>2 DEF RecoverStage, LakeInv, TypeOK, ProcsTypeOK
    <3>2. key[p] # k
      BY <1>1, <3>1 DEF LakeInv, LayoutOK
    <3> QED BY <2>0, <2>2, <3>2 DEF RecoverStage
  <2>3. ASSUME NEW p \in Procs, PublishObject(p) PROVE object'[k] = None
    <3>1. WriterOK(p) /\ pc[p] = "publish"
      BY <1>1, <2>3 DEF LakeInv, PublishObject, At
    <3>2. key[p] # k
      BY <3>1 DEF WriterOK, WritePC
    <3> QED BY <2>0, <2>3, <3>2 DEF PublishObject
  <2>4. ASSUME NEW p \in Procs, Write(p), ~RecoverStage(p), ~PublishObject(p)
        PROVE  object'[k] = None
    BY <2>0, <2>4 DEF Write, FindClaim, BindKey, CheckRetired, RecoverDone, Existing,
       CheckCapacity,
       StagePayload, StageManifest, Reply, lake
  <2>5. ASSUME NEW p \in Procs, Cleanup(p) PROVE object'[k] = None
    BY <2>0, <2>5 DEF Cleanup, JudgeArchived, Judge, RenameObject, ToDeleting, WriteTombstone,
       UnlinkPayload, UnlinkManifest, RemoveDeleting, lake
  <2>6. ASSUME NEW p \in Procs, Read(p) PROVE object'[k] = None
    BY <2>6 DEF Read, FindObject, LoadObject, ReadBytes, FindTombstone, FindDeleting, lake
  <2>7. ASSUME NEW p \in Procs, WriteFails(p) \/ CleanupFails(p) \/ Crash(p)
        PROVE  object'[k] = None
    BY <2>7 DEF WriteFails, CleanupFails, Crash, lake
  <2>8. ASSUME NEW p \in Procs, NEW j \in Keys,
               \/ \E c \in Contents : WriteCall(p, j, c)
               \/ \E r \in Receipts : CleanupCall(p, j, r)
               \/ ReadCall(p, j, "find") \/ ReadCall(p, j, "find archived")
        PROVE  object'[k] = None
    BY <2>8 DEF WriteCall, CleanupCall, ReadCall, lake
  <2>9. ASSUME NEW j \in Keys, CopyToArchive(j) \/ Damage(j) PROVE object'[k] = None
    BY <2>0, <2>9 DEF CopyToArchive, Damage
  <2> QED BY <1>1, <2>1, <2>2, <2>3, <2>4, <2>5, <2>6, <2>7, <2>8, <2>9 DEF Next, Step
<1> QED BY LakeInvariant, <1>1, PTL DEF Spec, NeverHotAgain

-----------------------------------------------------------------------------
(* Readers hold nothing.  What a calm reader has seen is still so at its    *)
(* next step, since nothing of its key has moved, a claim once made stays   *)
(* and an archived copy is never lost.                                      *)

ReaderOK(p) ==
  LET k == key[p] IN
  /\ pc[p] \in ReadPC => arg[p] = claim[k] /\ claim[k] # None
  /\ calm[p] =>
       /\ pc[p] = "find" => Resolvable(k, FALSE)
       /\ pc[p] = "find archived" => Resolvable(k, TRUE)
       /\ pc[p] \in {"load", "load archived"} => Loads(object[k], claim[k])
       /\ pc[p] = "bytes" => object[k] # None
       /\ pc[p] = "tombed" => object[k] = None /\ Resolvable(k, TRUE)
       /\ pc[p] = "leaving" => object[k] = None /\ tomb[k] = None /\ Resolvable(k, TRUE)
       /\ pc[p] # "failed"

ReadersOK == \A p \in Procs : ReaderOK(p)

\* Claims and archived copies stay.
Lasting ==
  \A k \in Keys : (claim[k] # None => claim'[k] = claim[k]) /\ (archive[k] => archive'[k])

\* What a step that reads nothing does to a process.
Passive(q) ==
  \/ pc'[q] = pc[q] /\ key'[q] = key[q] /\ arg'[q] = arg[q]
  \/ pc'[q] \in {"idle"} \cup LockedPC

LEMMA LastingStep ==
  ASSUME LakeInv, Next
  PROVE  Lasting
<1> SUFFICES ASSUME NEW k \in Keys
             PROVE  (claim[k] # None => claim'[k] = claim[k]) /\ (archive[k] => archive'[k])
  BY DEF Lasting
<1>0. claim \in [Keys -> Contents \cup {None}] /\ archive \in [Keys -> BOOLEAN]
  BY DEF LakeInv, TypeOK, LakeTypeOK
<1>1. ASSUME NEW p \in Procs, BindKey(p)
      PROVE  (claim[k] # None => claim'[k] = claim[k]) /\ archive' = archive
  <2>1. claim[key[p]] = None
    BY <1>1 DEF LakeInv, WriterOK, BindKey, At
  <2> QED BY <1>0, <1>1, <2>1 DEF BindKey
<1>2. ASSUME NEW p \in Procs, Write(p), ~BindKey(p) PROVE claim' = claim /\ archive' = archive
  BY <1>2 DEF Write, FindClaim, CheckRetired, RecoverStage, RecoverDone, Existing,
     CheckCapacity,
     StagePayload, StageManifest, PublishObject, Reply, lake
<1>3. ASSUME NEW p \in Procs, Cleanup(p) PROVE claim' = claim /\ archive' = archive
  BY <1>3 DEF Cleanup, JudgeArchived, Judge, RenameObject, WriteTombstone, UnlinkPayload,
     UnlinkManifest, RemoveDeleting, lake
<1>4. ASSUME NEW p \in Procs, Read(p) \/ WriteFails(p) \/ CleanupFails(p) \/ Crash(p)
      PROVE  claim' = claim /\ archive' = archive
  BY <1>4 DEF Read, FindObject, LoadObject, ReadBytes, FindTombstone, FindDeleting, WriteFails,
     CleanupFails, Crash, lake
<1>5. ASSUME NEW p \in Procs, NEW j \in Keys,
             \/ \E c \in Contents : WriteCall(p, j, c)
             \/ \E r \in Receipts : CleanupCall(p, j, r)
             \/ ReadCall(p, j, "find") \/ ReadCall(p, j, "find archived")
      PROVE  claim' = claim /\ archive' = archive
  BY <1>5 DEF WriteCall, CleanupCall, ReadCall, lake
<1>6. ASSUME NEW j \in Keys, CopyToArchive(j) \/ Damage(j)
      PROVE  claim' = claim /\ (archive[k] => archive'[k])
  BY <1>0, <1>6 DEF CopyToArchive, Damage
<1> QED BY <1>1, <1>2, <1>3, <1>4, <1>5, <1>6 DEF Next, Step

LEMMA PassiveReader ==
  ASSUME LakeInv, Lasting, Watch, NEW q \in Procs, ReaderOK(q), Passive(q)
  PROVE  ReaderOK(q)'
<1>1. CASE pc'[q] \in {"idle"} \cup LockedPC
  BY <1>1 DEF ReaderOK, LockedPC, WritePC, CleanupPC, ReadPC
<1>2. CASE pc'[q] = pc[q] /\ key'[q] = key[q] /\ arg'[q] = arg[q]
  <2> DEFINE k == key[q]
  <2>1. k \in Keys
    BY DEF LakeInv, TypeOK, ProcsTypeOK
  <2>2. pc[q] \in ReadPC => claim'[k] = claim[k]
    BY <2>1 DEF ReaderOK, Lasting
  <2>3. calm'[q] => calm[q] /\ object'[k] = object[k] /\ deleting'[k] = deleting[k] /\ tomb'[k] = tomb[k]
    BY <1>2 DEF Watch, Moved
  <2>4. archive[k] => archive'[k]
    BY <2>1 DEF Lasting
  <2>5. pc[q] \in ReadPC /\ calm'[q] =>
          /\ Resolvable(k, TRUE) => Resolvable(k, TRUE)'
          /\ Resolvable(k, FALSE) => Resolvable(k, FALSE)'
    BY <1>2, <2>2, <2>3, <2>4 DEF Resolvable, Loads
  <2> QED BY <1>2, <2>2, <2>3, <2>5 DEF ReaderOK, ReadPC, Loads
<1> QED BY <1>1, <1>2 DEF Passive

\* A step of a reader itself.
LEMMA ReadKeepsReaders ==
  ASSUME LakeInv, ReadersOK, Lasting, Watch, NEW p \in Procs, Read(p)
  PROVE  ReadersOK'
<1> DEFINE k == key[p]
<1> USE DEF At
<1>0. /\ k \in Keys /\ ReaderOK(p)
      /\ pc \in [Procs -> {"idle", "returned", "failed"} \cup LockedPC \cup ReadPC]
  BY DEF LakeInv, TypeOK, ProcsTypeOK, ReadersOK
<1>1. UNCHANGED <<claim, object, deleting, tomb, archive, key, arg>>
  BY DEF Read, FindObject, LoadObject, ReadBytes, FindTombstone, FindDeleting, lake
<1>2. PICK l : Goto(p, l) /\ pc' = [pc EXCEPT ![p] = l] /\ pc'[p] = l
  BY <1>0 DEF Read, FindObject, LoadObject, ReadBytes, FindTombstone, FindDeleting, Goto
<1>3. ASSUME NEW q \in Procs, q # p PROVE ReaderOK(q)'
  <2>1. Passive(q)
    BY <1>0, <1>1, <1>2, <1>3 DEF Passive
  <2> QED BY <2>1, PassiveReader DEF ReadersOK
<1>4. pc'[p] \notin {"find", "find archived"}
  BY <1>0 DEF Read, FindObject, LoadObject, ReadBytes, FindTombstone, FindDeleting, Goto
<1>5. calm'[p] => calm[p]
  BY <1>1, <1>4 DEF Watch
<1>6. ReaderOK(p)'
  <2>1. CASE FindObject(p)
    BY <1>0, <1>1, <1>5, <2>1 DEF FindObject, Goto, ReaderOK, ReadPC, Resolvable, Loads
  <2>2. CASE LoadObject(p)
    BY <1>0, <1>1, <1>5, <2>2 DEF LoadObject, Goto, ReaderOK, ReadPC, Loads
  <2>3. CASE ReadBytes(p)
    BY <1>0, <1>1, <1>5, <2>3 DEF ReadBytes, Goto, ReaderOK, ReadPC, Loads
  <2>4. CASE FindTombstone(p)
    BY <1>0, <1>1, <1>5, <2>4 DEF FindTombstone, Goto, ReaderOK, ReadPC, Resolvable, Loads
  <2>5. CASE FindDeleting(p)
    BY <1>0, <1>1, <1>5, <2>5 DEF FindDeleting, Goto, ReaderOK, ReadPC, Resolvable, Loads
  <2> QED BY <2>1, <2>2, <2>3, <2>4, <2>5 DEF Read
<1> QED BY <1>3, <1>6 DEF ReadersOK

LEMMA ReadCallKeepsReaders ==
  ASSUME LakeInv, ReadersOK, Lasting, Watch, NEW p \in Procs, NEW k \in Keys,
         NEW l \in {"find", "find archived"}, ReadCall(p, k, l)
  PROVE  ReadersOK'
<1>0. /\ pc \in [Procs -> {"idle", "returned", "failed"} \cup LockedPC \cup ReadPC]
      /\ key \in [Procs -> Keys] /\ arg \in [Procs -> Contents \cup Receipts \cup {None}]
  BY DEF LakeInv, TypeOK, ProcsTypeOK
<1>1. /\ pc' = [pc EXCEPT ![p] = l] /\ key' = [key EXCEPT ![p] = k]
      /\ arg' = [arg EXCEPT ![p] = claim[k]]
      /\ UNCHANGED <<claim, object, deleting, tomb, archive>> /\ claim[k] # None
      /\ pc[p] \notin {"find", "find archived"}
  BY DEF ReadCall, Goto, lake, Free
<1>2. ASSUME NEW q \in Procs, q # p PROVE ReaderOK(q)'
  <2>1. Passive(q)
    BY <1>0, <1>1, <1>2 DEF Passive
  <2> QED BY <2>1, PassiveReader DEF ReadersOK
<1>3. pc'[p] = l /\ key'[p] = k /\ arg'[p] = claim[k]
  BY <1>0, <1>1
<1>4. calm'[p] => Resolvable(k, l = "find archived")
  BY <1>1, <1>3 DEF Watch
<1>5. calm'[p] => (l = "find" => Resolvable(k, FALSE)') /\ (l = "find archived" => Resolvable(k, TRUE)')
  BY <1>1, <1>4 DEF Resolvable, Loads
<1>6. ReaderOK(p)'
  BY <1>1, <1>3, <1>5 DEF ReaderOK
<1> QED BY <1>2, <1>6 DEF ReadersOK

LEMMA NextKeepsReaders == LakeInv /\ ReadersOK /\ Next => ReadersOK'
<1> SUFFICES ASSUME LakeInv, ReadersOK, Next PROVE ReadersOK'
  OBVIOUS
<1>0. /\ Watch /\ Lasting
      /\ pc \in [Procs -> {"idle", "returned", "failed"} \cup LockedPC \cup ReadPC]
      /\ key \in [Procs -> Keys] /\ arg \in [Procs -> Contents \cup Receipts \cup {None}]
  BY LastingStep DEF Next, LakeInv, TypeOK, ProcsTypeOK
<1>1. ASSUME NEW p \in Procs, Read(p) PROVE ReadersOK'
  BY <1>0, <1>1, ReadKeepsReaders
<1>2. ASSUME NEW p \in Procs, NEW k \in Keys, NEW l \in {"find", "find archived"}, ReadCall(p, k, l)
      PROVE  ReadersOK'
  BY <1>0, <1>2, ReadCallKeepsReaders
<1>3. (\A q \in Procs : Passive(q)) => ReadersOK'
  BY <1>0, PassiveReader DEF ReadersOK
<1>4. ASSUME NEW p \in Procs, Write(p) \/ Cleanup(p), NEW q \in Procs PROVE Passive(q)
  <2>1. key' = key /\ arg' = arg /\ \E l \in {"idle"} \cup LockedPC : pc' = [pc EXCEPT ![p] = l]
    <3>1. CASE Write(p)
      BY <1>0, <3>1 DEF Write, FindClaim, BindKey, CheckRetired, RecoverDone, Existing,
         CheckCapacity,
         StagePayload, StageManifest, PublishObject, Reply, Goto, Leave, LockedPC, WritePC, RecoverStage
    <3>2. CASE Cleanup(p)
      BY <1>0, <3>2 DEF Cleanup, JudgeArchived, Judge, RenameObject, AfterRename,
         WriteTombstone,
         UnlinkPayload, UnlinkManifest, RemoveDeleting, Goto, Leave, LockedPC, CleanupPC
    <3> QED BY <1>4, <3>1, <3>2
  <2> QED BY <1>0, <2>1 DEF Passive
<1>5. ASSUME NEW p \in Procs, WriteFails(p) \/ CleanupFails(p) \/ Crash(p), NEW q \in Procs
      PROVE  Passive(q)
  BY <1>0, <1>5 DEF WriteFails, CleanupFails, Crash, Leave, Goto, Passive
<1>6. ASSUME NEW p \in Procs, NEW k \in Keys, NEW q \in Procs,
             \/ \E c \in Contents : WriteCall(p, k, c)
             \/ \E r \in Receipts : CleanupCall(p, k, r)
      PROVE  Passive(q)
  BY <1>0, <1>6 DEF WriteCall, CleanupCall, Acquire, Goto, Passive, LockedPC, WritePC, CleanupPC
<1>7. ASSUME NEW k \in Keys, CopyToArchive(k) \/ Damage(k), NEW q \in Procs PROVE Passive(q)
  BY <1>7 DEF CopyToArchive, Damage, procs, Passive
<1> QED BY <1>1, <1>2, <1>3, <1>4, <1>5, <1>6, <1>7 DEF Next, Step

(* A reader that nothing disturbs finds a key that was resolvable when it   *)
(* started: load_raw_object goes from the object to the tombstone and to    *)
(* the deleting directory in the order in which a cleanup fills them.       *)
THEOREM CalmReadsSucceedHolds == Spec => []CalmReadsSucceed
<1>1. Init => ReadersOK
  BY DEF Init, ReadersOK, ReaderOK, ReadPC
<1>2. LakeInv /\ ReadersOK /\ [Next]_vars => ReadersOK'
  <2>1. ASSUME LakeInv, ReadersOK, UNCHANGED vars PROVE ReadersOK'
    <3>1. UNCHANGED <<claim, object, deleting, tomb, archive, pc, key, arg, calm>>
      BY <2>1 DEF vars, lake, procs
    <3>2. ASSUME NEW k, NEW archived PROVE Resolvable(k, archived)' <=> Resolvable(k, archived)
      BY <3>1 DEF Resolvable, Loads
    <3>3. ASSUME NEW p \in Procs PROVE ReaderOK(p)'
      <4>1. ReaderOK(p)
        BY <2>1 DEF ReadersOK
      <4> QED BY <3>1, <3>2, <4>1 DEF ReaderOK, Loads
    <3> QED BY <3>3 DEF ReadersOK
  <2> QED BY <2>1, NextKeepsReaders
<1>3. ReadersOK => CalmReadsSucceed
  BY DEF ReadersOK, ReaderOK, CalmReadsSucceed
<1> QED BY LakeInvariant, <1>1, <1>2, <1>3, PTL DEF Spec

-----------------------------------------------------------------------------
(* The lake implements RawKeys: a step that moves no key is a stutter of it,*)
(* and each of the others is one move of one key.                           *)

\* The claims and the stages of all keys are as before.
Unmoved == claim' = claim /\ KeyStage' = KeyStage

LEMMA LakeMove ==
  ASSUME LakeInv, NEW k \in Keys, claim[k] # None, claim' = claim,
         NEW from, NEW to, KeyStage[k] = from, KeyStage'[k] = to,
         \A j \in Keys \ {k} :
           object'[j] = object[j] /\ deleting'[j] = deleting[j] /\ tomb'[j] = tomb[j]
  PROVE  Abstract!Move(k, from, to)
<1>1. KeyStage' = [KeyStage EXCEPT ![k] = to]
  BY DEF KeyStage
<1> QED BY <1>1 DEF Abstract!Move

LEMMA WriterMoves ==
  ASSUME LakeInv, NEW p \in Procs, Write(p)
  PROVE  Unmoved \/ Abstract!Next
<1> DEFINE k == key[p]
<1> USE NoneIsNoDirectory, LakeAssumption
<1>0. /\ KeyTyped(k) /\ TypeOK /\ WriterOK(p) /\ CleanerOK(p) /\ LayoutOK(k) /\ k \in Keys
      /\ object \in [Keys -> Dir \cup {None}] /\ claim \in [Keys -> Contents \cup {None}]
  BY KeyTypes DEF KeyTyped, TypeOK, LakeTypeOK
<1>1. CASE BindKey(p)
  <2>1. claim[k] = None /\ arg[p] \in Contents
    BY <1>0, <1>1 DEF WriterOK, BindKey, At, WritePC
  <2>2. object[k] = None /\ deleting[k] = None /\ tomb[k] = None
    BY <1>0, <2>1 DEF LayoutOK, KeyTyped, Dir
  <2>3. KeyStage[k] = "absent"
    BY <1>0, <2>2 DEF KeyStage
  <2>4. KeyStage' = KeyStage /\ claim' = [claim EXCEPT ![k] = arg[p]]
    BY <1>1 DEF BindKey, KeyStage
  <2>5. Abstract!Bind(k)
    BY <2>1, <2>3, <2>4 DEF Abstract!Bind
  <2> QED BY <1>0, <2>5 DEF Abstract!Next
<1>2. CASE RecoverStage(p)
  <2>1. CASE object' = object
    BY <1>2, <2>1 DEF RecoverStage, Unmoved, KeyStage
  <2>2. CASE object' # object
    <3>1. /\ object[k] = None /\ object' = [object EXCEPT ![k] = Head(stages[k])]
          /\ Loads(Head(stages[k]), arg[p]) /\ UNCHANGED <<claim, deleting, tomb>>
          /\ pc[p] \in {"recover", "recovered"}
      BY <1>2, <2>2 DEF RecoverStage
    <3>2. tomb[k] = None /\ deleting[k] = None /\ claim[k] = arg[p] /\ arg[p] \in Contents
      BY <1>0, <3>1 DEF WriterOK, WritePC
    <3>3. KeyStage[k] = "absent" /\ KeyStage'[k] = "hot"
      BY <1>0, <3>1, <3>2 DEF KeyStage, Loads
    <3>4. Abstract!Publish(k)
      BY <1>0, <3>1, <3>2, <3>3, LakeMove DEF Abstract!Publish
    <3> QED BY <1>0, <3>4 DEF Abstract!Next
  <2> QED BY <2>1, <2>2
<1>3. CASE Existing(p)
  <2>1. CASE object' = object
    BY <1>3, <2>1 DEF Existing, Unmoved, KeyStage
  <2>2. CASE object' # object
    <3>1. /\ object[k] # None /\ object' = [object EXCEPT ![k] = None]
          /\ UNCHANGED <<claim, deleting, tomb>> /\ pc[p] = "existing"
      BY <1>3, <2>2 DEF Existing, At
    <3>2. tomb[k] = None /\ deleting[k] = None /\ claim[k] = arg[p] /\ arg[p] \in Contents
      BY <1>0, <3>1 DEF WriterOK, WritePC
    <3>3. KeyStage[k] = "hot" /\ KeyStage'[k] = "absent"
      BY <1>0, <3>1, <3>2 DEF KeyStage
    <3>4. Abstract!Withdraw(k)
      BY <1>0, <3>1, <3>2, <3>3, LakeMove DEF Abstract!Withdraw
    <3> QED BY <1>0, <3>4 DEF Abstract!Next
  <2> QED BY <2>1, <2>2
<1>4. CASE PublishObject(p)
  <2>1. CASE object' = object
    BY <1>4, <2>1 DEF PublishObject, Unmoved, KeyStage
  <2>2. CASE object' # object
    <3>1. /\ object' = [object EXCEPT ![k] = stages[k][OwnStage(p)]]
          /\ UNCHANGED <<claim, deleting, tomb>> /\ pc[p] = "publish"
      BY <1>4, <2>2 DEF PublishObject, At
    <3>2. /\ tomb[k] = None /\ deleting[k] = None /\ claim[k] = arg[p] /\ arg[p] \in Contents
          /\ object[k] = None /\ Len(stages[k]) = 1
      BY <1>0, <3>1 DEF WriterOK, WritePC
    <3>3. stages[k][OwnStage(p)] \in Dir
      BY <1>0, <3>2, OneElement DEF OwnStage, KeyTyped
    <3>4. KeyStage[k] = "absent" /\ KeyStage'[k] = "hot"
      BY <1>0, <3>1, <3>2, <3>3 DEF KeyStage
    <3>5. Abstract!Publish(k)
      BY <1>0, <3>1, <3>2, <3>4, LakeMove DEF Abstract!Publish
    <3> QED BY <1>0, <3>5 DEF Abstract!Next
  <2> QED BY <2>1, <2>2
<1>5. CASE FindClaim(p) \/ CheckRetired(p) \/ RecoverDone(p) \/ CheckCapacity(p) \/ StagePayload(p)
           \/ StageManifest(p) \/ Reply(p)
  <2>1. UNCHANGED <<claim, object, deleting, tomb>>
    BY <1>5 DEF FindClaim, CheckRetired, RecoverDone, CheckCapacity, StagePayload,
       StageManifest,
       Reply, lake
  <2> QED BY <2>1 DEF Unmoved, KeyStage
<1> QED BY <1>1, <1>2, <1>3, <1>4, <1>5 DEF Write

\* A step that only changes where the bytes of an archived key are.
LEMMA ArchivedStays ==
  ASSUME LakeInv, NEW k \in Keys, tomb[k] # None, UNCHANGED <<claim, tomb>>,
         \A j \in Keys \ {k} : object'[j] = object[j] /\ deleting'[j] = deleting[j]
  PROVE  Unmoved
  BY DEF Unmoved, KeyStage

LEMMA CleanerMoves ==
  ASSUME LakeInv, NEW p \in Procs, Cleanup(p)
  PROVE  Unmoved \/ Abstract!Next
<1> DEFINE k == key[p]
<1> USE NoneIsNoDirectory, LakeAssumption
<1>0. /\ KeyTyped(k) /\ TypeOK /\ WriterOK(p) /\ CleanerOK(p) /\ LayoutOK(k) /\ k \in Keys
      /\ object \in [Keys -> Dir \cup {None}] /\ deleting \in [Keys -> Dir \cup {None}]
      /\ tomb \in [Keys -> Receipts \cup {None}]
  BY KeyTypes DEF KeyTyped, TypeOK, LakeTypeOK
<1>1. CASE JudgeArchived(p)
  <2>1. /\ tomb[k] # None /\ UNCHANGED <<claim, tomb>>
        /\ \A j \in Keys \ {k} : object'[j] = object[j] /\ deleting'[j] = deleting[j]
    BY <1>0, <1>1 DEF JudgeArchived, ToDeleting
  <2> QED BY <1>0, <2>1, ArchivedStays
<1>2. CASE Judge(p)
  BY <1>2 DEF Judge, lake, Unmoved, KeyStage
<1>3. CASE RenameObject(p)
  <2>1. /\ object[k] # None /\ deleting[k] = None /\ tomb[k] = None
        /\ object' = [object EXCEPT ![k] = None]
        /\ deleting' = [deleting EXCEPT ![k] = object[k]] /\ UNCHANGED <<claim, tomb>>
    BY <1>0, <1>3 DEF CleanerOK, RenameObject, ToDeleting, At
  <2>2. claim[k] # None
    BY <1>0, <2>1 DEF LayoutOK, KeyTyped, Dir
  <2>3. KeyStage[k] = "hot" /\ KeyStage'[k] = "leaving"
    BY <1>0, <2>1 DEF KeyStage
  <2>4. Abstract!Leave(k)
    BY <1>0, <2>1, <2>2, <2>3, LakeMove DEF Abstract!Leave
  <2> QED BY <1>0, <2>4 DEF Abstract!Next
<1>4. CASE WriteTombstone(p)
  <2>1. /\ object[k] = None /\ deleting[k] # None /\ tomb[k] = None /\ arg[p] \in Receipts
        /\ tomb' = [tomb EXCEPT ![k] = arg[p]] /\ UNCHANGED <<claim, object, deleting>>
    BY <1>0, <1>4 DEF CleanerOK, WriteTombstone, At, CleanupPC
  <2>2. claim[k] # None
    BY <1>0, <2>1 DEF LayoutOK, KeyTyped, Dir
  <2>3. KeyStage[k] = "leaving" /\ KeyStage'[k] = "archived"
    BY <1>0, <2>1 DEF KeyStage
  <2>4. Abstract!Archive(k)
    BY <1>0, <2>1, <2>2, <2>3, LakeMove DEF Abstract!Archive
  <2> QED BY <1>0, <2>4 DEF Abstract!Next
<1>5. CASE UnlinkPayload(p) \/ UnlinkManifest(p) \/ RemoveDeleting(p)
  <2>1. /\ tomb[k] # None /\ UNCHANGED <<claim, object, tomb>>
    BY <1>0, <1>5 DEF CleanerOK, UnlinkPayload, UnlinkManifest, RemoveDeleting, At
  <2>2. \A j \in Keys \ {k} : deleting'[j] = deleting[j]
    BY <1>0, <1>5 DEF UnlinkPayload, UnlinkManifest, RemoveDeleting
  <2> QED BY <1>0, <2>1, <2>2, ArchivedStays
<1> QED BY <1>1, <1>2, <1>3, <1>4, <1>5 DEF Cleanup

LEMMA NextMoves == LakeInv /\ Next => Unmoved \/ Abstract!Next
<1> SUFFICES ASSUME LakeInv, Next PROVE Unmoved \/ Abstract!Next
  OBVIOUS
<1>1. ASSUME NEW p \in Procs, Read(p) \/ WriteFails(p) \/ CleanupFails(p) \/ Crash(p) PROVE Unmoved
  <2>1. UNCHANGED <<claim, object, deleting, tomb>>
    BY <1>1 DEF Read, FindObject, LoadObject, ReadBytes, FindTombstone, FindDeleting,
       WriteFails,
       CleanupFails, Crash, lake
  <2> QED BY <2>1 DEF Unmoved, KeyStage
<1>2. ASSUME NEW p \in Procs, NEW k \in Keys,
             \/ \E c \in Contents : WriteCall(p, k, c)
             \/ \E r \in Receipts : CleanupCall(p, k, r)
             \/ ReadCall(p, k, "find") \/ ReadCall(p, k, "find archived")
      PROVE  Unmoved
  <2>1. UNCHANGED <<claim, object, deleting, tomb>>
    BY <1>2 DEF WriteCall, CleanupCall, ReadCall, lake
  <2> QED BY <2>1 DEF Unmoved, KeyStage
<1>3. ASSUME NEW k \in Keys, CopyToArchive(k) PROVE Unmoved
  BY <1>3 DEF CopyToArchive, Unmoved, KeyStage
<1>4. ASSUME NEW k \in Keys, Damage(k) PROVE Unmoved
  <2> DEFINE new == [object[k] EXCEPT !.sound = FALSE]
  <2>1. object[k] \in Dir /\ object \in [Keys -> Dir \cup {None}]
    BY <1>4 DEF LakeInv, TypeOK, LakeTypeOK, Damage
  <2>2. new \in Dir
    BY <2>1 DEF Dir
  <2>3. object' = [object EXCEPT ![k] = new] /\ UNCHANGED <<claim, deleting, tomb>>
    BY <1>4 DEF Damage
  <2> HIDE DEF new
  <2>4. \A j \in Keys : object'[j] = None <=> object[j] = None
    BY <2>1, <2>2, <2>3, NoneIsNoDirectory
  <2> QED BY <2>3, <2>4 DEF Unmoved, KeyStage
<1> QED BY <1>1, <1>2, <1>3, <1>4, WriterMoves, CleanerMoves DEF Next, Step

(* The lake implements RawKeys: whatever writers, cleanups, crashes and     *)
(* failures do, every key lives the life RawKeys promises.                  *)
THEOREM LakeImplementsKeys == Spec => ImplementsKeys
<1>1. Init => Abstract!Init
  <2> SUFFICES ASSUME Init PROVE Abstract!Init
    OBVIOUS
  <2>1. claim \in [Keys -> Contents \cup {None}]
    BY DEF Init
  <2>2. ASSUME NEW k \in Keys
        PROVE  KeyStage[k] \in {"absent", "archived"} /\ (KeyStage[k] = "archived" => claim[k] # None)
    BY LakeAssumption DEF Init, KeyStage
  <2>3. KeyStage \in [Keys -> {"absent", "archived"}]
    BY <2>2 DEF KeyStage
  <2> QED BY <2>1, <2>2, <2>3 DEF Abstract!Init
<1>2. LakeInv /\ [Next]_vars => [Abstract!Next]_(Abstract!vars)
  <2>1. ASSUME UNCHANGED vars PROVE Unmoved
    BY <2>1 DEF vars, lake, Unmoved, KeyStage
  <2> QED BY <2>1, NextMoves DEF Unmoved, Abstract!vars
<1> QED BY LakeInvariant, <1>1, <1>2, PTL DEF Spec, ImplementsKeys, Abstract!Spec

-----------------------------------------------------------------------------
(***************************************************************************)
(* ResearchDataset.                                                        *)
(***************************************************************************)
\* What is asked for, or is about to be published, continues a published dataset.
Continues(on, s) ==
  /\ s.capture \in Nat /\ s.end \in Nat
  /\ s.parent # 0 => /\ s.parent \in DOMAIN on
                     /\ on[s.parent].capture <= s.capture
                     /\ on[s.parent].end <= s.end

DiskSound ==
  /\ disk \in Seq(Range(disk))
  /\ \A i \in DOMAIN disk : Continues(disk, disk[i]) /\ (disk[i].parent # 0 => disk[i].parent < i)

CatalogSound ==
  catalog # Absent => catalog.current \in catalog.known /\ catalog.known \subseteq DOMAIN disk

\* What each label of a call may rely on.
CallSound(c) ==
  /\ call[c].pc = "fetch" => Continues(disk, call[c])
  /\ call[c].pc = "actions" => Continues(disk, call[c].asked)
  /\ call[c].pc = "publish" => Continues(disk, call[c].snapshot)
  /\ call[c].pc \in {"read", "write"} => call[c].id \in DOMAIN disk
  /\ call[c].pc = "write" => call[c].known \subseteq DOMAIN disk

DatasetInv ==
  /\ DOMAIN call = Callers
  /\ DiskSound /\ CatalogSound
  /\ \A c \in Callers : CallSound(c)
-----------------------------------------------------------------------------
LEMMA StartHolds == DatasetInit => DatasetInv
  <1> SUFFICES ASSUME DatasetInit PROVE DatasetInv
    OBVIOUS
  <1>1. DiskSound
    BY DEF DatasetInit, DiskSound
  <1>2. \A c \in Callers : call[c].pc = "idle"
    BY DEF DatasetInit, Idle
  <1> QED BY <1>1, <1>2 DEF DatasetInit, DatasetInv, CatalogSound, CallSound

\* A step of one call that leaves what is published alone.
LEMMA StepsOn ==
  ASSUME DatasetInv, NEW c \in Callers, NEW r, call' = [call EXCEPT ![c] = r],
         UNCHANGED <<disk, catalog>>, call'[c] = r => CallSound(c)'
  PROVE  DatasetInv'
  <1>1. DOMAIN call' = Callers /\ call'[c] = r /\ \A q \in Callers \ {c} : call'[q] = call[q]
    BY DEF DatasetInv
  <1>2. DiskSound' /\ CatalogSound'
    BY DEF DatasetInv, DiskSound, CatalogSound, Continues
  <1>3. \A q \in Callers \ {c} : CallSound(q)'
    BY <1>1 DEF DatasetInv, CallSound, Continues
  <1> QED BY <1>1, <1>2, <1>3 DEF DatasetInv

\* A call ends, by itself or not.
LEMMA Ends ==
  ASSUME DatasetInv, NEW c \in Callers, call' = [call EXCEPT ![c] = Idle], UNCHANGED <<disk, catalog>>
  PROVE  DatasetInv'
  <1>1. ASSUME call'[c] = Idle PROVE CallSound(c)'
    BY <1>1 DEF CallSound, Idle
  <1> QED BY <1>1, StepsOn

LEMMA ReviseStep == ASSUME DatasetInv, NEW d \in Days, Revise(d) PROVE DatasetInv'
  BY DEF Revise, DatasetInv, DiskSound, CatalogSound, CallSound, Continues

LEMMA BuildStep ==
  ASSUME DatasetInv, NEW c \in Callers, NEW capture \in 1..LastCapture, NEW end \in Days,
         Build(c, capture, end)
  PROVE  DatasetInv'
  <1> DEFINE r == [pc |-> "fetch", op |-> "live", parent |-> 0, capture |-> capture, end |-> end]
  <1>1. call' = [call EXCEPT ![c] = r] /\ UNCHANGED <<disk, catalog>>
    BY DEF Build, Begin
  <1>2. ASSUME call'[c] = r PROVE CallSound(c)'
    BY <1>2 DEF CallSound, Continues, Days
  <1> HIDE DEF r
  <1> QED BY <1>1, <1>2, StepsOn

LEMMA UpdateStep ==
  ASSUME DatasetInv, NEW c \in Callers, NEW capture \in 1..LastCapture, NEW end \in Days,
         NEW op \in {"live", "local"}, Update(c, op, capture, end)
  PROVE  DatasetInv'
  <1> DEFINE r == [pc |-> "fetch", op |-> op, parent |-> catalog.current, capture |-> capture,
                   end |-> end]
  <1>1. call' = [call EXCEPT ![c] = r] /\ UNCHANGED <<disk, catalog>>
    BY DEF Update, Begin
  <1>2. /\ catalog.current \in DOMAIN disk /\ catalog.current \in Nat \ {0}
        /\ capture >= disk[catalog.current].capture /\ end >= disk[catalog.current].end
        /\ disk[catalog.current].capture \in Nat /\ disk[catalog.current].end \in Nat
    BY DEF Update, MayFollow, DatasetInv, CatalogSound, DiskSound, Continues
  <1>3. ASSUME call'[c] = r PROVE CallSound(c)'
    BY <1>1, <1>2, <1>3 DEF CallSound, Continues, Days
  <1> HIDE DEF r
  <1> QED BY <1>1, <1>3, StepsOn

LEMMA BindStep ==
  ASSUME DatasetInv, NEW c \in Callers, NEW capture \in 1..LastCapture, NEW horizon \in Days,
         Bind(c, capture, horizon)
  PROVE  DatasetInv'
  <1> DEFINE previous == disk[catalog.current]
             s == [parent |-> catalog.current, op |-> previous.op, capture |-> capture,
                   end |-> previous.end, master |-> horizon, frames |-> previous.frames, seen |-> Empty]
             r == [pc |-> "publish", snapshot |-> s]
  <1>1. call' = [call EXCEPT ![c] = r] /\ UNCHANGED <<disk, catalog>>
    BY DEF Bind
  <1>2. /\ catalog.current \in DOMAIN disk
        /\ capture \in Nat /\ capture >= previous.capture
        /\ previous.capture \in Nat /\ previous.end \in Nat
    BY DEF Bind, DatasetInv, CatalogSound, DiskSound, Continues
  <1>3. s.parent = catalog.current /\ s.capture = capture /\ s.end = previous.end
    OBVIOUS
  <1>4. r.pc = "publish" /\ r.snapshot = s
    OBVIOUS
  <1> HIDE DEF r, s
  <1>5. ASSUME call'[c] = r PROVE CallSound(c)'
    BY <1>1, <1>2, <1>3, <1>4, <1>5 DEF CallSound, Continues
  <1> QED BY <1>1, <1>5, StepsOn

LEMMA FetchPricesStep ==
  ASSUME DatasetInv, NEW c \in Callers, FetchPrices(c)
  PROVE  DatasetInv'
  <1>1. PICK prices : call' = [call EXCEPT ![c] = [pc |-> "actions", asked |-> @, seen |-> prices]]
    BY DEF FetchPrices
  <1> DEFINE r == [pc |-> "actions", asked |-> call[c], seen |-> prices]
  <1>2. call' = [call EXCEPT ![c] = r] /\ UNCHANGED <<disk, catalog>>
    BY <1>1 DEF FetchPrices
  <1>3. Continues(disk, call[c])
    BY DEF FetchPrices, DatasetInv, CallSound
  <1>4. r.pc = "actions" /\ r.asked = call[c]
    OBVIOUS
  <1> HIDE DEF r
  <1>5. ASSUME call'[c] = r PROVE CallSound(c)'
    BY <1>2, <1>3, <1>4, <1>5 DEF CallSound, Continues
  <1> QED BY <1>2, <1>5, StepsOn

LEMMA FetchActionsStep ==
  ASSUME DatasetInv, NEW c \in Callers, FetchActions(c)
  PROVE  DatasetInv'
  <1> DEFINE asked == call[c].asked
  <1>1. PICK seen : \/ call' = [call EXCEPT ![c] = Idle]
                    \/ call' = [call EXCEPT ![c] = [pc |-> "publish", snapshot |-> Snapshot(asked, seen)]]
    BY DEF FetchActions
  <1>2. CASE call' = [call EXCEPT ![c] = Idle]
    BY <1>2, Ends DEF FetchActions
  <1>3. CASE call' = [call EXCEPT ![c] = [pc |-> "publish", snapshot |-> Snapshot(asked, seen)]]
    <2> DEFINE s == Snapshot(asked, seen)
               r == [pc |-> "publish", snapshot |-> s]
    <2>1. Continues(disk, asked)
      BY DEF FetchActions, DatasetInv, CallSound
    <2>2. s.parent = asked.parent /\ s.capture = asked.capture /\ s.end = asked.end
      BY DEF Snapshot
    <2> HIDE DEF s
    <2>3. r.pc = "publish" /\ r.snapshot = s
      OBVIOUS
    <2> HIDE DEF r
    <2>4. ASSUME call'[c] = r PROVE CallSound(c)'
      BY <2>1, <2>2, <2>3, <2>4 DEF CallSound, Continues, FetchActions
    <2> QED BY <1>3, <2>4, StepsOn DEF FetchActions, r, s
  <1> QED BY <1>1, <1>2, <1>3

LEMMA ReadCatalogStep ==
  ASSUME DatasetInv, NEW c \in Callers, ReadCatalog(c)
  PROVE  DatasetInv'
  <1> DEFINE r == [pc |-> "write", id |-> call[c].id,
                   known |-> IF catalog = Absent THEN {} ELSE catalog.known]
  <1>1. call' = [call EXCEPT ![c] = r] /\ UNCHANGED <<disk, catalog>>
    BY DEF ReadCatalog
  <1>2. call[c].id \in DOMAIN disk /\ r.known \subseteq DOMAIN disk
    BY DEF ReadCatalog, DatasetInv, CallSound, CatalogSound
  <1>3. ASSUME call'[c] = r PROVE CallSound(c)'
    BY <1>1, <1>2, <1>3 DEF CallSound
  <1> HIDE DEF r
  <1> QED BY <1>1, <1>3, StepsOn

\* What is published stays where it is.
LEMMA PublishedStays ==
  ASSUME disk \in Seq(Range(disk)), NEW s, disk' = IF s \in Range(disk) THEN disk ELSE Append(disk, s)
  PROVE  /\ disk' \in Seq(Range(disk')) /\ DOMAIN disk \subseteq DOMAIN disk'
         /\ \A i \in DOMAIN disk : disk'[i] = disk[i]
         /\ \A i \in DOMAIN disk' \ DOMAIN disk : disk'[i] = s /\ \A k \in DOMAIN disk : k < i
         /\ s \in Range(disk')
  <1>1. CASE s \in Range(disk)
    BY <1>1
  <1>2. CASE s \notin Range(disk)
    <2>1. disk' = Append(disk, s)
      BY <1>2
    <2>2. disk \in Seq(Range(disk) \union {s})
      OBVIOUS
    <2>3. /\ disk' \in Seq(Range(disk) \union {s}) /\ Len(disk') = Len(disk) + 1
          /\ disk'[Len(disk) + 1] = s /\ \A i \in 1..Len(disk) : disk'[i] = disk[i]
      BY <2>1, <2>2
    <2>4. DOMAIN disk = 1..Len(disk) /\ DOMAIN disk' = 1..(Len(disk) + 1) /\ Len(disk) \in Nat
      BY <2>2, <2>3
    <2>5. Range(disk') = Range(disk) \union {s}
      BY <2>3, <2>4 DEF Range
    <2>6. disk' \in Seq(Range(disk')) /\ s \in Range(disk')
      BY <2>3, <2>5
    <2>7. \A i \in DOMAIN disk' \ DOMAIN disk : i = Len(disk) + 1
      BY <2>4
    <2> QED BY <2>3, <2>4, <2>6, <2>7
  <1> QED BY <1>1, <1>2

LEMMA PublishStep ==
  ASSUME DatasetInv, NEW c \in Callers, Publish(c)
  PROVE  DatasetInv'
  <1> DEFINE s == call[c].snapshot
             r == [pc |-> "read", id |-> Position(s)]
  <1>1. disk \in Seq(Range(disk)) /\ Continues(disk, s) /\ UNCHANGED catalog
    BY DEF Publish, DatasetInv, DiskSound, CallSound
  <1>2. /\ disk' \in Seq(Range(disk')) /\ DOMAIN disk \subseteq DOMAIN disk'
        /\ \A i \in DOMAIN disk : disk'[i] = disk[i]
        /\ \A i \in DOMAIN disk' \ DOMAIN disk : disk'[i] = s /\ \A k \in DOMAIN disk : k < i
        /\ s \in Range(disk')
    <2>1. disk' = IF s \in Range(disk) THEN disk ELSE Append(disk, s)
      BY DEF Publish
    <2> QED BY <1>1, <2>1, PublishedStays
  <1>3. \A x : Continues(disk, x) => Continues(disk', x)
    BY <1>2 DEF Continues
  <1>4. DiskSound'
    <2>1. \A i \in DOMAIN disk' : Continues(disk', disk'[i])
      BY <1>1, <1>2, <1>3 DEF DatasetInv, DiskSound
    <2>2. \A i \in DOMAIN disk' : disk'[i].parent # 0 => disk'[i].parent < i
      BY <1>1, <1>2 DEF DatasetInv, DiskSound, Continues
    <2> QED BY <1>2, <2>1, <2>2 DEF DiskSound
  <1>5. CatalogSound'
    BY <1>1, <1>2 DEF DatasetInv, CatalogSound
  <1>6. Position(s) \in DOMAIN disk'
    BY <1>2 DEF Position, Range
  <1>7. call' = [call EXCEPT ![c] = r]
    BY DEF Publish
  <1>8. r.pc = "read" /\ r.id \in DOMAIN disk'
    BY <1>6
  <1> HIDE DEF r
  <1>9. DOMAIN call' = Callers /\ call'[c] = r /\ \A q \in Callers \ {c} : call'[q] = call[q]
    BY <1>7 DEF DatasetInv
  <1>10. CallSound(c)'
    BY <1>8, <1>9 DEF CallSound
  <1>11. \A q \in Callers \ {c} : CallSound(q)'
    BY <1>2, <1>3, <1>9 DEF DatasetInv, CallSound
  <1> QED BY <1>4, <1>5, <1>9, <1>10, <1>11 DEF DatasetInv

LEMMA WriteCatalogStep ==
  ASSUME DatasetInv, NEW c \in Callers, WriteCatalog(c)
  PROVE  DatasetInv'
  <1>1. /\ call[c].id \in DOMAIN disk /\ call[c].known \subseteq DOMAIN disk
        /\ call' = [call EXCEPT ![c] = Idle] /\ UNCHANGED disk
    BY DEF WriteCatalog, DatasetInv, CallSound
  <1>2. CatalogSound'
    BY <1>1 DEF WriteCatalog, Entered, CatalogSound
  <1>3. DOMAIN call' = Callers /\ call'[c] = Idle /\ \A q \in Callers \ {c} : call'[q] = call[q]
    BY <1>1 DEF DatasetInv
  <1>4. DiskSound'
    BY <1>1 DEF DatasetInv, DiskSound, Continues
  <1>5. \A q \in Callers : CallSound(q)'
    BY <1>1, <1>3 DEF DatasetInv, CallSound, Continues, Idle
  <1> QED BY <1>2, <1>3, <1>4, <1>5 DEF DatasetInv
-----------------------------------------------------------------------------
LEMMA NextStep == ASSUME DatasetInv, [DatasetNext]_datasetVars PROVE DatasetInv'
  <1>1. ASSUME NEW c \in Callers, NEW capture \in 1..LastCapture, NEW end \in Days,
               \/ Build(c, capture, end)
               \/ \E op \in {"live", "local"} : Update(c, op, capture, end)
               \/ Bind(c, capture, end)
        PROVE  DatasetInv'
    BY <1>1, BuildStep, UpdateStep, BindStep
  <1>2. ASSUME NEW c \in Callers, Die(c) PROVE DatasetInv'
    BY <1>2, Ends DEF Die
  <1>3. ASSUME NEW c \in Callers,
               FetchPrices(c) \/ FetchActions(c) \/ Publish(c) \/ ReadCatalog(c) \/ WriteCatalog(c)
        PROVE  DatasetInv'
    BY <1>3, FetchPricesStep, FetchActionsStep, PublishStep, ReadCatalogStep, WriteCatalogStep
  <1>4. CASE Quiet \/ UNCHANGED datasetVars
    BY <1>4 DEF Quiet, datasetVars, DatasetInv, DiskSound, CatalogSound, CallSound, Continues
  <1> QED BY <1>1, <1>2, <1>3, <1>4, ReviseStep DEF DatasetNext

\* What each label of a call may rely on, and what is on disk.
THEOREM DatasetInvariant == DatasetSpec => []DatasetInv
  <1>1. DatasetInv /\ [DatasetNext]_datasetVars => DatasetInv'
    BY NextStep
  <1> QED BY StartHolds, <1>1, PTL DEF DatasetSpec

\* A snapshot's parent is on disk before it, starts no later and ends no later, and the
\* catalog selects a snapshot it lists, although calls take no lock (update_dataset,
\* bind_instrument_master, _publish_snapshot): every step of a call only relies on what
\* was published when it began, and nothing published changes or goes.
THEOREM LineageAlwaysHolds == DatasetSpec => []LineageHolds
  <1>1. DatasetInv => LineageHolds
    BY DEF DatasetInv, DiskSound, CatalogSound, Continues, LineageHolds
  <1> QED BY DatasetInvariant, <1>1, PTL
-----------------------------------------------------------------------------
(***************************************************************************)
(* What a snapshot holds.                                                  *)
(***************************************************************************)
Versions == {1, 2}

FeedSound == feed.actions \in [Days -> Versions \union {Absent}]

\* An adjusted price knows actions after its day.
AdjustedSound(adjusted) ==
  \A d \in DOMAIN adjusted : \A y \in adjusted[d].later : \E e \in Days, v \in Versions : y = <<e, v>> /\ e > d

\* A price is that of the answer or, if the answer lacks it, that of the parent.
BarsGrown(on, s) ==
  \A d \in 1..s.end :
    IF d \in DOMAIN s.seen.bars THEN s.frames.bars[d] = s.seen.bars[d]
    ELSE /\ s.parent # 0 /\ d <= on[s.parent].end
         /\ s.frames.bars[d] = on[s.parent].frames.bars[d]

\* The snapshot on[p] holds the version of the row of e.
HeldBy(on, p, e, row) ==
  p # 0 /\ e \in DOMAIN on[p].frames.actions /\ on[p].frames.actions[e].version = row.version

\* An action is that of the parent, or that of the answer if the parent lacks its version.
ActionsGrown(on, s) ==
  \A e \in DOMAIN s.frames.actions :
    LET row == s.frames.actions[e] IN
    /\ row.version \in Versions /\ row.receipt \in Nat /\ row.receipt <= s.capture
    /\ \/ HeldBy(on, s.parent, e, row) /\ on[s.parent].frames.actions[e] = row
       \/ /\ e \in DOMAIN s.seen.actions /\ s.seen.actions[e] = row
          /\ ~HeldBy(on, s.parent, e, row)

Grown(on, s) ==
  /\ Valid(s.frames, s.end) /\ s.end \in Days /\ AdjustedSound(s.frames.adjusted)
  /\ BarsGrown(on, s) /\ ActionsGrown(on, s)

\* What each label of a call may rely on.
FramesCall(c) ==
  /\ call[c].pc = "fetch" => call[c].end \in Days /\ call[c].capture \in Nat
  /\ call[c].pc = "actions" =>
       /\ call[c].asked.end \in Days /\ call[c].asked.capture \in Nat
       /\ AdjustedSound(call[c].seen.adjusted)
  /\ call[c].pc = "publish" => Grown(disk, call[c].snapshot)

FramesInv ==
  /\ FeedSound
  /\ \A i \in DOMAIN disk : Grown(disk, disk[i])
  /\ \A c \in Callers : FramesCall(c)

LEMMA LeastNat ==
  ASSUME NEW C \in Nat, NEW T, T \subseteq 0..C, T # {}
  PROVE  \E m \in T : \A i \in T : m <= i
<1>1. T \subseteq Nat
  OBVIOUS
<1>2. PICK m \in T : \A i \in T : <<i, m>> \notin OpToRel(<, Nat)
  BY <1>1, WFMin, NatLessThanWellFounded
<1>3. \A i \in T : ~(i < m)
  BY <1>1, <1>2 DEF OpToRel
<1> QED BY <1>1, <1>3

\* What is published lies at 1, 2, ... .
LEMMA DiskIsLine ==
  ASSUME DatasetInv
  PROVE  /\ Len(disk) \in Nat /\ DOMAIN disk = 1..Len(disk)
         /\ \A i \in DOMAIN disk : disk[i].parent # 0 => disk[i].parent \in DOMAIN disk /\ disk[i].parent < i
BY DEF DatasetInv, DiskSound, Continues

\* The line of a snapshot is the snapshot and the line of its parent.
LEMMA LineageUnfolds ==
  ASSUME DatasetInv, NEW i \in DOMAIN disk
  PROVE  /\ i \in Lineage(i) /\ Lineage(i) \subseteq DOMAIN disk /\ \A u \in Lineage(i) : u <= i
         /\ disk[i].parent = 0 => Lineage(i) = {i}
         /\ disk[i].parent # 0 => Lineage(i) = {i} \union Lineage(disk[i].parent)
<1> DEFINE p == disk[i].parent
           IsLine(j, line) == j \in line /\ \A n \in line : disk[n].parent # 0 => disk[n].parent \in line
<1>1. \A j : Lineage(j) = {u \in DOMAIN disk : \A line \in SUBSET DOMAIN disk : IsLine(j, line) => u \in line}
  BY DEF Lineage
<1>2. i \in Lineage(i) /\ Lineage(i) \subseteq DOMAIN disk
  BY <1>1
<1>3. \A u \in Lineage(i) : u <= i
  <2> DEFINE upTo == {u \in DOMAIN disk : u <= i}
  <2>1. IsLine(i, upTo)
    BY DiskIsLine
  <2> QED BY <1>1, <2>1
<1>4. ASSUME p = 0 PROVE Lineage(i) = {i}
  <2>1. IsLine(i, {i})
    BY <1>4
  <2> QED BY <1>1, <1>2, <2>1
<1>5. ASSUME p # 0 PROVE Lineage(i) = {i} \union Lineage(p)
  <2>1. p \in DOMAIN disk
    BY <1>5, DiskIsLine
  <2>2. ASSUME NEW u \in Lineage(p) PROVE u \in Lineage(i)
    <3> SUFFICES ASSUME NEW line \in SUBSET DOMAIN disk, IsLine(i, line) PROVE u \in line
      BY <1>1, <2>2
    <3>1. IsLine(p, line)
      BY <1>5
    <3> QED BY <1>1, <2>2, <3>1
  <2>3. ASSUME NEW u \in Lineage(i), u # i PROVE u \in Lineage(p)
    <3> SUFFICES ASSUME NEW line \in SUBSET DOMAIN disk, IsLine(p, line) PROVE u \in line
      BY <1>1, <1>2
    <3>1. IsLine(i, line \union {i})
      OBVIOUS
    <3>2. line \union {i} \in SUBSET DOMAIN disk
      OBVIOUS
    <3>3. u \in line \union {i}
      BY <1>1, <3>1, <3>2
    <3> QED BY <2>3, <3>3
  <2> QED BY <1>2, <2>2, <2>3
<1> QED BY <1>2, <1>3, <1>4, <1>5

\* The newest observation of a day, in the line of a snapshot that was grown from its
\* parent, is the price that it holds.
LEMMA NewestIsHeld ==
  ASSUME DatasetInv, FramesInv, NEW i \in DOMAIN disk, NEW d \in 1..disk[i].end
  PROVE  LET saw == {u \in Lineage(i) : d \in DOMAIN disk[u].seen.bars}
         IN disk[i].frames.bars[d] = disk[Max(saw)].seen.bars[d]
<1> DEFINE Saw(j) == {u \in Lineage(j) : d \in DOMAIN disk[u].seen.bars}
           Holds(j) == disk[j].frames.bars[d] = disk[Max(Saw(j))].seen.bars[d]
           Bad == {j \in DOMAIN disk : d \in 1..disk[j].end /\ ~Holds(j)}
<1>0. d \in Nat /\ d >= 1 /\ \A j \in DOMAIN disk : j \in Nat
  <2>1. disk[i].end \in Nat
    BY DEF DatasetInv, DiskSound, Continues
  <2> QED BY <2>1, DiskIsLine
<1>1. \A j \in DOMAIN disk : BarsGrown(disk, disk[j])
  BY DEF FramesInv, Grown
<1>2. ASSUME Bad # {} PROVE FALSE
  <2>1. Len(disk) \in Nat /\ Bad \subseteq 0..Len(disk)
    BY DiskIsLine
  <2>2. PICK j \in Bad : \A k \in Bad : j <= k
    <3> HIDE DEF Bad
    <3> QED BY <1>2, <2>1, LeastNat
  <2>3. j \in DOMAIN disk /\ d \in 1..disk[j].end /\ ~Holds(j)
    BY <2>2
  <2>4. /\ j \in Lineage(j) /\ Lineage(j) \subseteq DOMAIN disk /\ \A u \in Lineage(j) : u <= j
        /\ disk[j].parent # 0 => Lineage(j) = {j} \union Lineage(disk[j].parent)
    BY <2>3, LineageUnfolds
  <2>5. CASE d \in DOMAIN disk[j].seen.bars
    <3>1. j \in Saw(j) /\ \A u \in Saw(j) : j >= u
      BY <2>3, <2>4, <2>5, DiskIsLine
    <3>2. Max(Saw(j)) = j
      <4>1. Saw(j) \subseteq Int
        BY <2>4, DiskIsLine
      <4> HIDE DEF Saw
      <4>2. \A m \in Saw(j) : (\A u \in Saw(j) : m >= u) => m = j
        BY <3>1, <4>1
      <4> QED BY <3>1, <4>2 DEF Max
    <3> QED BY <1>1, <2>3, <2>5, <3>2 DEF BarsGrown
  <2>6. CASE d \notin DOMAIN disk[j].seen.bars
    <3> DEFINE p == disk[j].parent
    <3>1. p # 0 /\ d <= disk[p].end /\ disk[j].frames.bars[d] = disk[p].frames.bars[d]
      BY <1>1, <2>3, <2>6 DEF BarsGrown
    <3>2. p \in DOMAIN disk /\ p < j
      BY <2>3, <3>1, DiskIsLine
    <3>3. Saw(j) = Saw(p)
      BY <2>4, <2>6, <3>1
    <3>4. ~Holds(p)
      BY <2>3, <3>1, <3>3
    <3>5. disk[p].end \in Nat /\ disk[j].end \in Nat
      BY <2>3, <3>2 DEF DatasetInv, DiskSound, Continues
    <3>6. d \in 1..disk[p].end
      BY <1>0, <3>1, <3>5
    <3>7. p \in Bad
      BY <3>2, <3>4, <3>6
    <3>8. j <= p
      <4> HIDE DEF Bad
      <4> QED BY <2>2, <3>7
    <3>9. p \in Nat /\ j \in Nat
      BY <1>0, <2>3, <3>2
    <3> QED BY <3>2, <3>8, <3>9
  <2> QED BY <2>5, <2>6
<1>3. Holds(i)
  BY <1>2
<1> QED BY <1>3

\* Days on which adjusted prices jump are those of the actions that are held.
LEMMA JumpsAreActions ==
  ASSUME NEW frames, NEW end \in Days, Valid(frames, end), AdjustedSound(frames.adjusted),
         \A e \in DOMAIN frames.actions : frames.actions[e].version \in Versions,
         NEW e \in 2..end, NEW d \in 1..end, e > d
  PROVE  (e \in DOMAIN frames.actions) <=> (\E v \in Versions : <<e, v>> \in frames.adjusted[d].later)
<1> DEFINE Knows(k, v) == <<e, v>> \in frames.adjusted[k].later
<1>1. end \in Nat /\ DOMAIN frames.bars = 1..end /\ DOMAIN frames.adjusted = 1..end
  BY DatasetAssumption DEF Valid, Days
<1>2. \A k \in 2..end : frames.adjusted[k - 1].later = frames.adjusted[k].later \union Jump(frames.actions, k)
  BY <1>1 DEF Valid, Consistent
<1>3. \A v \in Versions : ~Knows(e, v)
  <2> SUFFICES ASSUME NEW v \in Versions, Knows(e, v) PROVE FALSE
    OBVIOUS
  <2>1. PICK f \in Days, w \in Versions : <<e, v>> = <<f, w>> /\ f > e
    BY <1>1 DEF AdjustedSound
  <2> QED BY <2>1
<1>4. \A v \in Versions : Knows(e - 1, v) <=> e \in DOMAIN frames.actions /\ v = frames.actions[e].version
  BY <1>2, <1>3 DEF Jump
<1>5. ASSUME NEW v \in Versions, NEW k \in 2..end, k # e PROVE Knows(k - 1, v) <=> Knows(k, v)
  BY <1>2, <1>5 DEF Jump
<1>6. ASSUME NEW v \in Versions PROVE Knows(d, v) <=> Knows(e - 1, v)
  <2> DEFINE Bad == {m \in 0..end : m < e /\ ~(Knows(e - 1 - m, v) <=> Knows(e - 1, v)) /\ m <= e - 2}
  <2>1. ASSUME Bad # {} PROVE FALSE
    <3>1. Bad \subseteq 0..end
      OBVIOUS
    <3>2. PICK m \in Bad : \A k \in Bad : m <= k
      <4> HIDE DEF Bad
      <4> QED BY <1>1, <2>1, <3>1, LeastNat
    <3>3. m \in 0..end /\ m <= e - 2 /\ m # 0
      BY <3>2
    <3>4. e - m \in 2..end /\ e - m # e /\ (e - m) - 1 = e - 1 - m /\ e - m = e - 1 - (m - 1)
      BY <1>1, <3>3
    <3>5. Knows(e - 1 - m, v) <=> Knows(e - 1 - (m - 1), v)
      BY <1>5, <3>4
    <3>6. m - 1 \in Bad
      BY <1>1, <3>2, <3>3, <3>5
    <3>7. m <= m - 1
      <4> HIDE DEF Bad
      <4> QED BY <3>2, <3>6
    <3> QED BY <3>3, <3>7
  <2>2. e - 1 - d \in 0..end /\ e - 1 - d <= e - 2 /\ e - 1 - d < e /\ e - 1 - (e - 1 - d) = d
    BY <1>1
  <2> QED BY <2>1, <2>2
<1>7. (\E v \in Versions : Knows(d, v)) <=> e \in DOMAIN frames.actions
  BY <1>4, <1>6
<1> QED BY <1>7

LEMMA HoldsNewest == DatasetInv /\ FramesInv => HoldsNewestObservation
<1> SUFFICES ASSUME DatasetInv, FramesInv, NEW i \in DOMAIN disk, NEW d \in 1..disk[i].end
             PROVE  LET saw == {u \in Lineage(i) : d \in DOMAIN disk[u].seen.bars}
                        frames == disk[i].frames
                    IN /\ frames.bars[d] = disk[Max(saw)].seen.bars[d]
                       /\ frames.adjusted[d].bar = frames.bars[d]
                       /\ \A e \in 2..disk[i].end : e > d =>
                            (e \in DOMAIN frames.actions) <=> (\E v \in {1, 2} : <<e, v>> \in frames.adjusted[d].later)
  BY DEF HoldsNewestObservation
<1> DEFINE frames == disk[i].frames
<1>1. Grown(disk, disk[i])
  BY DEF FramesInv
<1>2. frames.adjusted[d].bar = frames.bars[d]
  BY <1>1 DEF Grown, Valid, Consistent
<1>3. \A e \in DOMAIN frames.actions : frames.actions[e].version \in Versions
  BY <1>1 DEF Grown, ActionsGrown
<1>4. disk[i].end \in Days /\ Valid(frames, disk[i].end) /\ AdjustedSound(frames.adjusted)
  BY <1>1 DEF Grown
<1> HIDE DEF frames
<1>5. \A e \in 2..disk[i].end : e > d =>
        (e \in DOMAIN frames.actions) <=> (\E v \in Versions : <<e, v>> \in frames.adjusted[d].later)
  BY <1>3, <1>4, JumpsAreActions
<1> QED BY <1>2, <1>5, NewestIsHeld DEF Versions, frames

\* The run of snapshots that hold a row began with an answer that had it.
LEMMA ReceiptsOfRuns == DatasetInv /\ FramesInv => ReceiptsAreFirst
<1> SUFFICES ASSUME DatasetInv, FramesInv PROVE ReceiptsAreFirst
  OBVIOUS
<1> DEFINE Row(i, e) == disk[i].frames.actions[e]
           Holds(u, e, row) == e \in DOMAIN disk[u].frames.actions /\ disk[u].frames.actions[e].version = row.version
           Began(i, e, row) ==
             \E u \in Lineage(i) :
               /\ e \in DOMAIN disk[u].seen.actions /\ disk[u].seen.actions[e] = row
               /\ \A w \in Lineage(i) : w >= u => Holds(w, e, row)
               /\ disk[u].parent # 0 => ~Holds(disk[u].parent, e, row)
           Bad == {i \in DOMAIN disk : \E e \in DOMAIN disk[i].frames.actions : ~Began(i, e, Row(i, e))}
<1>1. \A i \in DOMAIN disk : ActionsGrown(disk, disk[i])
  BY DEF FramesInv, Grown
<1>2. ASSUME Bad # {} PROVE FALSE
  <2>1. Len(disk) \in Nat /\ Bad \subseteq 0..Len(disk)
    BY DiskIsLine
  <2>2. PICK j \in Bad : \A k \in Bad : j <= k
    <3> HIDE DEF Bad
    <3> QED BY <1>2, <2>1, LeastNat
  <2>3. PICK e \in DOMAIN disk[j].frames.actions : ~Began(j, e, Row(j, e))
    BY <2>2
  <2> DEFINE row == Row(j, e)
             p == disk[j].parent
  <2>4. /\ j \in Lineage(j) /\ Lineage(j) \subseteq DOMAIN disk /\ \A u \in Lineage(j) : u <= j
        /\ p # 0 => Lineage(j) = {j} \union Lineage(p)
    BY <2>2, LineageUnfolds
  <2>5. j \in Nat /\ \A u \in Lineage(j) : u \in Nat
    BY <2>2, <2>4, DiskIsLine
  <2>6. Holds(j, e, row)
    OBVIOUS
  <2>7. CASE HeldBy(disk, p, e, row) /\ disk[p].frames.actions[e] = row
    <3>1. p # 0 /\ e \in DOMAIN disk[p].frames.actions /\ Row(p, e) = row
      BY <2>7 DEF HeldBy
    <3>2. p \in DOMAIN disk /\ p < j
      BY <2>2, <3>1, DiskIsLine
    <3>3. p \notin Bad
      <4> HIDE DEF Bad
      <4> QED BY <2>2, <2>5, <3>2, DiskIsLine
    <3>4. Began(p, e, row)
      <4>1. \A f \in DOMAIN disk[p].frames.actions : Began(p, f, Row(p, f))
        <5> HIDE DEF Began
        <5> QED BY <3>2, <3>3
      <4>2. Began(p, e, Row(p, e))
        <5> HIDE DEF Began
        <5> QED BY <3>1, <4>1
      <4> QED BY <3>1, <4>2
    <3>5. PICK u \in Lineage(p) : /\ e \in DOMAIN disk[u].seen.actions /\ disk[u].seen.actions[e] = row
                                  /\ \A w \in Lineage(p) : w >= u => Holds(w, e, row)
                                  /\ disk[u].parent # 0 => ~Holds(disk[u].parent, e, row)
      BY <3>4
    <3>6. u \in Lineage(j) /\ \A w \in Lineage(j) : w >= u => Holds(w, e, row)
      BY <2>4, <2>6, <3>1, <3>5
    <3>7. Began(j, e, row)
      BY <3>5, <3>6
    <3> QED BY <2>3, <3>7
  <2>8. CASE e \in DOMAIN disk[j].seen.actions /\ disk[j].seen.actions[e] = row /\ ~HeldBy(disk, p, e, row)
    <3>1. \A w \in Lineage(j) : w >= j => w = j
      BY <2>4, <2>5
    <3>2. p # 0 => ~Holds(p, e, row)
      BY <2>8 DEF HeldBy
    <3>3. \A w \in Lineage(j) : w >= j => Holds(w, e, row)
      BY <2>6, <3>1
    <3>4. Began(j, e, row)
      BY <2>4, <2>8, <3>2, <3>3
    <3> QED BY <2>3, <3>4
  <2> QED BY <1>1, <2>2, <2>7, <2>8 DEF ActionsGrown
<1>3. \A i \in DOMAIN disk : \A e \in DOMAIN disk[i].frames.actions : Began(i, e, Row(i, e))
  BY <1>2
<1>4. \A i \in DOMAIN disk : \A e \in DOMAIN disk[i].frames.actions : Row(i, e).receipt <= disk[i].capture
  BY <1>1 DEF ActionsGrown
<1> QED BY <1>3, <1>4 DEF ReceiptsAreFirst

-----------------------------------------------------------------------------
(***************************************************************************)
(* Every step keeps it.                                                    *)
(***************************************************************************)
LEMMA FramesStart == DatasetInit => FramesInv
<1> SUFFICES ASSUME DatasetInit PROVE FramesInv
  OBVIOUS
<1>1. FeedSound
  <2>1. PICK declared \in SUBSET (2..LastDay) :
          feed = [bars |-> [d \in Days |-> 0], actions |-> [d \in Days |-> IF d \in declared THEN 1 ELSE Absent]]
    BY DEF DatasetInit
  <2>2. feed.actions = [d \in Days |-> IF d \in declared THEN 1 ELSE Absent]
    BY <2>1
  <2> QED BY <2>2 DEF FeedSound, Versions
<1>2. \A c \in Callers : FramesCall(c)
  BY DEF DatasetInit, Idle, FramesCall
<1> QED BY <1>1, <1>2 DEF DatasetInit, FramesInv

\* A step of one call that leaves what is published and what is served alone.
LEMMA FramesStepOn ==
  ASSUME DatasetInv, FramesInv, NEW c \in Callers, NEW r, call' = [call EXCEPT ![c] = r],
         UNCHANGED <<disk, feed>>, call'[c] = r => FramesCall(c)'
  PROVE  FramesInv'
<1>1. call'[c] = r /\ \A q \in Callers \ {c} : call'[q] = call[q]
  BY DEF DatasetInv
<1>2. FeedSound' /\ \A i \in DOMAIN disk' : Grown(disk', disk'[i])
  BY DEF FramesInv, FeedSound
<1>3. \A q \in Callers \ {c} : FramesCall(q)'
  BY <1>1 DEF FramesInv, FramesCall
<1> QED BY <1>1, <1>2, <1>3 DEF FramesInv

LEMMA FramesEnd ==
  ASSUME DatasetInv, FramesInv, NEW c \in Callers, NEW r, call' = [call EXCEPT ![c] = r],
         r.pc \notin {"fetch", "actions", "publish"}, UNCHANGED <<disk, feed>>
  PROVE  FramesInv'
<1>1. ASSUME call'[c] = r PROVE FramesCall(c)'
  BY <1>1 DEF FramesCall
<1> QED BY <1>1, FramesStepOn

\* A revision of the provider changes nothing that was read.
LEMMA FramesRevise == ASSUME FramesInv, NEW d \in Days, Revise(d) PROVE FramesInv'
<1>1. FeedSound'
  <2>1. CASE feed' = [feed EXCEPT !.bars[d] = @ + 1]
    <3>1. feed'.actions = feed.actions
      BY <2>1
    <3> QED BY <3>1 DEF FramesInv, FeedSound
  <2>2. CASE \E a \in {Absent, 1, 2} \ {feed.actions[d]} : feed' = [feed EXCEPT !.actions[d] = a]
    <3>1. PICK a \in Versions \union {Absent} : feed' = [feed EXCEPT !.actions[d] = a]
      BY <2>2 DEF Versions
    <3>2. feed'.actions = [feed.actions EXCEPT ![d] = a] \/ feed'.actions = feed.actions
      BY <3>1
    <3> QED BY <3>2 DEF FramesInv, FeedSound
  <2> QED BY <2>1, <2>2 DEF Revise
<1>2. UNCHANGED <<disk, call>>
  BY DEF Revise
<1> QED BY <1>1, <1>2 DEF FramesInv, FramesCall

LEMMA FramesBuild ==
  ASSUME DatasetInv, FramesInv, NEW c \in Callers, NEW capture \in 1..LastCapture, NEW end \in Days,
         Build(c, capture, end) \/ \E op \in {"live", "local"} : Update(c, op, capture, end)
  PROVE  FramesInv'
<1>1. PICK op, parent :
        call' = [call EXCEPT ![c] = [pc |-> "fetch", op |-> op, parent |-> parent, capture |-> capture, end |-> end]]
  BY DEF Build, Update, Begin
<1> DEFINE r == [pc |-> "fetch", op |-> op, parent |-> parent, capture |-> capture, end |-> end]
<1>2. r.pc = "fetch" /\ r.end \in Days /\ r.capture \in Nat
  BY DatasetAssumption
<1>3. call' = [call EXCEPT ![c] = r] /\ UNCHANGED <<disk, feed>>
  BY <1>1 DEF Build, Update
<1> HIDE DEF r
<1>4. ASSUME call'[c] = r PROVE FramesCall(c)'
  BY <1>2, <1>4 DEF FramesCall
<1> QED BY <1>3, <1>4, FramesStepOn

\* A bound snapshot has the frames of its parent.
LEMMA FramesBind ==
  ASSUME DatasetInv, FramesInv, NEW c \in Callers, NEW capture \in 1..LastCapture, NEW horizon \in Days,
         Bind(c, capture, horizon)
  PROVE  FramesInv'
<1> DEFINE p == catalog.current
           previous == disk[p]
           s == [parent |-> p, op |-> previous.op, capture |-> capture,
                 end |-> previous.end, master |-> horizon, frames |-> previous.frames, seen |-> Empty]
           r == [pc |-> "publish", snapshot |-> s]
<1>1. call' = [call EXCEPT ![c] = r] /\ UNCHANGED <<disk, feed>>
  BY DEF Bind
<1>2. p \in DOMAIN disk /\ p # 0 /\ previous.capture \in Nat /\ capture \in Nat /\ capture >= previous.capture
  BY DEF Bind, DatasetInv, CatalogSound, DiskSound, Continues
<1>3. /\ s.parent = p /\ s.capture = capture /\ s.end = previous.end /\ s.frames = previous.frames
      /\ DOMAIN s.seen.bars = {}
  BY DEF Empty
<1>4. r.pc = "publish" /\ r.snapshot = s
  OBVIOUS
<1>5. Grown(disk, previous)
  BY <1>2 DEF FramesInv
<1> HIDE DEF r, s
<1>6. BarsGrown(disk, s)
  <2>1. previous.end \in Nat
    BY <1>2 DEF DatasetInv, DiskSound, Continues
  <2> QED BY <1>2, <1>3, <2>1 DEF BarsGrown
<1>7. ActionsGrown(disk, s)
  <2> SUFFICES ASSUME NEW e \in DOMAIN s.frames.actions
               PROVE  LET row == s.frames.actions[e] IN
                      /\ row.version \in Versions /\ row.receipt \in Nat /\ row.receipt <= s.capture
                      /\ HeldBy(disk, s.parent, e, row) /\ disk[s.parent].frames.actions[e] = row
    BY DEF ActionsGrown
  <2> DEFINE row == previous.frames.actions[e]
  <2>1. e \in DOMAIN previous.frames.actions /\ s.frames.actions[e] = row
    BY <1>3
  <2>2. row.version \in Versions /\ row.receipt \in Nat /\ row.receipt <= previous.capture
    BY <1>5, <2>1 DEF Grown, ActionsGrown
  <2>3. row.receipt <= s.capture
    BY <1>2, <1>3, <2>2
  <2>4. HeldBy(disk, s.parent, e, row)
    BY <1>2, <1>3, <2>1 DEF HeldBy
  <2> QED BY <1>3, <2>1, <2>2, <2>3, <2>4
<1>8. Grown(disk, s)
  BY <1>3, <1>5, <1>6, <1>7 DEF Grown
<1>9. ASSUME call'[c] = r PROVE FramesCall(c)'
  BY <1>1, <1>4, <1>8, <1>9 DEF FramesCall
<1> QED BY <1>1, <1>9, FramesStepOn

\* Adjusted prices as they are served know actions after their days.
LEMMA FramesFetchPrices ==
  ASSUME DatasetInv, FramesInv, NEW c \in Callers, FetchPrices(c)
  PROVE  FramesInv'
<1>1. PICK bars \in Responses(FirstPriceDay(c), call[c].end), adjusted \in Responses(1, call[c].end) :
        call' = [call EXCEPT ![c] = [pc |-> "actions", asked |-> @, seen |-> Prices(bars, adjusted)]]
  BY DEF FetchPrices
<1> DEFINE b == [d \in bars |-> feed.bars[d]]
           a == [d \in adjusted |-> Adjusted(d)]
           r == [pc |-> "actions", asked |-> call[c], seen |-> [bars |-> b, adjusted |-> a]]
<1>2. call' = [call EXCEPT ![c] = r] /\ UNCHANGED <<disk, feed>>
  BY <1>1 DEF FetchPrices, Prices
<1>3. AdjustedSound(a)
  <2> SUFFICES ASSUME NEW d \in adjusted, NEW y \in Adjusted(d).later
               PROVE  \E e \in Days, v \in Versions : y = <<e, v>> /\ e > d
    BY DEF AdjustedSound
  <2>1. PICK e \in ActionDays(LastDay) : e > d /\ y = <<e, feed.actions[e]>>
    BY DEF Adjusted
  <2>2. e \in Days /\ feed.actions[e] \in Versions
    BY <2>1 DEF ActionDays, Days, FramesInv, FeedSound
  <2> QED BY <2>1, <2>2
<1>4. r.pc = "actions" /\ r.asked = call[c] /\ r.seen = [bars |-> b, adjusted |-> a]
  OBVIOUS
<1>5. call[c].end \in Days /\ call[c].capture \in Nat
  BY DEF FetchPrices, FramesInv, FramesCall
<1> HIDE DEF r, a, b
<1>6. ASSUME call'[c] = r PROVE FramesCall(c)'
  BY <1>3, <1>4, <1>5, <1>6 DEF FramesCall
<1> QED BY <1>2, <1>6, FramesStepOn

\* The frames of an answer that is admitted: its prices replace those of the parent, and
\* an action of the parent stays if the answer repeats it, or says nothing of it.
LEMMA AnswerGrows ==
  ASSUME NEW asked, NEW bars, NEW adjusted, NEW acts,
         DiskSound, \A i \in DOMAIN disk : Grown(disk, disk[i]), Continues(disk, asked),
         asked.end \in Days, asked.capture \in Nat, AdjustedSound(adjusted),
         acts \in ActionsSeen(asked), FeedSound,
         Valid(Snapshot(asked, [bars |-> bars, adjusted |-> adjusted, actions |-> acts]).frames, asked.end),
         ReceiptsAdmitted(Old(asked).actions, acts, asked.capture)
  PROVE  Grown(disk, Snapshot(asked, [bars |-> bars, adjusted |-> adjusted, actions |-> acts]))
<1> DEFINE seen == [bars |-> bars, adjusted |-> adjusted, actions |-> acts]
           old == Old(asked)
           s == Snapshot(asked, seen)
           p == asked.parent
<1>1. seen.bars = bars /\ seen.adjusted = adjusted /\ seen.actions = acts
  OBVIOUS
<1> HIDE DEF seen
<1>2. /\ s.parent = p /\ s.capture = asked.capture /\ s.end = asked.end /\ s.seen = seen
      /\ s.frames = Frames(asked.op, old, seen, asked.end)
  BY DEF Snapshot
<1>3. Valid(s.frames, s.end)
  BY <1>2 DEF seen
<1> HIDE DEF s
<1>4. /\ s.frames.bars = Until(Merged(old.bars, bars), s.end)
      /\ s.frames.adjusted = Until(Merged(old.adjusted, adjusted), s.end)
      /\ s.frames.actions = Until(ActionView(asked.op, old.actions, acts), s.end)
  BY <1>1, <1>2 DEF Frames
<1>5. /\ p = 0 => DOMAIN old.bars = {} /\ DOMAIN old.adjusted = {} /\ DOMAIN old.actions = {}
      /\ p # 0 => old = disk[p].frames /\ p \in DOMAIN disk /\ Grown(disk, disk[p])
  BY DEF Old, Empty, Continues
<1> HIDE DEF old
<1>6. s.end \in Nat /\ DOMAIN s.frames.bars = 1..s.end /\ DOMAIN s.frames.adjusted = 1..s.end
  BY <1>2, <1>3 DEF Valid, Days
<1>7. BarsGrown(disk, s)
  <2> SUFFICES ASSUME NEW d \in 1..s.end
               PROVE  IF d \in DOMAIN s.seen.bars THEN s.frames.bars[d] = s.seen.bars[d]
                      ELSE /\ s.parent # 0 /\ d <= disk[s.parent].end
                           /\ s.frames.bars[d] = disk[s.parent].frames.bars[d]
    BY DEF BarsGrown
  <2>1. /\ d \in DOMAIN old.bars \union DOMAIN bars
        /\ s.frames.bars[d] = IF d \in DOMAIN bars THEN bars[d] ELSE old.bars[d]
    BY <1>4, <1>6 DEF Until, Merged
  <2>2. s.seen.bars = bars
    BY <1>1, <1>2
  <2>3. ASSUME d \notin DOMAIN bars PROVE p # 0 /\ d <= disk[p].end /\ old.bars = disk[p].frames.bars
    <3>1. p # 0 /\ old = disk[p].frames /\ Grown(disk, disk[p])
      BY <1>5, <2>1, <2>3
    <3>2. DOMAIN old.bars = 1..disk[p].end
      BY <3>1 DEF Grown, Valid
    <3>3. d \in 1..disk[p].end
      BY <2>1, <2>3, <3>2
    <3> QED BY <3>1, <3>3
  <2> QED BY <1>2, <2>1, <2>2, <2>3
<1>8. AdjustedSound(s.frames.adjusted)
  <2> SUFFICES ASSUME NEW d \in 1..s.end, NEW y \in s.frames.adjusted[d].later
               PROVE  \E e \in Days, v \in Versions : y = <<e, v>> /\ e > d
    BY <1>6 DEF AdjustedSound
  <2>1. /\ d \in DOMAIN old.adjusted \union DOMAIN adjusted
        /\ s.frames.adjusted[d] = IF d \in DOMAIN adjusted THEN adjusted[d] ELSE old.adjusted[d]
    BY <1>4, <1>6 DEF Until, Merged
  <2>2. CASE d \in DOMAIN adjusted
    BY <2>1, <2>2 DEF AdjustedSound
  <2>3. CASE d \notin DOMAIN adjusted
    <3>1. d \in DOMAIN old.adjusted /\ p # 0
      BY <1>5, <2>1, <2>3
    <3>2. AdjustedSound(old.adjusted)
      BY <1>5, <3>1 DEF Grown
    <3> QED BY <2>1, <2>3, <3>1, <3>2 DEF AdjustedSound
  <2> QED BY <2>2, <2>3
<1>9. \A e \in DOMAIN acts : acts[e].version \in Versions /\ acts[e].receipt \in Nat
  <2>1. \A e \in ActionDays(asked.end) : feed.actions[e] \in Versions
    <3> SUFFICES ASSUME NEW e \in ActionDays(asked.end) PROVE feed.actions[e] \in Versions
      OBVIOUS
    <3>1. e \in 1..asked.end /\ feed.actions[e] # Absent
      BY DEF ActionDays
    <3>2. e \in Days
      BY <3>1, DatasetAssumption DEF Days
    <3> QED BY <3>1, <3>2 DEF FeedSound
  <2>2. CASE asked.op = "live"
    <3>1. acts = [e \in ActionDays(asked.end) |-> [version |-> feed.actions[e], receipt |-> asked.capture]]
      BY <2>2 DEF ActionsSeen
    <3> QED BY <2>1, <3>1
  <2>3. CASE asked.op # "live"
    <3>1. PICK part \in SUBSET ActionDays(asked.end), r \in 1..asked.capture :
            acts = [e \in part |-> [version |-> feed.actions[e], receipt |-> r]]
      BY <2>3 DEF ActionsSeen
    <3>2. r \in Nat
      BY <3>1
    <3> QED BY <2>1, <3>1, <3>2
  <2> QED BY <2>2, <2>3
<1>10. ActionsGrown(disk, s)
  <2> SUFFICES ASSUME NEW e \in DOMAIN s.frames.actions
               PROVE  LET row == s.frames.actions[e] IN
                      /\ row.version \in Versions /\ row.receipt \in Nat /\ row.receipt <= s.capture
                      /\ \/ HeldBy(disk, s.parent, e, row) /\ disk[s.parent].frames.actions[e] = row
                         \/ /\ e \in DOMAIN s.seen.actions /\ s.seen.actions[e] = row
                            /\ ~HeldBy(disk, s.parent, e, row)
    BY DEF ActionsGrown
  <2> DEFINE row == s.frames.actions[e]
             kept == e \in DOMAIN old.actions /\ old.actions[e] = row
             new == /\ e \in DOMAIN acts /\ acts[e] = row
                    /\ ~(e \in DOMAIN old.actions /\ old.actions[e].version = row.version)
  <2>1. kept \/ new
    <3>1. /\ e \in DOMAIN ActionView(asked.op, old.actions, acts)
          /\ row = ActionView(asked.op, old.actions, acts)[e]
      BY <1>4 DEF Until
    <3>2. CASE e \in DOMAIN acts
      <4>1. row = FirstObserved(old.actions, acts)[e]
        BY <3>1, <3>2 DEF ActionView, Merged, FirstObserved
      <4> QED BY <3>2, <4>1 DEF FirstObserved
    <3>3. CASE e \notin DOMAIN acts
      <4>1. e \in DOMAIN old.actions /\ row = old.actions[e]
        BY <3>1, <3>3 DEF ActionView, Merged, FirstObserved
      <4> QED BY <4>1
    <3> QED BY <3>2, <3>3
  <2> HIDE DEF row
  <2>2. CASE kept
    <3>1. p # 0 /\ old = disk[p].frames /\ Grown(disk, disk[p]) /\ p \in DOMAIN disk
      BY <1>5, <2>2
    <3>2. row.version \in Versions /\ row.receipt \in Nat /\ row.receipt <= disk[p].capture
      BY <2>2, <3>1 DEF Grown, ActionsGrown
    <3>3. disk[p].capture \in Nat /\ disk[p].capture <= asked.capture
      BY <3>1 DEF DiskSound, Continues
    <3>4. HeldBy(disk, p, e, row) /\ disk[p].frames.actions[e] = row
      BY <2>2, <3>1 DEF HeldBy
    <3>5. row.receipt <= s.capture
      BY <1>2, <3>2, <3>3
    <3> QED BY <1>2, <3>2, <3>4, <3>5 DEF row
  <2>3. CASE new
    <3>1. row.version \in Versions /\ row.receipt \in Nat
      BY <1>9, <2>3
    <3>2. row.receipt <= s.capture
      BY <1>2, <2>3 DEF ReceiptsAdmitted, old
    <3>3. ~HeldBy(disk, p, e, row)
      BY <1>5, <2>3 DEF HeldBy
    <3>4. s.seen.actions = acts
      BY <1>1, <1>2
    <3> QED BY <1>2, <2>3, <3>1, <3>2, <3>3, <3>4 DEF row
  <2> QED BY <2>1, <2>2, <2>3
<1>11. s.end \in Days
  BY <1>2
<1>12. Grown(disk, s)
  BY <1>3, <1>7, <1>8, <1>10, <1>11 DEF Grown
<1> QED BY <1>12 DEF s, seen

LEMMA FramesFetchActions ==
  ASSUME DatasetInv, FramesInv, NEW c \in Callers, FetchActions(c)
  PROVE  FramesInv'
<1> DEFINE asked == call[c].asked
           seen == call[c].seen
<1>1. /\ call[c].pc = "actions" /\ Continues(disk, asked) /\ UNCHANGED <<disk, feed>>
      /\ asked.end \in Days /\ asked.capture \in Nat /\ DiskSound /\ FeedSound
      /\ \A i \in DOMAIN disk : Grown(disk, disk[i])
  BY DEF FetchActions, DatasetInv, CallSound, FramesInv, FramesCall
<1>2. AdjustedSound(seen.adjusted)
  BY <1>1 DEF FramesInv, FramesCall
<1>3. PICK acts \in ActionsSeen(asked) :
        LET all == [bars |-> seen.bars, adjusted |-> seen.adjusted, actions |-> acts]
            s == Snapshot(asked, all)
        IN \/ call' = [call EXCEPT ![c] = Idle]
           \/ /\ ReceiptsAdmitted(Old(asked).actions, acts, asked.capture) /\ Valid(s.frames, asked.end)
              /\ call' = [call EXCEPT ![c] = [pc |-> "publish", snapshot |-> s]]
  BY DEF FetchActions
<1> DEFINE all == [bars |-> seen.bars, adjusted |-> seen.adjusted, actions |-> acts]
           s == Snapshot(asked, all)
           r == [pc |-> "publish", snapshot |-> s]
<1>4. CASE call' = [call EXCEPT ![c] = Idle]
  BY <1>1, <1>4, FramesEnd DEF Idle
<1>5. CASE /\ ReceiptsAdmitted(Old(asked).actions, acts, asked.capture) /\ Valid(s.frames, asked.end)
           /\ call' = [call EXCEPT ![c] = r]
  <2>1. Grown(disk, s)
    BY <1>1, <1>2, <1>5, AnswerGrows
  <2> HIDE DEF s
  <2>2. r.pc = "publish" /\ r.snapshot = s
    OBVIOUS
  <2> HIDE DEF r
  <2>3. ASSUME call'[c] = r PROVE FramesCall(c)'
    BY <1>1, <2>1, <2>2, <2>3 DEF FramesCall
  <2> QED BY <1>1, <1>5, <2>3, FramesStepOn
<1> QED BY <1>3, <1>4, <1>5

\* A snapshot is compared with its parent, which stays where it is.
LEMMA GrownKept ==
  ASSUME NEW s, Continues(disk, s), Grown(disk, s), \A i \in DOMAIN disk : i \in DOMAIN disk' /\ disk'[i] = disk[i]
  PROVE  Grown(disk', s)
<1>1. s.parent # 0 => disk'[s.parent] = disk[s.parent]
  BY DEF Continues
<1>2. BarsGrown(disk', s)
  BY <1>1 DEF Grown, BarsGrown
<1>3. ActionsGrown(disk', s)
  <2>1. \A e, row : HeldBy(disk', s.parent, e, row) <=> HeldBy(disk, s.parent, e, row)
    BY <1>1 DEF HeldBy
  <2>2. ASSUME NEW e, NEW row, HeldBy(disk, s.parent, e, row)
        PROVE  disk'[s.parent] = disk[s.parent]
    BY <1>1, <2>2 DEF HeldBy
  <2> QED BY <2>1, <2>2 DEF Grown, ActionsGrown
<1> QED BY <1>2, <1>3 DEF Grown

LEMMA FramesPublish ==
  ASSUME DatasetInv, FramesInv, NEW c \in Callers, Publish(c)
  PROVE  FramesInv'
<1> DEFINE s == call[c].snapshot
<1>1. /\ DiskSound /\ Continues(disk, s) /\ Grown(disk, s) /\ feed' = feed
      /\ \A i \in DOMAIN disk : Grown(disk, disk[i]) /\ Continues(disk, disk[i])
  BY DEF Publish, DatasetInv, DiskSound, CallSound, FramesInv, FramesCall
<1>2. /\ \A i \in DOMAIN disk : i \in DOMAIN disk' /\ disk'[i] = disk[i]
      /\ \A i \in DOMAIN disk' \ DOMAIN disk : disk'[i] = s
  BY <1>1, PublishedStays DEF Publish
<1>3. \A i \in DOMAIN disk' : Grown(disk', disk'[i])
  BY <1>1, <1>2, GrownKept
<1>4. call'[c].pc = "read" /\ \A q \in Callers \ {c} : call'[q] = call[q]
  BY DEF Publish, DatasetInv
<1>5. ASSUME NEW q \in Callers PROVE FramesCall(q)'
  <2>1. CASE q = c
    BY <1>4, <2>1 DEF FramesCall
  <2>2. CASE q # c
    <3>1. call'[q] = call[q] /\ FramesCall(q) /\ CallSound(q)
      BY <1>4, <2>2 DEF FramesInv, DatasetInv
    <3>2. call[q].pc = "publish" => Grown(disk', call[q].snapshot)
      BY <1>2, <3>1, GrownKept DEF FramesCall, CallSound
    <3> QED BY <3>1, <3>2 DEF FramesCall
  <2> QED BY <2>1, <2>2
<1>6. FeedSound'
  BY <1>1 DEF FramesInv, FeedSound
<1> QED BY <1>3, <1>5, <1>6 DEF FramesInv

LEMMA FramesSteps == ASSUME DatasetInv, FramesInv, [DatasetNext]_datasetVars PROVE FramesInv'
<1>1. ASSUME NEW c \in Callers, NEW capture \in 1..LastCapture, NEW end \in Days,
             \/ Build(c, capture, end)
             \/ \E op \in {"live", "local"} : Update(c, op, capture, end)
             \/ Bind(c, capture, end)
      PROVE  FramesInv'
  BY <1>1, FramesBuild, FramesBind
<1>2. ASSUME NEW c \in Callers, ReadCatalog(c) \/ WriteCatalog(c) \/ Die(c) PROVE FramesInv'
  <2>1. UNCHANGED <<disk, feed>>
    BY <1>2 DEF ReadCatalog, WriteCatalog, Die
  <2>2. \E r : call' = [call EXCEPT ![c] = r] /\ r.pc \notin {"fetch", "actions", "publish"}
    <3> DEFINE w == [pc |-> "write", id |-> call[c].id, known |-> IF catalog = Absent THEN {} ELSE catalog.known]
    <3>1. w.pc \notin {"fetch", "actions", "publish"} /\ Idle.pc \notin {"fetch", "actions", "publish"}
      BY DEF Idle
    <3>2. call' = [call EXCEPT ![c] = w] \/ call' = [call EXCEPT ![c] = Idle]
      BY <1>2 DEF ReadCatalog, WriteCatalog, Die
    <3> HIDE DEF w
    <3> QED BY <3>1, <3>2
  <2> QED BY <2>1, <2>2, FramesEnd
<1>3. ASSUME NEW c \in Callers, FetchPrices(c) \/ FetchActions(c) \/ Publish(c) PROVE FramesInv'
  BY <1>3, FramesFetchPrices, FramesFetchActions, FramesPublish
<1>4. CASE Quiet \/ UNCHANGED datasetVars
  <2>1. UNCHANGED <<feed, disk, call>>
    BY <1>4 DEF Quiet, datasetVars
  <2> QED BY <2>1 DEF FramesInv, FeedSound, FramesCall
<1> QED BY <1>1, <1>2, <1>3, <1>4, FramesRevise DEF DatasetNext

\* What each snapshot holds follows from its parent and the answer that it was made of.
LEMMA FramesAlways == DatasetSpec => [](DatasetInv /\ FramesInv)
<1>1. DatasetInv /\ FramesInv /\ [DatasetNext]_datasetVars => (DatasetInv /\ FramesInv)'
  BY NextStep, FramesSteps
<1> QED BY StartHolds, FramesStart, <1>1, PTL DEF DatasetSpec

\* Every snapshot holds the newest observation of each day that its line made, with
\* adjusted prices that jump where its actions are and nowhere else, for any answers of
\* the provider and any calls that overlap and die.
THEOREM HoldsNewestObservationHolds == DatasetSpec => []HoldsNewestObservation
BY FramesAlways, HoldsNewest, PTL

\* The receipt of an action is that of the observation with which the unbroken run of
\* snapshots that hold this version of it began.
THEOREM ReceiptsAreFirstHolds == DatasetSpec => []ReceiptsAreFirst
BY FramesAlways, ReceiptsOfRuns, PTL
=============================================================================
