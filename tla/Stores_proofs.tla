---------------------------- MODULE Stores_proofs ----------------------------
(***************************************************************************)
(* The artifact store: what an owner has pinned stays readable, and what   *)
(* derives from a revised input is told exactly.  The publication of bars: *)
(* a revision names one snapshot.  The storage of a capture stream: its    *)
(* two chains hold, and what a receipt names is on the archive.            *)
(*                                                                         *)
(* A file may be lost by a collection that does not commit, so the         *)
(* invariant of the store does not say that each record has its file: it   *)
(* says that one closed set of objects with files holds all pins.          *)
(***************************************************************************)
EXTENDS ArtifactStore, Curated, CaptureStorage, FiniteSetTheorems, SequenceTheorems,
        WellFoundedInduction, TLAPS

(***************************************************************************)
(* The artifact store: what is pinned.                                     *)
(***************************************************************************)
Tables == [objects : SUBSET Objects, pins : [Owners -> SUBSET Objects],
           edges : [Objects -> SUBSET Objects], derived : SUBSET Objects]

WriteOps == {"put", "publish", "register"}
DeleteOps == {"delete", "collect", "sweep"}
WritingCalls == [op : WriteOps, target : Objects, owners : SUBSET Owners, write : SUBSET Objects, work : Tables]
DeletingCalls == [op : DeleteOps, work : Tables]

ArtifactTypeOK ==
  /\ files \in SUBSET Objects /\ db \in Tables
  /\ session \in {Free} \union WritingCalls \union DeletingCalls

\* The references of a record are those of its content, or are not registered.
EdgesAreRefs(t) == \A x \in Objects : t.edges[x] \in {{}, Refs(x)}

\* What an open call has done to its view of the tables.
WorkFollows ==
  /\ session.op \in WriteOps =>
       /\ session.work.pins = db.pins /\ session.work.edges = db.edges
       /\ db.objects \subseteq session.work.objects
       /\ session.owners = {} => session.op = "put"
  /\ session.op \in DeleteOps =>
       /\ session.work.pins = db.pins /\ session.work.objects \subseteq db.objects
       /\ (db.objects \ session.work.objects) \cap files = {}
       /\ \A x \in session.work.objects : session.work.edges[x] = db.edges[x]
       /\ \A x \in Objects : session.work.edges[x] \in {{}, db.edges[x]}

Safe(S) ==
  /\ S \subseteq files /\ S \subseteq db.objects
  /\ \A o \in Owners : db.pins[o] \subseteq S
  /\ \A x \in S : db.edges[x] \subseteq S

IInv ==
  /\ ArtifactTypeOK /\ EdgesAreRefs(db) /\ WorkFollows
  /\ \E S \in SUBSET Objects : Safe(S)

-----------------------------------------------------------------------------
LEMMA RefsAreObjects ==
  ASSUME NEW x \in Objects PROVE Refs(x) \in SUBSET Objects
BY ArtifactAssumption DEF Refs

LEMMA LinkedTables ==
  ASSUME NEW t \in Tables, NEW x \in Objects, EdgesAreRefs(t)
  PROVE  /\ Linked(t, x) \in Tables /\ EdgesAreRefs(Linked(t, x))
         /\ Linked(t, x).pins = t.pins /\ Linked(t, x).objects = t.objects
         /\ Linked(t, x).edges[x] = Refs(x)
         /\ \A y \in Objects \ {x} : Linked(t, x).edges[y] = t.edges[y]
BY RefsAreObjects DEF Linked, Tables, EdgesAreRefs

LEMMA WithoutTables ==
  ASSUME NEW t \in Tables, NEW x \in Objects
  PROVE  /\ Without(t, x) \in Tables
         /\ Without(t, x).pins = t.pins /\ Without(t, x).objects = t.objects \ {x}
         /\ Without(t, x).edges[x] = {}
         /\ \A y \in Objects \ {x} : Without(t, x).edges[y] = t.edges[y]
BY DEF Without, Tables

\* The union of the readable sets is readable, and holds what is verified.
LEMMA ReadableUnion ==
  ASSUME NEW t \in Tables
  PROVE  LET T == UNION ReadableSets(t) IN
         /\ T \in SUBSET Objects /\ T \subseteq files /\ T \subseteq t.objects
         /\ \A y \in T : t.edges[y] \subseteq T
<1> DEFINE T == UNION ReadableSets(t)
<1>1. T \in SUBSET Objects
  BY DEF ReadableSets
<1>2. T \subseteq files /\ T \subseteq t.objects
  BY DEF ReadableSets, Verified
<1>3. \A y \in T : t.edges[y] \subseteq T
  BY DEF ReadableSets
<1> QED BY <1>1, <1>2, <1>3

\* Tables whose pins lie in a closed set of objects with files.
LEMMA SafeAfterPins ==
  ASSUME NEW S \in SUBSET Objects, Safe(S), db \in Tables, db' \in Tables,
         NEW T \in SUBSET Objects, T \subseteq files, files' = files,
         db.objects \subseteq db'.objects, T \subseteq db'.objects,
         \A o \in Owners : db'.pins[o] \subseteq db.pins[o] \union T,
         \A y \in T : db'.edges[y] \subseteq T,
         \A y \in Objects \ T : db'.edges[y] = db.edges[y]
  PROVE  \E U \in SUBSET Objects : Safe(U)'
<1>1. Safe(S \union T)'
  BY DEF Safe
<1> QED BY <1>1

-----------------------------------------------------------------------------
LEMMA InitIInv == ArtifactInit => IInv
<1> SUFFICES ASSUME ArtifactInit PROVE IInv
  OBVIOUS
<1> USE DEF ArtifactInit, Free
<1>1. ArtifactTypeOK
  BY DEF ArtifactTypeOK, Tables
<1>2. EdgesAreRefs(db) /\ WorkFollows
  BY DEF EdgesAreRefs, WorkFollows, WriteOps, DeleteOps
<1>3. Safe({})
  BY DEF Safe
<1> QED BY <1>1, <1>2, <1>3 DEF IInv

\* A call that only opens a session.
LEMMA OpenKeeps ==
  ASSUME IInv, session = Free, files' = files, db' = db,
         \/ \E op \in WriteOps, x \in Objects, owners \in SUBSET Owners, write \in SUBSET Objects :
              session' = Writing(op, x, owners, write) /\ (owners = {} => op = "put")
         \/ \E op \in DeleteOps : session' = Deleting(op)
  PROVE  IInv'
<1>1. ArtifactTypeOK'
  BY DEF IInv, ArtifactTypeOK, Writing, Deleting, WritingCalls, DeletingCalls
<1>2. WorkFollows'
  BY DEF IInv, ArtifactTypeOK, EdgesAreRefs, WorkFollows, Writing, Deleting, WriteOps, DeleteOps
<1>3. EdgesAreRefs(db)' /\ \E S \in SUBSET Objects : Safe(S)'
  BY DEF IInv, EdgesAreRefs, Safe
<1> QED BY <1>1, <1>2, <1>3 DEF IInv

LEMMA WriteFileKeeps ==
  ASSUME IInv, NEW x \in Objects, WriteFile(x) PROVE IInv'
<1> USE DEF WriteFile
<1>0. session \in WritingCalls
  BY DEF IInv, ArtifactTypeOK, Free, DeletingCalls, DeleteOps, WriteOps
<1>1. ArtifactTypeOK' /\ session'.work.pins = session.work.pins /\ session'.work.edges = session.work.edges
      /\ session'.work.objects = session.work.objects \union {x} /\ session'.op = session.op
  BY <1>0 DEF IInv, ArtifactTypeOK, WritingCalls, Tables
<1>2. WorkFollows'
  BY <1>0, <1>1 DEF IInv, WorkFollows, WriteOps, DeleteOps
<1>3. EdgesAreRefs(db)' /\ \E S \in SUBSET Objects : Safe(S)'
  BY DEF IInv, EdgesAreRefs, Safe
<1> QED BY <1>1, <1>2, <1>3 DEF IInv

LEMMA FreeKeeps ==
  ASSUME IInv, session' = Free, db' \in Tables, files' = files, EdgesAreRefs(db)',
         \E S \in SUBSET Objects : Safe(S)'
  PROVE  IInv'
BY DEF IInv, ArtifactTypeOK, WorkFollows, Free, WriteOps, DeleteOps

LEMMA CommitWrittenKeeps ==
  ASSUME IInv, CommitWritten PROVE IInv'
<1> DEFINE t == IF session.op = "put" THEN session.work ELSE Linked(session.work, session.target)
<1>0. session \in WritingCalls
  BY DEF CommitWritten, IInv, ArtifactTypeOK, Free, DeletingCalls, DeleteOps
<1>1. /\ session.target \in Objects /\ session.owners \in SUBSET Owners /\ session.work \in Tables
      /\ session.op \in WriteOps
  BY <1>0 DEF WritingCalls
<1>2. /\ session.work.pins = db.pins /\ session.work.edges = db.edges
      /\ db.objects \subseteq session.work.objects /\ EdgesAreRefs(session.work)
  BY <1>1 DEF IInv, WorkFollows, EdgesAreRefs
<1>3. /\ t \in Tables /\ EdgesAreRefs(t) /\ t.pins = db.pins /\ db.objects \subseteq t.objects
      /\ \A y \in Objects \ {session.target} : t.edges[y] = db.edges[y]
      /\ t.edges[session.target] # db.edges[session.target] => session.op # "put"
  BY <1>1, <1>2, LinkedTables
<1> HIDE DEF t
<1>4. /\ session.owners # {} => ClosureVerified(t, session.target)
      /\ db' = WithPins(t, session.owners, {session.target}) /\ session' = Free /\ files' = files
  BY DEF CommitWritten, Complete, t
<1>5. /\ db' \in Tables /\ db'.objects = t.objects /\ db'.edges = t.edges
      /\ \A o \in Owners : db'.pins[o] = t.pins[o] \union IF o \in session.owners THEN {session.target} ELSE {}
  BY <1>1, <1>3, <1>4 DEF WithPins, Tables
<1>6. EdgesAreRefs(db)'
  BY <1>3, <1>5 DEF EdgesAreRefs
<1>7. PICK S \in SUBSET Objects : Safe(S)
  BY DEF IInv
<1>8. db \in Tables
  BY DEF IInv, ArtifactTypeOK
<1>9. \E U \in SUBSET Objects : Safe(U)'
  <2>1. CASE session.owners # {}
    <3> DEFINE T == UNION ReadableSets(t)
    <3>1. /\ T \in SUBSET Objects /\ T \subseteq files /\ T \subseteq t.objects
          /\ \A y \in T : t.edges[y] \subseteq T
      BY <1>3, ReadableUnion
    <3>0. {session.target} \subseteq T
      BY <1>4, <2>1 DEF ClosureVerified
    <3> HIDE DEF T
    <3>2. \A o \in Owners : db'.pins[o] \subseteq db.pins[o] \union T
      BY <1>3, <1>5, <3>0
    <3>3. \A y \in Objects \ T : db'.edges[y] = db.edges[y]
      BY <1>3, <1>5, <3>0
    <3> QED BY <1>3, <1>4, <1>5, <1>7, <1>8, <3>1, <3>2, <3>3, SafeAfterPins
  <2>2. CASE session.owners = {}
    <3>1. session.op = "put"
      BY <1>1, <2>2 DEF IInv, WorkFollows
    <3>2. Safe(S)'
      BY <1>3, <1>4, <1>5, <1>7, <2>2, <3>1 DEF Safe
    <3> QED BY <3>2
  <2> QED BY <2>1, <2>2
<1> QED BY <1>4, <1>5, <1>6, <1>9, FreeKeeps

LEMMA RetainKeeps ==
  ASSUME IInv, NEW owner \in Owners, NEW refs \in SUBSET Objects, Retain(owner, refs) PROVE IInv'
<1>0. db \in Tables /\ session' = Free /\ files' = files
  BY DEF IInv, ArtifactTypeOK, Retain
<1>1. /\ db' \in Tables /\ db'.objects = db.objects /\ db'.edges = db.edges
      /\ \A o \in Owners : db'.pins[o] = db.pins[o] \union IF o \in {owner} THEN refs ELSE {}
  BY <1>0 DEF Retain, WithPins, Tables
<1>2. PICK S \in SUBSET Objects : Safe(S)
  BY DEF IInv
<1> DEFINE T == UNION ReadableSets(db)
<1>3. /\ refs \subseteq T /\ T \in SUBSET Objects /\ T \subseteq files /\ T \subseteq db.objects
      /\ \A y \in T : db.edges[y] \subseteq T
  BY <1>0, ReadableUnion DEF Retain, ClosureVerified
<1> HIDE DEF T
<1>4. \A o \in Owners : db'.pins[o] \subseteq db.pins[o] \union T
  BY <1>1, <1>3
<1>5. \E U \in SUBSET Objects : Safe(U)'
  BY <1>0, <1>1, <1>2, <1>3, <1>4, SafeAfterPins
<1>6. EdgesAreRefs(db)'
  BY <1>1 DEF IInv, EdgesAreRefs
<1> QED BY <1>0, <1>1, <1>5, <1>6, FreeKeeps

LEMMA ReleaseKeeps ==
  ASSUME IInv, NEW owner \in Owners, Release(owner) PROVE IInv'
<1>1. /\ db' \in Tables /\ db'.objects = db.objects /\ db'.edges = db.edges
      /\ \A o \in Owners : db'.pins[o] \subseteq db.pins[o]
  BY DEF IInv, ArtifactTypeOK, Release, Tables
<1>2. EdgesAreRefs(db)' /\ \E S \in SUBSET Objects : Safe(S)'
  BY <1>1 DEF IInv, EdgesAreRefs, Safe, Release
<1> QED BY <1>1, <1>2, FreeKeeps DEF Release

-----------------------------------------------------------------------------
\* A file goes whose record the call has in its view and nothing in the view protects.
LEMMA UnlinkKeeps ==
  ASSUME IInv, NEW t \in Tables, NEW x \in t.objects, ~Protected(t, x),
         t.pins = db.pins, t.objects \subseteq db.objects, (db.objects \ t.objects) \cap files = {},
         \A y \in t.objects : t.edges[y] = db.edges[y],
         \A y \in Objects : t.edges[y] \in {{}, db.edges[y]},
         files' = files \ {x}, db' = db, session' \in DeletingCalls, session'.work = Without(t, x)
  PROVE  IInv'
<1>0. x \in Objects /\ db \in Tables /\ files \in SUBSET Objects
  BY DEF IInv, ArtifactTypeOK, Tables
<1>1. PICK S \in SUBSET Objects : Safe(S)
  BY DEF IInv
<1>2. \A y \in S : y \in t.objects
  BY <1>1 DEF Safe
<1>3. \A y \in S : x \notin db.edges[y]
  BY <1>1, <1>2 DEF Protected, Referred
<1>4. \A o \in Owners : x \notin db.pins[o]
  BY DEF Protected, Pinned
<1>5. Safe(S \ {x})'
  BY <1>1, <1>3, <1>4 DEF Safe
<1>6. /\ Without(t, x).pins = t.pins /\ Without(t, x).objects = t.objects \ {x}
      /\ Without(t, x).edges[x] = {} /\ \A y \in Objects \ {x} : Without(t, x).edges[y] = t.edges[y]
  BY <1>0, WithoutTables
<1>7. t.objects \subseteq Objects
  BY DEF Tables
<1>8. WorkFollows'
  <2>1. session'.op \notin WriteOps
    BY DEF DeletingCalls, WriteOps, DeleteOps
  <2>2. (db.objects \ session'.work.objects) \cap files' = {}
    BY <1>6
  <2>3. \A y \in session'.work.objects : session'.work.edges[y] = db.edges[y]
    BY <1>6, <1>7
  <2>4. \A y \in Objects : session'.work.edges[y] \in {{}, db.edges[y]}
    BY <1>6
  <2> QED BY <1>6, <2>1, <2>2, <2>3, <2>4 DEF WorkFollows
<1>9. ArtifactTypeOK' /\ EdgesAreRefs(db)'
  BY <1>0 DEF IInv, ArtifactTypeOK, EdgesAreRefs
<1> QED BY <1>5, <1>8, <1>9 DEF IInv

LEMMA DeleteKeeps ==
  ASSUME IInv, NEW x \in Objects, Delete(x) PROVE IInv'
<1>0. db \in Tables /\ x \in db.objects
  BY DEF IInv, ArtifactTypeOK, Delete, Verified
<1>1. session' \in DeletingCalls /\ session'.work = Without(db, x)
  BY <1>0, WithoutTables DEF Delete, Deleting, DeletingCalls, DeleteOps
<1> QED BY <1>0, <1>1, UnlinkKeeps DEF Delete

LEMMA CollectObjectKeeps ==
  ASSUME IInv, NEW x \in Objects, CollectObject(x) PROVE IInv'
<1>0. session \in DeletingCalls /\ session.op \in DeleteOps
  BY DEF CollectObject, IInv, ArtifactTypeOK, Free, WritingCalls, WriteOps, DeleteOps
<1>1. session.work \in Tables /\ x \in session.work.objects /\ ~Protected(session.work, x)
  BY <1>0 DEF DeletingCalls, CollectObject
<1>2. session' \in DeletingCalls /\ session'.work = Without(session.work, x)
  BY <1>0, <1>1, WithoutTables DEF CollectObject, DeletingCalls
<1> QED BY <1>0, <1>1, <1>2, UnlinkKeeps DEF CollectObject, IInv, WorkFollows

LEMMA CollectFileKeeps ==
  ASSUME IInv, NEW x \in Objects, CollectFile(x) PROVE IInv'
<1>0. session \in DeletingCalls /\ session.op \in DeleteOps
  BY DEF CollectFile, IInv, ArtifactTypeOK, Free, WritingCalls, WriteOps, DeleteOps
<1>1. session' \in DeletingCalls /\ session'.work = session.work /\ session'.op \in DeleteOps /\ session'.op \notin WriteOps
  BY <1>0 DEF CollectFile, DeletingCalls, DeleteOps, WriteOps
<1>2. x \in files /\ x \notin session.work.objects /\ files' = files \ {x} /\ db' = db
  BY DEF CollectFile
<1>3. x \notin db.objects
  BY <1>0, <1>2 DEF IInv, WorkFollows
<1>4. \E S \in SUBSET Objects : Safe(S)'
  BY <1>2, <1>3 DEF IInv, Safe
<1>5. WorkFollows'
  BY <1>0, <1>1, <1>2 DEF IInv, WorkFollows
<1>6. ArtifactTypeOK' /\ EdgesAreRefs(db)'
  BY <1>1, <1>2 DEF IInv, ArtifactTypeOK, EdgesAreRefs
<1> QED BY <1>4, <1>5, <1>6 DEF IInv

LEMMA CommitDeletedKeeps ==
  ASSUME IInv, CommitDeleted PROVE IInv'
<1>0. session \in DeletingCalls /\ session.op \in DeleteOps
  BY DEF CommitDeleted, IInv, ArtifactTypeOK, Free, WritingCalls, WriteOps, DeleteOps
<1>1. db' = session.work /\ db' \in Tables /\ session' = Free /\ files' = files
  BY <1>0 DEF CommitDeleted, DeletingCalls
<1>2. /\ session.work.pins = db.pins /\ (db.objects \ session.work.objects) \cap files = {}
      /\ \A x \in session.work.objects : session.work.edges[x] = db.edges[x]
      /\ \A x \in Objects : session.work.edges[x] \in {{}, db.edges[x]}
  BY <1>0 DEF IInv, WorkFollows
<1>3. EdgesAreRefs(db)'
  BY <1>1, <1>2 DEF IInv, EdgesAreRefs
<1>4. PICK S \in SUBSET Objects : Safe(S)
  BY DEF IInv
<1>5. S \subseteq session.work.objects
  BY <1>2, <1>4 DEF Safe
<1>6. Safe(S)'
  BY <1>1, <1>2, <1>4, <1>5 DEF Safe
<1> QED BY <1>1, <1>3, <1>6, FreeKeeps

LEMMA RollBackKeeps ==
  ASSUME IInv, RollBack PROVE IInv'
<1>1. EdgesAreRefs(db)' /\ \E S \in SUBSET Objects : Safe(S)'
  BY DEF IInv, EdgesAreRefs, Safe, RollBack
<1> QED BY <1>1, FreeKeeps DEF RollBack, IInv, ArtifactTypeOK

-----------------------------------------------------------------------------
LEMMA NextIInv == IInv /\ [ArtifactNext]_artifactVars => IInv'
<1> SUFFICES ASSUME IInv, [ArtifactNext]_artifactVars PROVE IInv'
  OBVIOUS
<1>1. ASSUME NEW x \in Objects, NEW owners \in SUBSET Owners, Put(x, owners) PROVE IInv'
  BY <1>1, OpenKeeps DEF Put, WriteOps
<1>2. ASSUME NEW m \in Manifests, NEW owner \in Owners, PublishSnapshot(m, owner) PROVE IInv'
  <2>1. m \in Objects /\ Members[m] \union {m} \in SUBSET Objects
    BY ArtifactAssumption
  <2> QED BY <1>2, <2>1, OpenKeeps DEF PublishSnapshot, WriteOps
<1>3. ASSUME NEW d \in Derivations, NEW owner \in Owners, Register(d, owner) PROVE IInv'
  <2>1. d \in Objects
    BY ArtifactAssumption
  <2> QED BY <1>3, <2>1, OpenKeeps DEF Register, WriteOps
<1>4. CASE Collect
  BY <1>4, OpenKeeps DEF Collect, DeleteOps
<1>5. CASE UNCHANGED artifactVars
  BY <1>5 DEF artifactVars, IInv, ArtifactTypeOK, EdgesAreRefs, WorkFollows, Safe
<1> QED
  BY <1>1, <1>2, <1>3, <1>4, <1>5, WriteFileKeeps, CommitWrittenKeeps, RetainKeeps,
     ReleaseKeeps, DeleteKeeps,
     CollectObjectKeeps, CollectFileKeeps, CommitDeletedKeeps, RollBackKeeps DEF ArtifactNext

LEMMA IInvReadable == IInv => PinnedIsReadable
<1> SUFFICES ASSUME IInv, NEW o \in Owners, NEW x \in db.pins[o]
             PROVE  /\ ClosureVerified(db, x)
                    /\ x \in Manifests /\ Members[x] # {} /\ db.edges[x] # {} => SnapshotLoads(db, x)
  BY DEF PinnedIsReadable
<1>1. PICK S \in SUBSET Objects : Safe(S)
  BY DEF IInv
<1>2. x \in S /\ x \in Objects
  BY <1>1 DEF Safe
<1>3. S \in ReadableSets(db)
  BY <1>1 DEF Safe, ReadableSets, Verified
<1>4. ClosureVerified(db, x)
  BY <1>2, <1>3 DEF ClosureVerified
<1>5. ASSUME x \in Manifests, Members[x] # {}, db.edges[x] # {} PROVE SnapshotLoads(db, x)
  <2>1. db.edges[x] = Members[x]
    BY <1>2, <1>5, ArtifactAssumption DEF IInv, EdgesAreRefs, Refs
  <2>2. Verified(db, x) /\ \A c \in Members[x] : Verified(db, c)
    BY <1>1, <1>2, <2>1 DEF Safe, Verified
  <2> QED BY <1>5, <2>1, <2>2 DEF SnapshotLoads
<1> QED BY <1>4, <1>5

\* What an owner has pinned can be read with all that is registered below it, whatever
\* call fails or dies between its files and its commit (artifacts.py:321-381).
THEOREM PinnedStaysReadable == ArtifactSpec => []PinnedIsReadable
<1>1. ArtifactInit => IInv
  BY InitIInv
<1>2. IInv /\ [ArtifactNext]_artifactVars => IInv'
  BY NextIInv
<1>3. IInv => PinnedIsReadable
  BY IInvReadable
<1> QED BY <1>1, <1>2, <1>3, PTL DEF ArtifactSpec

(***************************************************************************)
(* The artifact store: the graph of derivations.                           *)
(***************************************************************************)
\* A set of numbers up to a bound has a least one.
LEMMA LeastNat ==
  ASSUME NEW C \in Nat, NEW T, T \subseteq 0..C, T # {}
  PROVE  \E m \in T : \A i \in T : m <= i
<1>0. T \subseteq Nat
  OBVIOUS
<1>1. PICK m \in T : \A i \in T : <<i, m>> \notin OpToRel(<, Nat)
  BY <1>0, WFMin, NatLessThanWellFounded
<1>2. \A i \in T : ~(i < m)
  BY <1>0, <1>1 DEF OpToRel
<1> QED BY <1>0, <1>2

\* The rounds of Reached, as a function.
IsRounds(r, first, next, C) ==
  r = [n \in 0..C |-> IF n = 0 THEN first ELSE r[n - 1] \union next[r[n - 1]]]

\* Such a function exists, and its values are sets of objects.
LEMMA RoundsExist ==
  ASSUME NEW C \in Nat, NEW first \in SUBSET Objects, NEW next \in [SUBSET Objects -> SUBSET Objects]
  PROVE  \E r : IsRounds(r, first, next, C)
<1> DEFINE Bad == {m \in 0..C : ~\E r \in [0..m -> SUBSET Objects] :
                     r[0] = first /\ \A n \in 1..m : r[n] = r[n - 1] \union next[r[n - 1]]}
<1>1. Bad = {}
  <2> SUFFICES ASSUME Bad # {} PROVE FALSE
    OBVIOUS
  <2>0. Bad \subseteq 0..C
    OBVIOUS
  <2>1. PICK m \in Bad : \A i \in Bad : m <= i
    <3> HIDE DEF Bad
    <3> QED BY <2>0, LeastNat
  <2>2. CASE m = 0
    <3> DEFINE s == [n \in 0..0 |-> first]
    <3>1. s \in [0..m -> SUBSET Objects]
      BY <2>2
    <3>2. s[0] = first /\ \A n \in 1..m : s[n] = s[n - 1] \union next[s[n - 1]]
      BY <2>2
    <3> QED BY <3>1, <3>2
  <2>3. CASE m # 0
    <3>1. m - 1 \in 0..C /\ m - 1 \notin Bad
      <4>1. m \in 0..C
        OBVIOUS
      <4>2. m - 1 \in 0..C /\ ~(m <= m - 1)
        BY <2>3, <4>1
      <4> HIDE DEF Bad
      <4> QED BY <2>1, <4>2
    <3>2. PICK r \in [0..(m - 1) -> SUBSET Objects] :
            r[0] = first /\ \A n \in 1..(m - 1) : r[n] = r[n - 1] \union next[r[n - 1]]
      BY <3>1
    <3> DEFINE s == [n \in 0..m |-> IF n = m THEN r[m - 1] \union next[r[m - 1]] ELSE r[n]]
    <3>3. s \in [0..m -> SUBSET Objects]
      <4>1. m - 1 \in 0..(m - 1) /\ \A n \in 0..m : n # m => n \in 0..(m - 1)
        BY <2>3, <2>1
      <4>2. r[m - 1] \in SUBSET Objects
        BY <4>1
      <4>3. r[m - 1] \union next[r[m - 1]] \in SUBSET Objects
        BY <4>2
      <4> QED BY <4>1, <4>3
    <3>4. s[0] = first
      BY <2>3, <2>1, <3>2
    <3>5. \A n \in 1..m : s[n] = s[n - 1] \union next[s[n - 1]]
      BY <2>3, <2>1, <3>2
    <3> QED BY <3>3, <3>4, <3>5, <2>1
  <2> QED BY <2>2, <2>3
<1>2. PICK r \in [0..C -> SUBSET Objects] :
        r[0] = first /\ \A n \in 1..C : r[n] = r[n - 1] \union next[r[n - 1]]
  <2>1. C \in 0..C /\ C \notin Bad
    <3> HIDE DEF Bad
    <3> QED BY <1>1
  <2> QED BY <2>1
<1> QED BY <1>2 DEF IsRounds

\* All rounds are sets of objects that grow.
LEMMA RoundsAreSets ==
  ASSUME NEW C \in Nat, NEW first \in SUBSET Objects, NEW next \in [SUBSET Objects -> SUBSET Objects],
         NEW r, IsRounds(r, first, next, C)
  PROVE  /\ r[0] = first
         /\ \A n \in 0..C : r[n] \in SUBSET Objects
<1>1. r[0] = first
  <2>1. 0 \in 0..C
    OBVIOUS
  <2> QED BY <2>1 DEF IsRounds
<1>2. \A n \in 0..C : n # 0 => r[n] = r[n - 1] \union next[r[n - 1]]
  BY DEF IsRounds
<1> DEFINE Bad == {n \in 0..C : r[n] \notin SUBSET Objects}
<1>3. Bad = {}
  <2> SUFFICES ASSUME Bad # {} PROVE FALSE
    OBVIOUS
  <2>0. Bad \subseteq 0..C
    OBVIOUS
  <2>1. PICK m \in Bad : \A i \in Bad : m <= i
    <3> HIDE DEF Bad
    <3> QED BY <2>0, LeastNat
  <2>2. m # 0
    BY <1>1
  <2>3. m - 1 \in 0..C /\ m - 1 \notin Bad
    BY <2>1, <2>2
  <2>4. r[m - 1] \in SUBSET Objects
    BY <2>3
  <2>5. r[m] \in SUBSET Objects
    BY <1>2, <2>2, <2>4
  <2> QED BY <2>5
<1> QED BY <1>1, <1>2, <1>3

\* A round that adds something makes the set larger, so that the last round of all
\* objects adds nothing: what is reached is the least closed set with the first objects.
LEMMA ReachedIsLeast ==
  ASSUME NEW first \in SUBSET Objects, NEW next \in [SUBSET Objects -> SUBSET Objects]
  PROVE  LET U == Reached(first, next) IN
         /\ U \in SUBSET Objects /\ first \subseteq U /\ next[U] \subseteq U
         /\ \A T \in SUBSET Objects :
              first \subseteq T /\ (\A A \in SUBSET T : next[A] \subseteq T) => U \subseteq T
<1>1. PICK C \in Nat : C = Cardinality(Objects) /\ IsFiniteSet(Objects)
  BY FS_CardinalityType, ArtifactAssumption
<1>2. PICK r : IsRounds(r, first, next, C) /\ Reached(first, next) = r[C]
  <2> DEFINE s == CHOOSE f : IsRounds(f, first, next, C)
  <2>1. IsRounds(s, first, next, C)
    BY RoundsExist
  <2>2. Reached(first, next) = s[C]
    BY <1>1 DEF Reached, IsRounds
  <2> HIDE DEF s
  <2> QED BY <2>1, <2>2
<1>4. /\ r[0] = first
      /\ \A n \in 0..C : r[n] \in SUBSET Objects
      /\ \A n \in 0..C : n # 0 => r[n] = r[n - 1] \union next[r[n - 1]]
  <2>1. IsRounds(r, first, next, C) /\ C \in Nat
    BY <1>1, <1>2
  <2>2. r[0] = first
    BY <2>1, RoundsAreSets
  <2>3. \A n \in 0..C : r[n] \in SUBSET Objects
    BY <2>1, RoundsAreSets
  <2>4. \A n \in 0..C : n # 0 => r[n] = r[n - 1] \union next[r[n - 1]]
    BY <2>1 DEF IsRounds
  <2> QED BY <2>2, <2>3, <2>4
<1>5. ASSUME NEW T \in SUBSET Objects, first \subseteq T, \A A \in SUBSET T : next[A] \subseteq T
      PROVE  \A n \in 0..C : r[n] \subseteq T
  <2> DEFINE Bad == {n \in 0..C : ~(r[n] \subseteq T)}
  <2> SUFFICES ASSUME Bad # {} PROVE FALSE
    OBVIOUS
  <2>0. Bad \subseteq 0..C
    OBVIOUS
  <2>1. PICK m \in Bad : \A i \in Bad : m <= i
    <3> HIDE DEF Bad
    <3> QED BY <1>1, <2>0, LeastNat
  <2>2. m # 0 /\ m - 1 \in 0..C /\ m - 1 \notin Bad
    BY <1>1, <1>4, <1>5, <2>1
  <2>3. r[m - 1] \subseteq T
    BY <2>2
  <2> QED BY <1>4, <1>5, <2>2, <2>3
<1>6. first \subseteq r[C]
  <2> DEFINE Bad == {n \in 0..C : ~(first \subseteq r[n])}
  <2>1. Bad = {}
    <3> SUFFICES ASSUME Bad # {} PROVE FALSE
      OBVIOUS
    <3>0. Bad \subseteq 0..C
      OBVIOUS
    <3>1. PICK m \in Bad : \A i \in Bad : m <= i
      <4> HIDE DEF Bad
      <4> QED BY <1>1, <3>0, LeastNat
    <3>2. m # 0 /\ m - 1 \in 0..C /\ m - 1 \notin Bad
      BY <1>1, <1>4, <3>1
    <3> QED BY <1>4, <3>2
  <2> QED BY <2>1, <1>1
<1>7. next[r[C]] \subseteq r[C]
  <2> DEFINE Bad == {n \in 0..C : ~(next[r[n]] \subseteq r[n] \/ Cardinality(r[n]) >= n)}
  <2>1. Bad = {}
    <3> SUFFICES ASSUME Bad # {} PROVE FALSE
      OBVIOUS
    <3>0. Bad \subseteq 0..C
      OBVIOUS
    <3>1. PICK m \in Bad : \A i \in Bad : m <= i
      <4> HIDE DEF Bad
      <4> QED BY <1>1, <3>0, LeastNat
    <3>2. IsFiniteSet(r[m]) /\ Cardinality(r[m]) \in Nat
      BY <1>1, <1>4, <3>1, FS_Subset, FS_CardinalityType
    <3>3. m # 0 /\ m - 1 \in 0..C /\ m - 1 \notin Bad
      BY <1>1, <3>1, <3>2
    <3> DEFINE old == r[m - 1]
    <3>4. r[m] = old \union next[old] /\ old \in SUBSET Objects
      BY <1>4, <3>3
    <3>5. CASE next[old] \subseteq old
      <4>1. r[m] = old
        BY <3>4, <3>5
      <4> QED BY <3>1, <3>5, <4>1
    <3>6. CASE ~(next[old] \subseteq old)
      <4>1. Cardinality(old) >= m - 1 /\ Cardinality(old) \in Nat
        BY <3>3, <3>4, <3>6, <1>1, FS_Subset, FS_CardinalityType
      <4>2. old \in SUBSET r[m] /\ r[m] # old
        BY <3>4, <3>6
      <4>3. Cardinality(old) <= Cardinality(r[m]) /\ Cardinality(old) # Cardinality(r[m])
        BY <3>2, <4>2, FS_Subset
      <4>4. Cardinality(r[m]) >= m
        BY <3>1, <3>2, <4>1, <4>3
      <4> QED BY <3>1, <4>4
    <3> QED BY <3>5, <3>6
  <2>2. C \notin Bad /\ C \in 0..C
    BY <1>1, <2>1
  <2>3. CASE Cardinality(r[C]) >= C
    <3>1. r[C] \in SUBSET Objects
      BY <1>4, <2>2
    <3>2. Cardinality(r[C]) <= C /\ Cardinality(r[C]) \in Nat
      BY <1>1, <3>1, FS_Subset, FS_CardinalityType
    <3>3. r[C] = Objects
      BY <1>1, <3>1, <3>2, <2>3, FS_Subset
    <3> QED BY <3>3, <3>1
  <2> QED BY <2>2, <2>3
<1> QED BY <1>1, <1>2, <1>4, <1>5, <1>6, <1>7

\* No group of derivations among these feeds itself.
NoLoop(D) == \A E \in SUBSET D : E # {} => \E d \in E : \A e \in E : Output[e] \notin Inputs[d]

\* A derivation that is being registered is not derived from its own output.
Grows ==
  /\ session.op \in WriteOps => session.work.derived = db.derived
  /\ session.op \in {"put", "publish"} => session.op = "put" \/ session.target \notin Derivations
  /\ session.op = "register" =>
       /\ session.target \in Derivations
       /\ Output[session.target] \notin Inputs[session.target] \union Upstream(db, Inputs[session.target])

GraphInv ==
  /\ db.derived \subseteq Derivations /\ NoLoop(db.derived) /\ Grows
  /\ session.op \in DeleteOps => session.work.derived \subseteq db.derived

\* What is upstream of some objects is closed under derivations.
LEMMA UpstreamIsClosed ==
  ASSUME NEW t, t.derived \subseteq Derivations, NEW I \in SUBSET Objects
  PROVE  LET U == Upstream(t, I) IN
         I \subseteq U /\ \A d \in t.derived : Output[d] \in U => Inputs[d] \subseteq U
<1> DEFINE S == Sources(t)
           U == Reached(I, S)
<1>1. S \in [SUBSET Objects -> SUBSET Objects]
  BY ArtifactAssumption DEF Sources
<1>2. \A seen \in SUBSET Objects : \A d \in t.derived : Output[d] \in seen => Inputs[d] \subseteq S[seen]
  BY DEF Sources
<1> HIDE DEF S
<1>3. U \in SUBSET Objects /\ I \subseteq U /\ S[U] \subseteq U
  BY <1>1, ReachedIsLeast
<1> HIDE DEF U
<1>4. \A d \in t.derived : Output[d] \in U => Inputs[d] \subseteq U
  BY <1>2, <1>3
<1> QED BY <1>3, <1>4 DEF Upstream, U, S

\* A group that holds the new derivation and is fed by itself would have a part upstream
\* of it, which is fed by itself too.
LEMMA RegisteredWithoutLoop ==
  ASSUME NEW t, t.derived \subseteq Derivations, NoLoop(t.derived), NEW d \in Derivations,
         Output[d] \notin Inputs[d] \union Upstream(t, Inputs[d])
  PROVE  NoLoop(t.derived \union {d})
<1> DEFINE U == Upstream(t, Inputs[d])
<1>1. Inputs[d] \in SUBSET Objects
  BY ArtifactAssumption
<1>2. Inputs[d] \subseteq U /\ \A e \in t.derived : Output[e] \in U => Inputs[e] \subseteq U
  BY <1>1, UpstreamIsClosed
<1>3. Output[d] \notin U /\ Output[d] \notin Inputs[d]
  OBVIOUS
<1> HIDE DEF U
<1> SUFFICES ASSUME NEW E \in SUBSET (t.derived \union {d}), E # {}
             PROVE  \E f \in E : \A e \in E : Output[e] \notin Inputs[f]
  BY DEF NoLoop
<1>4. CASE d \notin E
  <2>1. E \in SUBSET t.derived
    BY <1>4
  <2> QED BY <2>1 DEF NoLoop
<1>5. CASE d \in E
  <2> DEFINE above == {e \in E \ {d} : Output[e] \in U}
  <2>1. CASE above = {}
    BY <1>2, <1>3, <1>5, <2>1
  <2>2. CASE above # {}
    <3>1. above \in SUBSET t.derived
      OBVIOUS
    <3>2. PICK f \in above : \A e \in above : Output[e] \notin Inputs[f]
      BY <2>2, <3>1 DEF NoLoop
    <3>3. f \in E /\ Inputs[f] \subseteq U
      BY <1>2, <3>1, <3>2
    <3>4. ASSUME NEW e \in E, Output[e] \in Inputs[f] PROVE FALSE
      BY <1>3, <3>2, <3>3, <3>4
    <3> QED BY <3>3, <3>4
  <2> QED BY <2>1, <2>2
<1> QED BY <1>4, <1>5

\* What is affected is what must be.
LEMMA AffectedIsDownstream ==
  ASSUME ArtifactTypeOK, db.derived \subseteq Derivations, NEW x \in Objects
  PROVE  Affected(db, x) = Downstream(x)
<1> DEFINE N == Dependents(db)
           U == Reached({x}, N)
           IsClosed(T) == /\ x \in T /\ \A p \in Objects : db.edges[p] \cap T # {} => p \in T
                          /\ \A d \in db.derived : Inputs[d] \cap T # {} => Output[d] \in T
<1>1. N \in [SUBSET Objects -> SUBSET Objects]
  BY ArtifactAssumption DEF Dependents
<1>2. /\ \A A \in SUBSET Objects : \A p \in Objects : db.edges[p] \cap A # {} => p \in N[A]
      /\ \A A \in SUBSET Objects : \A d \in db.derived : Inputs[d] \cap A # {} => Output[d] \in N[A]
      /\ \A A \in SUBSET Objects : \A y \in N[A] :
           (y \in Objects /\ db.edges[y] \cap A # {}) \/ \E d \in db.derived : Inputs[d] \cap A # {} /\ y = Output[d]
  BY DEF Dependents
<1> HIDE DEF N
<1>3. {x} \in SUBSET Objects
  OBVIOUS
<1>4. /\ U \in SUBSET Objects /\ {x} \subseteq U /\ N[U] \subseteq U
      /\ \A T \in SUBSET Objects : {x} \subseteq T /\ (\A A \in SUBSET T : N[A] \subseteq T) => U \subseteq T
  BY <1>1, <1>3, ReachedIsLeast
<1> HIDE DEF U
<1>5. IsClosed(U)
  BY <1>2, <1>4
<1>6. ASSUME NEW T \in SUBSET Objects, IsClosed(T) PROVE U \subseteq T
  <2>1. ASSUME NEW A \in SUBSET T PROVE N[A] \subseteq T
    <3>1. A \in SUBSET Objects
      OBVIOUS
    <3> SUFFICES ASSUME NEW y \in N[A] PROVE y \in T
      OBVIOUS
    <3>2. (y \in Objects /\ db.edges[y] \cap A # {}) \/ \E d \in db.derived : Inputs[d] \cap A # {} /\ y = Output[d]
      BY <1>2, <3>1
    <3>3. CASE y \in Objects /\ db.edges[y] \cap A # {}
      <4>1. db.edges[y] \cap T # {}
        BY <3>3
      <4> QED BY <1>6, <3>3, <4>1
    <3>4. CASE \E d \in db.derived : Inputs[d] \cap A # {} /\ y = Output[d]
      <4>1. PICK d \in db.derived : Inputs[d] \cap A # {} /\ y = Output[d]
        BY <3>4
      <4>2. Inputs[d] \cap T # {}
        BY <4>1
      <4> QED BY <1>6, <4>1, <4>2
    <3> QED BY <3>2, <3>3, <3>4
  <2> QED BY <1>4, <1>6, <2>1
<1>7. Downstream(x) = {y \in Objects : \A T \in SUBSET Objects : IsClosed(T) => y \in T}
  BY DEF Downstream
<1> HIDE DEF IsClosed
<1>8. Downstream(x) = U
  BY <1>4, <1>5, <1>6, <1>7
<1> QED BY <1>8 DEF Affected, U, N

\* With one object alone there is nothing that could be affected.
LEMMA GraphIsExact == IInv /\ GraphInv => ProvenanceIsExact
<1> SUFFICES ASSUME IInv, GraphInv, session = Free, db.objects # {} PROVE ProvenanceIsExact
  BY DEF ProvenanceIsExact
<1>1. ArtifactTypeOK /\ db.derived \subseteq Derivations
  BY DEF IInv, GraphInv
<1>2. Acyclic
  BY DEF GraphInv, NoLoop, Acyclic
<1>3. ASSUME NEW x \in Objects
      PROVE  LET impact == Impact(db, x, CHOOSE y \in Objects : y # x) IN
             /\ impact.artifacts = Downstream(x) \ {x}
             /\ impact.derivations = {d \in db.derived : Inputs[d] \cap Downstream(x) # {}}
  <2>0. PICK new : new = (CHOOSE y \in Objects : y # x)
    OBVIOUS
  <2> DEFINE impact == Impact(db, x, new)
  <2>1. Affected(db, x) = Downstream(x)
    BY <1>1, AffectedIsDownstream
  <2> DEFINE exact == /\ impact.artifacts = Downstream(x) \ {x}
                      /\ impact.derivations = {d \in db.derived : Inputs[d] \cap Downstream(x) # {}}
  <2>2. ASSUME x # new PROVE exact
    BY <2>1, <2>2 DEF Impact
  <2>3. ASSUME x = new PROVE exact
    <3>1. Objects = {x}
      BY <2>0, <2>3
    <3>2. Downstream(x) \subseteq {x}
      BY <3>1 DEF Downstream
    <3>3. ASSUME NEW d \in db.derived PROVE Inputs[d] \cap Downstream(x) = {}
      <4>1. Output[d] \notin Inputs[d]
        <5>1. {d} \in SUBSET db.derived /\ {d} # {}
          OBVIOUS
        <5> QED BY <5>1 DEF GraphInv, NoLoop
      <4>2. Output[d] = x
        BY <1>1, <3>1, ArtifactAssumption
      <4> QED BY <3>2, <4>1, <4>2
    <3>4. impact = [derivations |-> {}, artifacts |-> {}]
      BY <2>3 DEF Impact
    <3> QED BY <3>2, <3>3, <3>4
  <2>4. exact
    BY <2>2, <2>3
  <2> QED BY <2>0, <2>4
<1> QED BY <1>2, <1>3 DEF ProvenanceIsExact

-----------------------------------------------------------------------------
LEMMA GraphStart == ArtifactInit => GraphInv
BY DEF ArtifactInit, GraphInv, NoLoop, Grows, Free, WriteOps, DeleteOps

\* A call that ends without a change of the derivations.
LEMMA GraphAtRest ==
  ASSUME GraphInv, session' = Free, db'.derived \subseteq db.derived
  PROVE  GraphInv'
<1>1. /\ ~(session'.op \in WriteOps) /\ ~(session'.op \in {"put", "publish"})
      /\ session'.op # "register" /\ ~(session'.op \in DeleteOps)
  BY DEF Free, WriteOps, DeleteOps
<1>2. Grows'
  BY <1>1 DEF Grows
<1>3. NoLoop(db'.derived) /\ db'.derived \subseteq Derivations
  BY DEF GraphInv, NoLoop
<1> QED BY <1>1, <1>2, <1>3 DEF GraphInv

LEMMA GraphPutOrPublish ==
  ASSUME IInv, GraphInv, NEW op \in {"put", "publish"}, NEW x, NEW owners, NEW write,
         op = "put" \/ x \notin Derivations,
         session' = Writing(op, x, owners, write), UNCHANGED db
  PROVE  GraphInv'
<1>1. session'.op = op /\ session'.target = x /\ session'.work = db
  BY DEF Writing
<1>2. session'.op \notin DeleteOps /\ session'.op # "register"
  BY <1>1 DEF DeleteOps
<1>3. Grows'
  BY <1>1, <1>2 DEF Grows
<1> QED BY <1>2, <1>3 DEF GraphInv

LEMMA GraphRegister ==
  ASSUME IInv, GraphInv, NEW d \in Derivations, NEW owner \in Owners, Register(d, owner)
  PROVE  GraphInv'
<1>1. session'.op = "register" /\ session'.target = d /\ session'.work = db /\ db' = db
  BY DEF Register, Writing
<1>2. Output[d] \notin Inputs[d] \union Upstream(db, Inputs[d])
  BY DEF Register, Registrable
<1>3. session'.op \notin DeleteOps /\ ~(session'.op \in {"put", "publish"})
  BY <1>1 DEF DeleteOps
<1>4. Upstream(db, Inputs[d])' = Upstream(db, Inputs[d])
  BY <1>1 DEF Upstream, Sources, Reached
<1>5. Grows'
  BY <1>1, <1>2, <1>3, <1>4 DEF Grows
<1> QED BY <1>1, <1>3, <1>5 DEF GraphInv

\* A call that changes a file and its own view of the objects.
LEMMA GraphWriteFile ==
  ASSUME IInv, GraphInv, NEW x \in Objects, WriteFile(x)
  PROVE  GraphInv'
<1>1. session \in WritingCalls
  BY DEF WriteFile, IInv, ArtifactTypeOK, DeletingCalls, DeleteOps, Free
<1>2. /\ session'.op = session.op /\ session'.target = session.target
      /\ session'.work.derived = session.work.derived /\ db' = db
  BY <1>1 DEF WriteFile, WritingCalls, Tables
<1>3. Upstream(db, Inputs[session.target])' = Upstream(db, Inputs[session.target])
  BY <1>2 DEF Upstream, Sources, Reached
<1>4. Grows'
  BY <1>2, <1>3 DEF Grows, GraphInv
<1> QED BY <1>2, <1>4 DEF GraphInv

LEMMA GraphCommitWritten ==
  ASSUME IInv, GraphInv, CommitWritten
  PROVE  GraphInv'
<1> DEFINE t == IF session.op = "put" THEN session.work ELSE Linked(session.work, session.target)
<1>1. session \in WritingCalls /\ session' = Free
  BY DEF CommitWritten, Complete, IInv, ArtifactTypeOK, DeletingCalls, DeleteOps, Free
<1>2. session.work \in Tables /\ session.work.derived = db.derived
  BY <1>1 DEF WritingCalls, GraphInv, Grows
<1>3. t.derived = db.derived \/ (session.op = "register" /\ t.derived = db.derived \union {session.target})
  <2>1. CASE session.op = "put"
    BY <1>2, <2>1
  <2>2. CASE session.op # "put"
    <3>1. t.derived = db.derived \union ({session.target} \cap Derivations)
      BY <1>2, <2>2 DEF Linked, Tables
    <3>2. session.op = "publish" \/ session.op = "register"
      BY <1>1, <2>2 DEF WritingCalls, WriteOps
    <3> QED BY <3>1, <3>2 DEF GraphInv, Grows
  <2> QED BY <2>1, <2>2
<1>4. t \in Tables
  <2>1. EdgesAreRefs(session.work)
    BY <1>1 DEF WritingCalls, IInv, WorkFollows, EdgesAreRefs
  <2>2. session.target \in Objects
    BY <1>1 DEF WritingCalls
  <2> QED BY <1>2, <2>1, <2>2, LinkedTables
<1>5. db'.derived = t.derived
  BY <1>4 DEF CommitWritten, Complete, WithPins, Tables
<1> HIDE DEF t
<1>6. NoLoop(db'.derived) /\ db'.derived \subseteq Derivations
  <2>1. CASE t.derived = db.derived
    BY <1>5, <2>1 DEF GraphInv
  <2>2. CASE session.op = "register" /\ t.derived = db.derived \union {session.target}
    <3>1. /\ session.target \in Derivations /\ db.derived \subseteq Derivations /\ NoLoop(db.derived)
          /\ Output[session.target] \notin Inputs[session.target] \union Upstream(db, Inputs[session.target])
      BY <2>2 DEF GraphInv, Grows
    <3>2. NoLoop(db.derived \union {session.target})
      BY <3>1, RegisteredWithoutLoop
    <3> QED BY <1>5, <2>2, <3>1, <3>2
  <2> QED BY <1>3, <2>1, <2>2
<1>7. /\ ~(session'.op \in WriteOps) /\ ~(session'.op \in {"put", "publish"})
      /\ session'.op # "register" /\ ~(session'.op \in DeleteOps)
  BY <1>1 DEF Free, WriteOps, DeleteOps
<1> QED BY <1>6, <1>7 DEF GraphInv, Grows

\* A deleting call takes derivations out of its view.
LEMMA GraphDeleting ==
  ASSUME GraphInv, session'.op \in DeleteOps, UNCHANGED db, session'.work.derived \subseteq db.derived
  PROVE  GraphInv'
<1>1. /\ ~(session'.op \in WriteOps) /\ ~(session'.op \in {"put", "publish"}) /\ session'.op # "register"
  BY DEF WriteOps, DeleteOps
<1> QED BY <1>1 DEF GraphInv, Grows

LEMMA GraphDeletes ==
  ASSUME IInv, GraphInv, NEW x \in Objects, Delete(x) \/ CollectObject(x) \/ CollectFile(x)
  PROVE  GraphInv'
<1>1. CASE Delete(x)
  <2>1. db \in Tables
    BY DEF IInv, ArtifactTypeOK
  <2>2. session'.op = "delete" /\ session'.work = Without(db, x) /\ db' = db
    BY <1>1 DEF Delete, Deleting
  <2>3. Without(db, x).derived \subseteq db.derived
    BY <2>1 DEF Without, Tables
  <2> QED BY <2>2, <2>3, GraphDeleting DEF DeleteOps
<1>2. CASE CollectObject(x) \/ CollectFile(x)
  <2>1. session \in DeletingCalls
    BY <1>2 DEF CollectObject, CollectFile, IInv, ArtifactTypeOK, WritingCalls, WriteOps, Free
  <2>2. session'.op \in DeleteOps /\ db' = db /\ session'.work \in {session.work, Without(session.work, x)}
    BY <1>2, <2>1 DEF CollectObject, CollectFile, DeletingCalls, DeleteOps
  <2>3. Without(session.work, x).derived \subseteq session.work.derived
    BY <2>1 DEF Without, Tables, DeletingCalls
  <2>4. session.work.derived \subseteq db.derived
    BY <2>1 DEF GraphInv, DeletingCalls
  <2> QED BY <2>2, <2>3, <2>4, GraphDeleting
<1> QED BY <1>1, <1>2

LEMMA GraphSteps == IInv /\ GraphInv /\ [ArtifactNext]_artifactVars => GraphInv'
<1> SUFFICES ASSUME IInv, GraphInv, [ArtifactNext]_artifactVars PROVE GraphInv'
  OBVIOUS
<1>1. ASSUME NEW x \in Objects, NEW owners \in SUBSET Owners, Put(x, owners) PROVE GraphInv'
  BY <1>1, GraphPutOrPublish DEF Put
<1>2. ASSUME NEW m \in Manifests, NEW owner \in Owners, PublishSnapshot(m, owner) PROVE GraphInv'
  <2>1. m \notin Derivations
    BY ArtifactAssumption
  <2> QED BY <1>2, <2>1, GraphPutOrPublish DEF PublishSnapshot
<1>3. ASSUME NEW owner \in Owners, NEW refs \in SUBSET Objects, Retain(owner, refs) PROVE GraphInv'
  <2>1. db \in Tables /\ session' = Free
    BY <1>3 DEF IInv, ArtifactTypeOK, Retain
  <2>2. db'.derived = db.derived
    BY <1>3, <2>1 DEF Retain, WithPins, Tables
  <2> QED BY <2>1, <2>2, GraphAtRest
<1>4. ASSUME NEW owner \in Owners, Release(owner) PROVE GraphInv'
  <2>1. db \in Tables /\ session' = Free
    BY <1>4 DEF IInv, ArtifactTypeOK, Release
  <2>2. db'.derived = db.derived
    BY <1>4, <2>1 DEF Release, Tables
  <2> QED BY <2>1, <2>2, GraphAtRest
<1>5. CASE Collect
  <2>1. session'.op = "collect" /\ session'.work = db /\ db' = db
    BY <1>5 DEF Collect, Deleting
  <2> QED BY <2>1, GraphDeleting DEF DeleteOps
<1>6. CASE CommitDeleted
  <2>1. session' = Free /\ db'.derived \subseteq db.derived
    BY <1>6 DEF CommitDeleted, GraphInv, DeleteOps
  <2> QED BY <2>1, GraphAtRest
<1>7. CASE RollBack
  BY <1>7, GraphAtRest DEF RollBack
<1>8. CASE UNCHANGED artifactVars
  <2>1. UNCHANGED <<db, session>>
    BY <1>8 DEF artifactVars
  <2> QED BY <2>1 DEF GraphInv, NoLoop, Grows, Upstream, Sources, Reached
<1> QED BY <1>1, <1>2, <1>3, <1>4, <1>5, <1>6, <1>7, <1>8, GraphRegister, GraphWriteFile,
    GraphCommitWritten,
           GraphDeletes DEF ArtifactNext

\* A revised input affects exactly what is derived from it, and no derivation feeds
\* itself: for any objects, manifests, derivations and owners, and in whatever order
\* derivations are registered, deleted and registered again.
THEOREM ProvenanceIsExactHolds == ArtifactSpec => []ProvenanceIsExact
<1>1. ArtifactInit => IInv /\ GraphInv
  BY InitIInv, GraphStart
<1>2. IInv /\ GraphInv /\ [ArtifactNext]_artifactVars => (IInv /\ GraphInv)'
  BY NextIInv, GraphSteps
<1> QED BY <1>1, <1>2, GraphIsExact, PTL DEF ArtifactSpec

(***************************************************************************)
(* The publication of bars.                                                *)
(***************************************************************************)
CuratedSnapshots == [revision : Revisions, call : Calls]
CuratedPcs == {"staged", "checked", "published"}

CuratedTypeOK ==
  /\ snapshots \in SUBSET CuratedSnapshots
  /\ registry \in [Revisions -> CuratedSnapshots \union {NoSnapshot}]
  /\ writers \in [Writers -> {Idle} \union [pc : CuratedPcs, snap : CuratedSnapshots]]

Busy(w) == writers[w].pc # "idle"

\* A revision is staged by one writer at a time, whose lock it is.
OneStage ==
  \A w, x \in Writers : Busy(w) /\ Busy(x) /\ writers[w].snap.revision = writers[x].snap.revision => w = x

\* A writer that has compared its revision may rely on what it found until it publishes,
\* and on its snapshot until it registers it.
CheckedRevisions ==
  \A w \in Writers :
    /\ At(w, "checked") => \A s \in snapshots : s.revision = writers[w].snap.revision => s = writers[w].snap
    /\ At(w, "published") => writers[w].snap \in snapshots

\* The registry knows a revision under its own name.
RegistryNames == \A r \in Revisions : registry[r] # NoSnapshot => registry[r].revision = r

CuratedInv == CuratedTypeOK /\ OneStage /\ CheckedRevisions /\ RegistryNames /\ OneSnapshotPerRevision

\* What is known of the snapshot that a busy writer writes.
LEMMA BusyWriter ==
  ASSUME CuratedInv, NEW w \in Writers, Busy(w)
  PROVE  /\ writers[w] \in [pc : CuratedPcs, snap : CuratedSnapshots]
         /\ writers[w].snap \in CuratedSnapshots /\ writers[w].snap.revision \in Revisions
BY DEF CuratedInv, CuratedTypeOK, Busy, Idle, CuratedSnapshots

LEMMA CuratedStart == CuratedInit => CuratedInv
BY DEF CuratedInit, CuratedInv, CuratedTypeOK, OneStage, Busy, CheckedRevisions, RegistryNames,
   OneSnapshotPerRevision, At, Idle

\* A writer that returns or moves on without a change of its snapshot leaves the locks as
\* they are.
LEMMA StagesKept ==
  ASSUME CuratedInv, NEW w \in Writers, Busy(w),
         Return(w) \/ \E step \in CuratedPcs : Move(w, step)
  PROVE  OneStage' /\ writers' \in [Writers -> {Idle} \union [pc : CuratedPcs, snap : CuratedSnapshots]]
<1>1. CASE Return(w)
  BY <1>1 DEF CuratedInv, CuratedTypeOK, OneStage, Busy, Return, Idle
<1>2. ASSUME NEW step \in CuratedPcs, Move(w, step)
      PROVE  OneStage' /\ writers' \in [Writers -> {Idle} \union [pc : CuratedPcs, snap : CuratedSnapshots]]
  <2>1. writers[w] \in [pc : CuratedPcs, snap : CuratedSnapshots]
    BY BusyWriter
  <2> DEFINE r == [writers[w] EXCEPT !.pc = step]
  <2>2. r \in [pc : CuratedPcs, snap : CuratedSnapshots] /\ r.snap = writers[w].snap
    BY <2>1
  <2>3. writers' = [writers EXCEPT ![w] = r]
    BY <1>2 DEF Move
  <2> HIDE DEF r
  <2>4. \A x \in Writers : writers'[x].snap = writers[x].snap /\ (Busy(x))' = Busy(x)
    BY <2>1, <2>2, <2>3 DEF CuratedInv, CuratedTypeOK, Busy, CuratedPcs
  <2>5. OneStage'
    BY <2>4 DEF CuratedInv, OneStage
  <2> QED BY <2>2, <2>3, <2>5 DEF CuratedInv, CuratedTypeOK
<1> QED BY <1>1, <1>2

LEMMA StageKeeps ==
  ASSUME CuratedInv, NEW w \in Writers, NEW r \in Revisions, NEW c \in Calls, Stage(w, r, c)
  PROVE  CuratedInv'
<1> DEFINE snap == [revision |-> r, call |-> c]
<1>1. /\ ~Busy(w) /\ ~Locked(r) /\ UNCHANGED <<snapshots, registry>>
      /\ writers' = [writers EXCEPT ![w] = [pc |-> "staged", snap |-> snap]]
  BY DEF Stage, Busy, At
<1>2. snap \in CuratedSnapshots /\ snap.revision = r
  BY DEF CuratedSnapshots
<1> HIDE DEF snap
<1>3. CuratedTypeOK'
  BY <1>1, <1>2 DEF CuratedInv, CuratedTypeOK, CuratedPcs
<1>4. writers'[w].snap.revision = r /\ writers'[w].pc = "staged" /\ \A x \in Writers \ {w} : writers'[x] = writers[x]
  BY <1>1, <1>2 DEF CuratedInv, CuratedTypeOK
<1>5. OneStage'
  BY <1>1, <1>4 DEF CuratedInv, OneStage, Busy, Locked
<1>6. CheckedRevisions'
  BY <1>1, <1>4 DEF CuratedInv, CheckedRevisions, At
<1> QED BY <1>1, <1>3, <1>5, <1>6 DEF CuratedInv, RegistryNames, OneSnapshotPerRevision

LEMMA CheckRevisionKeeps ==
  ASSUME CuratedInv, NEW w \in Writers, CheckRevision(w)
  PROVE  CuratedInv'
<1> DEFINE snap == writers[w].snap
           held == registry[snap.revision]
<1>1. Busy(w) /\ snapshots' = snapshots
  BY DEF CheckRevision, Busy, At
<1>2. snap \in CuratedSnapshots /\ snap.revision \in Revisions
  BY <1>1, BusyWriter
<1>3. \/ Return(w) /\ registry' = registry
      \/ /\ Move(w, "checked")
         /\ \A s \in snapshots : s.revision = snap.revision => s = snap
         /\ \/ registry' = registry
            \/ snap \in snapshots /\ registry' = [registry EXCEPT ![snap.revision] = snap]
  <2>1. CASE held # NoSnapshot
    <3>1. held # snap => Return(w) /\ registry' = registry
      BY <2>1 DEF CheckRevision
    <3>2. held = snap => Move(w, "checked") /\ registry' = registry /\ snap \in snapshots
      BY <1>2, <2>1 DEF CheckRevision, CuratedInv, OneSnapshotPerRevision
    <3> QED BY <3>1, <3>2 DEF CuratedInv, OneSnapshotPerRevision
  <2>2. CASE held = NoSnapshot
    <3>1. CASE Recover(snap) = "refused"
      BY <2>2, <3>1 DEF CheckRevision
    <3>2. CASE Recover(snap) # "refused"
      <4>1. \A s \in snapshots : s.revision = snap.revision => s = snap
        BY <3>2 DEF Recover
      <4>2. Recover(snap) = "recovered" => snap \in snapshots
        BY DEF Recover
      <4> QED BY <2>2, <3>2, <4>1, <4>2 DEF CheckRevision
    <3> QED BY <3>1, <3>2
  <2> QED BY <2>1, <2>2
<1>4. Return(w) \/ \E step \in CuratedPcs : Move(w, step)
  BY <1>3 DEF CuratedPcs
<1>5. OneStage' /\ writers' \in [Writers -> {Idle} \union [pc : CuratedPcs, snap : CuratedSnapshots]]
  BY <1>1, <1>4, StagesKept
<1>6. /\ registry' \in [Revisions -> CuratedSnapshots \union {NoSnapshot}] /\ RegistryNames'
      /\ \A r \in Revisions : registry'[r] # NoSnapshot => registry'[r] \in snapshots
  BY <1>2, <1>3 DEF CuratedInv, CuratedTypeOK, RegistryNames, OneSnapshotPerRevision
<1>7. CheckedRevisions'
  <2>1. \A x \in Writers \ {w} : writers'[x] = writers[x]
    BY <1>3 DEF Return, Move, CuratedInv, CuratedTypeOK
  <2>2. \/ writers'[w].pc = "idle"
        \/ /\ writers'[w].pc = "checked" /\ writers'[w].snap = snap
           /\ \A s \in snapshots : s.revision = snap.revision => s = snap
    BY <1>1, <1>3, BusyWriter DEF Return, Move, Idle, CuratedInv, CuratedTypeOK
  <2> QED BY <1>1, <2>1, <2>2 DEF CuratedInv, CheckedRevisions, At
<1> QED BY <1>1, <1>5, <1>6, <1>7 DEF CuratedInv, CuratedTypeOK, OneSnapshotPerRevision

LEMMA PublishKeeps ==
  ASSUME CuratedInv, NEW w \in Writers, Publish(w)
  PROVE  CuratedInv'
<1> DEFINE snap == writers[w].snap
<1>1. /\ At(w, "checked") /\ Busy(w) /\ registry' = registry /\ snapshots' = snapshots \union {snap}
      /\ Return(w) \/ Move(w, "published")
  BY DEF Publish, Busy, At
<1>2. snap \in CuratedSnapshots /\ \A s \in snapshots : s.revision = snap.revision => s = snap
  BY <1>1, BusyWriter DEF CuratedInv, CheckedRevisions
<1>3. OneStage' /\ writers' \in [Writers -> {Idle} \union [pc : CuratedPcs, snap : CuratedSnapshots]]
  BY <1>1, StagesKept DEF CuratedPcs
<1>4. \A s, t \in snapshots' : s.revision = t.revision => s = t
  BY <1>1, <1>2 DEF CuratedInv, OneSnapshotPerRevision
<1>5. \A x \in Writers \ {w} : writers'[x] = writers[x]
  BY <1>1 DEF Return, Move, CuratedInv, CuratedTypeOK
<1>6. writers'[w].pc = "idle" \/ (writers'[w].pc = "published" /\ writers'[w].snap = snap)
  BY <1>1, BusyWriter DEF Return, Move, Idle, CuratedInv, CuratedTypeOK
<1>7. \A x \in Writers \ {w} : Busy(x) => writers[x].snap.revision # snap.revision
  BY <1>1 DEF CuratedInv, OneStage
<1>8. CheckedRevisions'
  <2> SUFFICES ASSUME NEW x \in Writers
               PROVE  /\ (At(x, "checked"))' => \A s \in snapshots' : s.revision = writers'[x].snap.revision => s = writers'[x].snap
                      /\ (At(x, "published"))' => writers'[x].snap \in snapshots'
    BY DEF CheckedRevisions
  <2>1. CASE x = w
    BY <1>1, <1>6, <2>1 DEF At
  <2>2. CASE x # w
    BY <1>1, <1>5, <1>7, <2>2 DEF At, Busy, CuratedInv, CheckedRevisions
  <2> QED BY <2>1, <2>2
<1> QED BY <1>1, <1>2, <1>3, <1>4, <1>8 DEF CuratedInv, CuratedTypeOK, RegistryNames,
    OneSnapshotPerRevision

LEMMA RegisterRevisionKeeps ==
  ASSUME CuratedInv, NEW w \in Writers, RegisterRevision(w)
  PROVE  CuratedInv'
<1> DEFINE snap == writers[w].snap
<1>1. /\ At(w, "published") /\ Busy(w) /\ snapshots' = snapshots /\ Return(w)
      /\ registry' \in {registry, [registry EXCEPT ![snap.revision] = snap]}
  BY DEF RegisterRevision, Busy, At
<1>2. snap \in snapshots /\ snap \in CuratedSnapshots /\ snap.revision \in Revisions
  BY <1>1, BusyWriter DEF CuratedInv, CheckedRevisions
<1>3. OneStage' /\ writers' \in [Writers -> {Idle} \union [pc : CuratedPcs, snap : CuratedSnapshots]]
  BY <1>1, StagesKept
<1>4. /\ registry' \in [Revisions -> CuratedSnapshots \union {NoSnapshot}] /\ RegistryNames'
      /\ \A r \in Revisions : registry'[r] # NoSnapshot => registry'[r] \in snapshots
  BY <1>1, <1>2 DEF CuratedInv, CuratedTypeOK, RegistryNames, OneSnapshotPerRevision
<1>5. CheckedRevisions'
  BY <1>1 DEF CuratedInv, CuratedTypeOK, CheckedRevisions, Return, At, Idle
<1> QED BY <1>1, <1>3, <1>4, <1>5 DEF CuratedInv, CuratedTypeOK, OneSnapshotPerRevision

LEMMA DieKeeps ==
  ASSUME CuratedInv, NEW w \in Writers, Die(w)
  PROVE  CuratedInv'
<1>1. Busy(w) /\ Return(w) /\ UNCHANGED <<snapshots, registry>>
  BY DEF Die, Busy, At
<1>2. OneStage' /\ writers' \in [Writers -> {Idle} \union [pc : CuratedPcs, snap : CuratedSnapshots]]
  BY <1>1, StagesKept
<1>3. CheckedRevisions'
  BY <1>1 DEF CuratedInv, CuratedTypeOK, CheckedRevisions, Return, At, Idle
<1> QED BY <1>1, <1>2, <1>3 DEF CuratedInv, CuratedTypeOK, RegistryNames, OneSnapshotPerRevision

LEMMA LoseRevisionKeeps ==
  ASSUME CuratedInv, NEW r \in Revisions, LoseRevision(r)
  PROVE  CuratedInv'
<1>1. UNCHANGED <<snapshots, writers>> /\ registry' = [registry EXCEPT ![r] = NoSnapshot]
  BY DEF LoseRevision
<1> QED BY <1>1 DEF CuratedInv, CuratedTypeOK, OneStage, Busy, CheckedRevisions, At,
    RegistryNames, OneSnapshotPerRevision

LEMMA CuratedSteps == CuratedInv /\ [CuratedNext]_curatedVars => CuratedInv'
<1> SUFFICES ASSUME CuratedInv, [CuratedNext]_curatedVars PROVE CuratedInv'
  OBVIOUS
<1>1. CASE CuratedNext
  BY <1>1, StageKeeps, CheckRevisionKeeps, PublishKeeps, RegisterRevisionKeeps, DieKeeps,
     LoseRevisionKeeps
     DEF CuratedNext, StagedCall
<1>2. CASE UNCHANGED curatedVars
  BY <1>2 DEF curatedVars, CuratedInv, CuratedTypeOK, OneStage, Busy, CheckedRevisions, At,
     RegistryNames,
              OneSnapshotPerRevision
<1> QED BY <1>1, <1>2

\* A revision names one snapshot for ever, and the registry knows only published
\* snapshots: for any writers, revisions, calls, deaths between the snapshot and its
\* registration, and lost files of the registry.
THEOREM OneSnapshotPerRevisionHolds == CuratedSpec => []OneSnapshotPerRevision
<1>1. CuratedInv => OneSnapshotPerRevision
  BY DEF CuratedInv
<1> QED BY <1>1, CuratedStart, CuratedSteps, PTL DEF CuratedSpec

(***************************************************************************)
(* The storage of a capture stream: sequences of sequences.                *)
(***************************************************************************)
\* The function by which FlattenSeq joins sequences.
IsJoin(f, s) == f = [i \in 1..Len(s) |-> IF i = 1 THEN s[i] ELSE f[i - 1] \o s[i]]

\* f joins the first m of the sequences.
Joins(f, s, m) == f[1] = s[1] /\ \A i \in 2..m : f[i] = f[i - 1] \o s[i]

LEMMA JoinExists ==
  ASSUME NEW s \in Seq(Seq(Nat)), Len(s) # 0 PROVE \E f : IsJoin(f, s)
<1>0. PICK C \in Nat : C = Len(s) /\ C # 0 /\ \A i \in 1..C : s[i] \in Seq(Nat)
  OBVIOUS
<1> DEFINE Bad == {m \in 1..C : ~\E f \in [1..m -> Seq(Nat)] : Joins(f, s, m)}
<1>1. Bad = {}
  <2> SUFFICES ASSUME Bad # {} PROVE FALSE
    OBVIOUS
  <2>0. Bad \subseteq 0..C
    OBVIOUS
  <2>1. PICK m \in Bad : \A i \in Bad : m <= i
    <3> HIDE DEF Bad
    <3> QED BY <2>0, LeastNat
  <2>2. CASE m = 1
    <3> DEFINE g == [i \in 1..1 |-> s[1]]
    <3>1. g \in [1..m -> Seq(Nat)]
      BY <1>0, <2>2
    <3>2. Joins(g, s, m)
      BY <2>2 DEF Joins
    <3> QED BY <3>1, <3>2
  <2>3. CASE m # 1
    <3>1. m - 1 \in 1..C /\ m - 1 \notin Bad
      <4>1. m \in 1..C
        OBVIOUS
      <4>2. m - 1 \in 1..C /\ ~(m <= m - 1)
        BY <2>3, <4>1
      <4> HIDE DEF Bad
      <4> QED BY <2>1, <4>2
    <3>2. PICK f \in [1..(m - 1) -> Seq(Nat)] : Joins(f, s, m - 1)
      BY <3>1
    <3>3. PICK k \in Nat : k = m - 1 /\ m = k + 1 /\ k \in 1..C /\ m \in 1..C
      <4>1. m \in 1..C
        OBVIOUS
      <4> QED BY <2>3, <4>1
    <3>4. PICK y \in Seq(Nat) : y = f[k] \o s[m]
      <4>1. k \in 1..(m - 1)
        BY <3>3
      <4>2. f[k] \in Seq(Nat) /\ s[m] \in Seq(Nat)
        BY <1>0, <3>3, <4>1
      <4>3. f[k] \o s[m] \in Seq(Nat)
        BY <4>2
      <4> QED BY <4>3
    <3> DEFINE g == [i \in 1..m |-> IF i = m THEN y ELSE f[i]]
    <3>5. g \in [1..m -> Seq(Nat)]
      BY <3>3, <3>4
    <3>6. g[1] = s[1]
      BY <3>2, <3>3 DEF Joins
    <3>7. ASSUME NEW i \in 2..m PROVE g[i] = g[i - 1] \o s[i]
      <4>1. CASE i = m
        <5>1. k \in 1..m /\ k # m /\ m \in 1..m /\ i - 1 = k
          BY <3>3, <4>1
        <5>2. g[m] = y /\ g[k] = f[k]
          BY <5>1
        <5> QED BY <3>4, <4>1, <5>1, <5>2
      <4>2. CASE i # m
        <5>1. i \in 2..(m - 1) /\ i - 1 \in 1..m /\ i - 1 # m
          BY <3>3, <4>2
        <5>2. f[i] = f[i - 1] \o s[i]
          BY <3>2, <5>1 DEF Joins
        <5>3. g[i] = f[i] /\ g[i - 1] = f[i - 1]
          BY <4>2, <5>1
        <5> QED BY <5>2, <5>3
      <4> QED BY <4>1, <4>2
    <3>8. Joins(g, s, m)
      BY <3>6, <3>7 DEF Joins
    <3> QED BY <3>5, <3>8, <2>1
  <2> QED BY <2>2, <2>3
<1>2. PICK f \in [1..C -> Seq(Nat)] : Joins(f, s, C)
  <2>1. C \in 1..C /\ C \notin Bad
    <3> HIDE DEF Bad
    <3> QED BY <1>0, <1>1
  <2> QED BY <2>1
<1>3. ASSUME NEW i \in 1..C PROVE f[i] = IF i = 1 THEN s[i] ELSE f[i - 1] \o s[i]
  <2>1. i = 1 \/ i \in 2..C
    BY <1>0
  <2> QED BY <1>2, <2>1 DEF Joins
<1>4. f = [i \in 1..C |-> IF i = 1 THEN s[i] ELSE f[i - 1] \o s[i]]
  BY <1>3
<1> QED BY <1>0, <1>4 DEF IsJoin

\* Two joins agree as far as the sequences do, and what they join are sequences.
LEMMA JoinsAgree ==
  ASSUME NEW s \in Seq(Seq(Nat)), NEW t \in Seq(Seq(Nat)), NEW f, NEW g, IsJoin(f, s), IsJoin(g, t),
         Len(s) <= Len(t), \A i \in 1..Len(s) : s[i] = t[i]
  PROVE  \A i \in 1..Len(s) : f[i] = g[i] /\ f[i] \in Seq(Nat)
<1>0. PICK C \in Nat : C = Len(s) /\ C <= Len(t) /\ Len(t) \in Nat /\ \A i \in 1..C : s[i] \in Seq(Nat)
  OBVIOUS
<1>1. ASSUME NEW i \in 1..C
      PROVE  /\ i = 1 => f[i] = s[i] /\ g[i] = s[i]
             /\ i # 1 => f[i] = f[i - 1] \o s[i] /\ g[i] = g[i - 1] \o s[i]
  <2>1. f[i] = IF i = 1 THEN s[i] ELSE f[i - 1] \o s[i]
    BY <1>0 DEF IsJoin
  <2>2. i \in 1..Len(t) /\ t[i] = s[i]
    BY <1>0
  <2>3. g[i] = IF i = 1 THEN t[i] ELSE g[i - 1] \o t[i]
    BY <2>2 DEF IsJoin
  <2> QED BY <2>1, <2>2, <2>3
<1> DEFINE Bad == {i \in 1..C : ~(f[i] = g[i] /\ f[i] \in Seq(Nat))}
<1>2. Bad = {}
  <2> SUFFICES ASSUME Bad # {} PROVE FALSE
    OBVIOUS
  <2>0. Bad \subseteq 0..C
    OBVIOUS
  <2>1. PICK m \in Bad : \A i \in Bad : m <= i
    <3> HIDE DEF Bad
    <3> QED BY <2>0, LeastNat
  <2>2. m # 1
    BY <1>0, <1>1
  <2>3. m - 1 \in 1..C /\ m - 1 \notin Bad
    <3>1. m \in 1..C
      OBVIOUS
    <3>2. m - 1 \in 1..C /\ ~(m <= m - 1)
      BY <2>2, <3>1
    <3> HIDE DEF Bad
    <3> QED BY <2>1, <3>2
  <2>4. f[m - 1] = g[m - 1] /\ f[m - 1] \in Seq(Nat) /\ s[m] \in Seq(Nat)
    BY <1>0, <2>3
  <2>5. f[m] = f[m - 1] \o s[m] /\ g[m] = g[m - 1] \o s[m]
    BY <1>1, <2>2
  <2>6. f[m] = g[m] /\ f[m] \in Seq(Nat)
    BY <2>4, <2>5
  <2> QED BY <2>6
<1> QED BY <1>0, <1>2

\* A sequence at the end is joined at the end.
LEMMA FlattenAppend ==
  ASSUME NEW s \in Seq(Seq(Nat)), NEW x \in Seq(Nat)
  PROVE  FlattenSeq(s) \in Seq(Nat) /\ FlattenSeq(Append(s, x)) = FlattenSeq(s) \o x
<1>1. PICK t : t = Append(s, x) /\ t \in Seq(Seq(Nat))
  <2>1. Append(s, x) \in Seq(Seq(Nat))
    OBVIOUS
  <2> QED BY <2>1
<1>2. PICK C \in Nat : /\ C = Len(s) /\ Len(t) = C + 1 /\ t[C + 1] = x /\ \A i \in 1..C : s[i] = t[i]
  <2>1. Len(s) \in Nat /\ Len(t) = Len(s) + 1 /\ t[Len(s) + 1] = x
    BY <1>1
  <2>2. \A i \in 1..Len(s) : s[i] = t[i]
    BY <1>1
  <2> QED BY <2>1, <2>2
<1>3. \E g : IsJoin(g, t)
  <2>1. Len(t) # 0
    BY <1>2
  <2> QED BY <1>1, <2>1, JoinExists
<1>4. PICK g : IsJoin(g, t) /\ FlattenSeq(t) = g[C + 1]
  <2> DEFINE new == CHOOSE g : IsJoin(g, t)
  <2>1. IsJoin(new, t)
    BY <1>3
  <2>2. FlattenSeq(t) = new[Len(t)]
    BY <1>2 DEF FlattenSeq, IsJoin
  <2> QED BY <1>2, <2>1, <2>2
<1>5. CASE C = 0
  <2>1. FlattenSeq(s) = s /\ s = <<>>
    <3>1. Len(s) = 0
      BY <1>2, <1>5
    <3>2. FlattenSeq(s) = s
      BY <3>1 DEF FlattenSeq
    <3> QED BY <3>1, <3>2
  <2>2. 1 \in 1..Len(t) /\ t[1] = x
    BY <1>2, <1>5
  <2>3. g[1] = x
    BY <1>4, <2>2 DEF IsJoin
  <2>4. x = <<>> \o x /\ <<>> \in Seq(Nat)
    OBVIOUS
  <2> QED BY <1>1, <1>4, <1>5, <2>1, <2>3, <2>4
<1>6. CASE C # 0
  <2>1. \E f : IsJoin(f, s)
    BY <1>2, <1>6, JoinExists
  <2>2. PICK f : IsJoin(f, s) /\ FlattenSeq(s) = f[C]
    <3> DEFINE old == CHOOSE f : IsJoin(f, s)
    <3>1. IsJoin(old, s)
      BY <2>1
    <3>2. FlattenSeq(s) = old[Len(s)]
      BY <1>2, <1>6 DEF FlattenSeq, IsJoin
    <3> QED BY <1>2, <3>1, <3>2
  <2>3. C \in 1..C
    BY <1>6
  <2>4. f[C] = g[C] /\ f[C] \in Seq(Nat)
    <3>1. Len(s) <= Len(t) /\ \A i \in 1..Len(s) : s[i] = t[i]
      BY <1>2
    <3>2. \A i \in 1..Len(s) : f[i] = g[i] /\ f[i] \in Seq(Nat)
      BY <1>1, <1>4, <2>2, <3>1, JoinsAgree
    <3> QED BY <1>2, <2>3, <3>2
  <2>5. g[C + 1] = g[C] \o x
    <3>1. C + 1 \in 1..Len(t) /\ C + 1 # 1 /\ (C + 1) - 1 = C
      BY <1>2, <1>6
    <3>2. g[C + 1] = IF C + 1 = 1 THEN t[C + 1] ELSE g[(C + 1) - 1] \o t[C + 1]
      BY <1>4, <3>1 DEF IsJoin
    <3> QED BY <1>2, <3>1, <3>2
  <2> QED BY <1>1, <1>4, <2>2, <2>4, <2>5
<1> QED BY <1>5, <1>6
(***************************************************************************)
(* The storage of a capture stream: the two chains.                        *)
(***************************************************************************)
StoredSegments == [number : Nat \ {0}, frames : Seq(Nat), previous : Nat \union {None}]

\* What the completed segments c and the frames p in memory hold.
FramesOf(c) == [n \in DOMAIN c |-> c[n].frames]
Kept(p, c) == FlattenSeq(FramesOf(c)) \o p
Holder(p, c, n) == IF n <= Len(c) THEN c[n].frames ELSE p
SegmentOf(p, c) == [number |-> Len(c) + 1, frames |-> p, previous |-> IF c = <<>> THEN None ELSE Len(c)]

\* The chain c, the files o and the frames p hold the frames r once and in order.
Consistent(p, c, o, r) ==
  /\ p \in Seq(Nat) /\ c \in Seq(StoredSegments) /\ o \in SUBSET StoredSegments
  /\ \A i \in DOMAIN Kept(p, c) : Kept(p, c)[i] = i
  /\ r = 1..Len(Kept(p, c))
  /\ \A i \in DOMAIN c : c[i] \in o /\ c[i].number = i /\ c[i].previous = (IF i = 1 THEN None ELSE i - 1)
  /\ \A f \in o : /\ f.number <= Len(c) + 1 /\ Len(f.frames) <= Len(Holder(p, c, f.number))
                  /\ \A i \in 1..Len(f.frames) : f.frames[i] = Holder(p, c, f.number)[i]

LEMMA KeptIsSeq ==
  ASSUME NEW p \in Seq(Nat), NEW c \in Seq(StoredSegments)
  PROVE  /\ FramesOf(c) \in Seq(Seq(Nat)) /\ FlattenSeq(FramesOf(c)) \in Seq(Nat) /\ Kept(p, c) \in Seq(Nat)
<1>0. Len(c) \in Nat /\ DOMAIN c = 1..Len(c) /\ \A i \in 1..Len(c) : c[i] \in StoredSegments
  OBVIOUS
<1>1. PICK n \in Nat : n = Len(c) /\ DOMAIN c = 1..n /\ \A i \in 1..n : c[i].frames \in Seq(Nat)
  BY <1>0 DEF StoredSegments
<1>2. PICK s : s = FramesOf(c) /\ s \in Seq(Seq(Nat))
  <2>1. FramesOf(c) \in [1..n -> Seq(Nat)]
    BY <1>1 DEF FramesOf
  <2>2. FramesOf(c) \in Seq(Seq(Nat))
    BY <2>1
  <2> QED BY <2>2
<1>3. <<>> \in Seq(Nat)
  OBVIOUS
<1>4. FlattenSeq(s) \in Seq(Nat)
  BY <1>2, <1>3, FlattenAppend
<1> QED BY <1>2, <1>4 DEF Kept

\* One more frame is kept in memory.
LEMMA FrameKept ==
  ASSUME NEW p, NEW c, NEW o, NEW r, Consistent(p, c, o, r), NEW f, f = Len(Kept(p, c)) + 1
  PROVE  Consistent(Append(p, f), c, o, r \union {f}) /\ f = Cardinality(r) + 1 /\ f \in Nat
<1>0. p \in Seq(Nat) /\ c \in Seq(StoredSegments) /\ o \in SUBSET StoredSegments
  BY DEF Consistent
<1>1. PICK a, k : /\ a = FlattenSeq(FramesOf(c)) /\ k = Kept(p, c) /\ a \in Seq(Nat) /\ k \in Seq(Nat)
                  /\ k = a \o p
  BY <1>0, KeptIsSeq DEF Kept
<1>2. f \in Nat /\ f = Len(k) + 1 /\ r = 1..Len(k) /\ Len(k) \in Nat /\ \A i \in DOMAIN k : k[i] = i
  BY <1>1 DEF Consistent
<1>3. PICK q : q = Append(p, f) /\ q \in Seq(Nat) /\ Kept(q, c) = Append(k, f)
  <2>1. Append(p, f) \in Seq(Nat) /\ Append(p, f) = p \o <<f>> /\ Append(a \o p, f) = (a \o p) \o <<f>>
    BY <1>0, <1>1, <1>2, AppendProperties, AppendIsConcat
  <2>2. <<f>> \in Seq(Nat)
    BY <1>2
  <2>3. (a \o p) \o <<f>> = a \o (p \o <<f>>)
    BY SMTT(20), <1>0, <1>1, <2>2, ConcatAssociative
  <2> QED BY <1>1, <2>1, <2>3 DEF Kept
<1>4. /\ \A i \in DOMAIN Kept(q, c) : Kept(q, c)[i] = i
      /\ r \union {f} = 1..Len(Kept(q, c))
  <2>1. /\ Append(k, f) \in Seq(Nat) /\ Len(Append(k, f)) = f /\ Append(k, f)[f] = f
        /\ \A i \in 1..Len(k) : Append(k, f)[i] = i
    <3>1. DOMAIN k = 1..Len(k)
      BY <1>1
    <3>2. /\ Append(k, f) \in Seq(Nat) /\ Len(Append(k, f)) = Len(k) + 1 /\ Append(k, f)[Len(k) + 1] = f
          /\ \A i \in 1..Len(k) : Append(k, f)[i] = k[i]
      BY <1>1, <1>2, AppendProperties
    <3> QED BY <1>2, <3>1, <3>2
  <2>2. DOMAIN Append(k, f) = 1..f /\ 1..f = 1..Len(k) \union {f}
    BY <1>1, <1>2, <2>1
  <2> QED BY <1>2, <1>3, <2>1, <2>2
<1>5. f = Cardinality(r) + 1
  <2>1. PICK m \in Nat : m = Len(k)
    BY <1>2
  <2>2. Cardinality(1..m) = IF 1 > m THEN 0 ELSE m - 1 + 1
    BY FS_Interval
  <2> QED BY <1>2, <2>1, <2>2
<1>6. ASSUME NEW g \in o
      PROVE  /\ Len(g.frames) <= Len(Holder(q, c, g.number))
             /\ \A i \in 1..Len(g.frames) : g.frames[i] = Holder(q, c, g.number)[i]
  <2>1. /\ g.frames \in Seq(Nat) /\ Len(g.frames) <= Len(Holder(p, c, g.number))
        /\ \A i \in 1..Len(g.frames) : g.frames[i] = Holder(p, c, g.number)[i]
    BY <1>0 DEF Consistent, StoredSegments
  <2>2. CASE g.number <= Len(c)
    BY <2>1, <2>2 DEF Holder
  <2>3. CASE ~(g.number <= Len(c))
    <3>1. Len(q) = Len(p) + 1 /\ Len(p) \in Nat /\ \A i \in 1..Len(p) : q[i] = p[i]
      BY <1>0, <1>3, <1>2
    <3>2. Holder(q, c, g.number) = q /\ Holder(p, c, g.number) = p
      BY <2>3 DEF Holder
    <3>3. Len(g.frames) \in Nat
      BY <2>1
    <3> QED BY <2>1, <3>1, <3>2, <3>3
  <2> QED BY <2>2, <2>3
<1>7. Consistent(q, c, o, r \union {f})
  BY <1>0, <1>3, <1>4, <1>6 DEF Consistent
<1> QED BY <1>2, <1>3, <1>5, <1>7

\* The frames in memory are written, but the segment does not count.
LEMMA FileLeft ==
  ASSUME NEW p, NEW c, NEW o, NEW r, Consistent(p, c, o, r)
  PROVE  Consistent(p, c, o \union {SegmentOf(p, c)}, r)
<1>0. p \in Seq(Nat) /\ c \in Seq(StoredSegments) /\ o \in SUBSET StoredSegments
  BY DEF Consistent
<1>1. PICK n \in Nat : n = Len(c) /\ Len(p) \in Nat
  BY <1>0
<1>2. PICK s : s = SegmentOf(p, c) /\ s.number = n + 1 /\ s.frames = p /\ s \in StoredSegments
  <2>1. PICK b : b = (IF c = <<>> THEN None ELSE n) /\ b \in Nat \union {None}
    OBVIOUS
  <2>2. SegmentOf(p, c) = [number |-> n + 1, frames |-> p, previous |-> b]
    BY <1>1, <2>1 DEF SegmentOf
  <2>3. SegmentOf(p, c) \in StoredSegments
    BY <1>0, <1>1, <2>1, <2>2 DEF StoredSegments
  <2> QED BY <2>1, <2>2, <2>3
<1>3. Holder(p, c, s.number) = p
  BY <1>1, <1>2 DEF Holder
<1> QED BY <1>0, <1>1, <1>2, <1>3 DEF Consistent

\* The frames in memory become the next segment of the chain.
LEMMA SegmentCompleted ==
  ASSUME NEW p, NEW c, NEW o, NEW r, Consistent(p, c, o, r)
  PROVE  /\ Consistent(<<>>, Append(c, SegmentOf(p, c)), o \union {SegmentOf(p, c)}, r)
         /\ Kept(<<>>, Append(c, SegmentOf(p, c))) = Kept(p, c)
<1>0. p \in Seq(Nat) /\ c \in Seq(StoredSegments) /\ o \in SUBSET StoredSegments
  BY DEF Consistent
<1>1. PICK n \in Nat : n = Len(c) /\ Len(p) \in Nat /\ DOMAIN c = 1..n
  BY <1>0
<1>2. PICK s : /\ s = SegmentOf(p, c) /\ s.number = n + 1 /\ s.frames = p /\ s \in StoredSegments
               /\ s.previous = IF c = <<>> THEN None ELSE n
  <2>1. PICK b : b = (IF c = <<>> THEN None ELSE n) /\ b \in Nat \union {None}
    OBVIOUS
  <2>2. SegmentOf(p, c) = [number |-> n + 1, frames |-> p, previous |-> b]
    BY <1>1, <2>1 DEF SegmentOf
  <2>3. SegmentOf(p, c) \in StoredSegments
    BY <1>0, <1>1, <2>1, <2>2 DEF StoredSegments
  <2> QED BY <2>1, <2>2, <2>3
<1>3. PICK d : /\ d = Append(c, s) /\ d \in Seq(StoredSegments) /\ Len(d) = n + 1 /\ DOMAIN d = 1..(n + 1)
               /\ d[n + 1] = s /\ \A i \in 1..n : d[i] = c[i]
  <2>1. Append(c, s) \in Seq(StoredSegments)
    BY <1>0, <1>2
  <2>2. Len(Append(c, s)) = n + 1 /\ DOMAIN Append(c, s) = 1..(n + 1) /\ Append(c, s)[n + 1] = s
    BY <1>0, <1>1
  <2>3. \A i \in 1..n : Append(c, s)[i] = c[i]
    BY <1>0, <1>1
  <2> QED BY <2>1, <2>2, <2>3
<1>4. PICK e : e = <<>> /\ e \in Seq(Nat) /\ Len(e) = 0
  <2>1. <<>> \in Seq(Nat) /\ Len(<<>>) = 0
    OBVIOUS
  <2> QED BY <2>1
<1>5. Kept(e, d) = Kept(p, c)
  <2>1. PICK a : a = FramesOf(c) /\ a \in Seq(Seq(Nat)) /\ Len(a) = n /\ FlattenSeq(a) \in Seq(Nat)
    <3>1. FramesOf(c) \in Seq(Seq(Nat)) /\ FlattenSeq(FramesOf(c)) \in Seq(Nat)
      BY <1>0, KeptIsSeq
    <3>2. DOMAIN FramesOf(c) = 1..n
      BY <1>1 DEF FramesOf
    <3> QED BY <3>1, <3>2
  <2>2. FramesOf(d) = Append(a, p)
    <3>1. FramesOf(d) = [i \in 1..(n + 1) |-> d[i].frames]
      BY <1>3 DEF FramesOf
    <3>2. \A i \in 1..n : a[i] = c[i].frames
      BY <1>1, <2>1 DEF FramesOf
    <3>3. PICK b : b = Append(a, p)
      OBVIOUS
    <3>4. b \in Seq(Seq(Nat)) /\ Len(b) = n + 1 /\ b[n + 1] = p
      BY <1>0, <2>1, <3>3
    <3>5. \A i \in 1..n : b[i] = a[i]
      BY <1>0, <2>1, <3>3
    <3>6. \A i \in 1..(n + 1) : b[i] = d[i].frames
      BY <1>2, <1>3, <3>2, <3>4, <3>5
    <3>7. b = [i \in 1..(n + 1) |-> b[i]]
      BY <3>4
    <3> QED BY <3>1, <3>3, <3>6, <3>7
  <2>3. FlattenSeq(FramesOf(d)) = FlattenSeq(a) \o p
    BY <1>0, <2>1, <2>2, FlattenAppend
  <2>4. (FlattenSeq(a) \o p) \o e = FlattenSeq(a) \o p
    BY <1>0, <1>4, <2>1
  <2> QED BY <2>1, <2>3, <2>4 DEF Kept
<1>6. ASSUME NEW i \in DOMAIN d
      PROVE  d[i] \in o \union {s} /\ d[i].number = i /\ d[i].previous = (IF i = 1 THEN None ELSE i - 1)
  <2>1. CASE i \in 1..n
    BY <1>1, <1>3, <2>1 DEF Consistent
  <2>2. CASE i = n + 1
    <3>1. c = <<>> <=> n = 0
      BY <1>0, <1>1
    <3> QED BY <1>2, <1>3, <2>2, <3>1
  <2> QED BY <1>3, <2>1, <2>2
<1>7. ASSUME NEW g \in o \union {s}
      PROVE  /\ g.number <= Len(d) + 1 /\ Len(g.frames) <= Len(Holder(e, d, g.number))
             /\ \A i \in 1..Len(g.frames) : g.frames[i] = Holder(e, d, g.number)[i]
  <2>1. Holder(e, d, n + 1) = p /\ Holder(p, c, n + 1) = p
    BY <1>1, <1>2, <1>3 DEF Holder
  <2>2. CASE g = s
    BY <1>1, <1>2, <1>3, <2>1, <2>2
  <2>3. CASE g \in o
    <3>1. /\ g.number \in Nat \ {0} /\ g.number <= n + 1 /\ Len(g.frames) <= Len(Holder(p, c, g.number))
          /\ \A i \in 1..Len(g.frames) : g.frames[i] = Holder(p, c, g.number)[i]
      BY <1>0, <1>1, <2>3 DEF Consistent, StoredSegments
    <3>2. Holder(e, d, g.number) = Holder(p, c, g.number)
      <4>1. CASE g.number = n + 1
        BY <2>1, <4>1
      <4>2. CASE g.number # n + 1
        <5>1. g.number <= n /\ g.number <= n + 1
          BY <3>1, <4>2
        <5>2. g.number \in 1..n /\ g.number <= Len(d)
          BY <1>3, <3>1, <5>1
        <5> QED BY <1>1, <1>3, <5>1, <5>2 DEF Holder
      <4> QED BY <4>1, <4>2
    <3> QED BY <1>3, <3>1, <3>2
  <2> QED BY <2>2, <2>3
<1>8. Consistent(e, d, o \union {s}, r)
  BY <1>0, <1>2, <1>3, <1>4, <1>5, <1>6, <1>7 DEF Consistent
<1> QED BY <1>2, <1>3, <1>4, <1>5, <1>8
\* A frame that waits for a rotation is the next one.
SegmentsInv ==
  /\ Consistent(pending, chain, objects, received)
  /\ pc = "rotate" => waiting = Len(Kept(pending, chain)) + 1

LEMMA SegmentsStart == Init => SegmentsInv
<1> SUFFICES ASSUME Init PROVE SegmentsInv
  OBVIOUS
<1>1. PICK e : /\ e = <<>> /\ e \in Seq(Nat) /\ e \in Seq(StoredSegments) /\ Len(e) = 0 /\ e \o e = e
               /\ DOMAIN e = {}
  <2>1. <<>> \in Seq(Nat) /\ <<>> \in Seq(StoredSegments) /\ Len(<<>>) = 0 /\ <<>> \o <<>> = <<>> /\ DOMAIN <<>> = {}
    OBVIOUS
  <2> QED BY <2>1
<1>2. FramesOf(e) = e
  BY <1>1 DEF FramesOf
<1>3. Kept(e, e) = e
  BY <1>1, <1>2 DEF Kept, FlattenSeq
<1>4. Consistent(e, e, {}, {})
  BY <1>1, <1>3 DEF Consistent
<1> QED BY <1>1, <1>4 DEF Init, SegmentsInv

LEMMA SegmentsAppend == ASSUME SegmentsInv, AppendFrame PROVE SegmentsInv'
<1> DEFINE n == Len(Kept(pending, chain)) + 1
<1>1. /\ Consistent(Append(pending, n), chain, objects, received \union {n}) /\ n = NextFrame
  BY FrameKept DEF SegmentsInv, NextFrame
<1>2. CASE pc' = "rotate" /\ waiting' = NextFrame /\ UNCHANGED <<pending, received>>
  BY <1>1, <1>2 DEF AppendFrame, SegmentsInv
<1>3. CASE Append1(NextFrame) /\ pc' # "rotate"
  BY <1>1, <1>3 DEF AppendFrame, Append1, SegmentsInv
<1>4. CASE UNCHANGED <<pc, waiting, pending, received>>
  BY <1>4 DEF AppendFrame, SegmentsInv
<1>5. \/ pc' = "rotate" /\ waiting' = NextFrame /\ UNCHANGED <<pending, received>>
      \/ Append1(NextFrame) /\ pc' # "rotate"
      \/ UNCHANGED <<pc, waiting, pending, received>>
  BY DEF AppendFrame
<1> QED BY <1>2, <1>3, <1>4, <1>5

LEMMA SegmentsFlush == ASSUME SegmentsInv, Flush PROVE SegmentsInv'
<1> DEFINE s == SegmentOf(pending, chain)
<1>0. Segment = s /\ Consistent(pending, chain, objects, received)
  BY DEF Segment, SegmentOf, SegmentsInv
<1>1. CASE AfterFlush(FALSE) /\ UNCHANGED <<objects, chain>>
  BY <1>0, <1>1 DEF AfterFlush, SegmentsInv
<1>2. CASE AfterFlush(FALSE) /\ objects' = objects \union {s} /\ UNCHANGED chain
  BY <1>0, <1>2, FileLeft DEF AfterFlush, SegmentsInv
<1>3. CASE AfterFlush(TRUE) /\ objects' = objects \union {s} /\ chain' = Append(chain, s)
  <2>1. /\ Consistent(<<>>, chain', objects', received)
        /\ Kept(<<>>, chain') = Kept(pending, chain)
    BY <1>0, <1>3, SegmentCompleted
  <2>2. CASE pc = "rotate"
    <3>1. PICK f : f = waiting /\ f = Len(Kept(<<>>, chain')) + 1
      BY <2>1, <2>2 DEF SegmentsInv
    <3>2. Consistent(Append(<<>>, f), chain', objects', received \union {f})
      BY <2>1, <3>1, FrameKept
    <3>3. Append(<<>>, f) = <<f>>
      OBVIOUS
    <3>4. pending' = <<f>> /\ received' = received \union {f} /\ pc' # "rotate"
      BY <1>3, <2>2, <3>1 DEF AfterFlush
    <3> QED BY <3>2, <3>3, <3>4 DEF SegmentsInv
  <2>3. CASE pc # "rotate"
    BY <1>3, <2>1, <2>3 DEF AfterFlush, SegmentsInv
  <2> QED BY <2>2, <2>3
<1>4. \/ AfterFlush(FALSE) /\ UNCHANGED <<objects, chain>>
      \/ AfterFlush(FALSE) /\ objects' = objects \union {s} /\ UNCHANGED chain
      \/ AfterFlush(TRUE) /\ objects' = objects \union {s} /\ chain' = Append(chain, s)
  <2>1. ASSUME NEW outcome \in Outcomes,
               objects' = IF Visible(outcome) THEN objects \union {Segment} ELSE objects,
               chain' = IF Completed(outcome) THEN Append(chain, Segment) ELSE chain,
               AfterFlush(outcome = "ok")
        PROVE  \/ AfterFlush(FALSE) /\ UNCHANGED <<objects, chain>>
               \/ AfterFlush(FALSE) /\ objects' = objects \union {s} /\ UNCHANGED chain
               \/ AfterFlush(TRUE) /\ objects' = objects \union {s} /\ chain' = Append(chain, s)
    <3>1. CASE outcome = "ok"
      BY <1>0, <2>1, <3>1 DEF Visible, Completed
    <3>2. CASE outcome # "ok"
      <4>1. (outcome = "ok") = FALSE
        BY <3>2
      <4>2. AfterFlush(FALSE)
        BY <2>1, <4>1
      <4> QED BY <1>0, <2>1, <3>2, <4>2 DEF Visible, Completed
    <3> QED BY <3>1, <3>2
  <2> QED BY <2>1 DEF Flush
<1> QED BY <1>1, <1>2, <1>3, <1>4

LEMMA SegmentsStep == ASSUME SegmentsInv, [Next]_vars PROVE SegmentsInv'
<1>1. CASE UNCHANGED Segments /\ (pc' = "rotate" => pc = "rotate")
  BY <1>1 DEF Segments, SegmentsInv
<1>2. CASE AppendFrame \/ Flush
  BY <1>2, SegmentsAppend, SegmentsFlush
<1>3. \/ AppendFrame \/ Flush
      \/ UNCHANGED Segments /\ (pc' = "rotate" => pc = "rotate")
  BY DEF Next, vars, Segments, Preflight, PreflightProbe, AuditEvent, StartArchive, CopyPart,
     Restore, Receipt,
         ThreadReserves, ThreadWrites, Swap, Quiet
<1> QED BY <1>1, <1>2, <1>3

\* What an audit file follows is an event that counts.
AuditInv ==
  /\ asked \in Nat /\ events \in Seq(Nat)
  /\ \A i \in DOMAIN events :
       [ordinal |-> i, event |-> events[i], previous |-> IF i = 1 THEN None ELSE events[i - 1]] \in audits
  /\ \A a \in audits : /\ a.event \in Nat
                       /\ a.previous = None \/ \E i \in DOMAIN events : events[i] = a.previous

LEMMA AuditStep == ASSUME AuditInv, [Next]_vars PROVE AuditInv'
<1>1. CASE UNCHANGED Audit
  BY <1>1 DEF Audit, AuditInv
<1>2. CASE AuditEvent
  <2>1. PICK n \in Nat : /\ n = Len(events) /\ DOMAIN events = 1..n /\ asked \in Nat
                         /\ \A i \in 1..n : events[i] \in Nat
    BY DEF AuditInv
  <2>2. PICK e : /\ e = [ordinal |-> n + 1, event |-> asked + 1, previous |-> Predecessor]
                 /\ e.event = asked + 1 /\ e.event \in Nat
                 /\ e.previous = None \/ \E i \in DOMAIN events : events[i] = e.previous
    <3>1. Predecessor = None \/ \E i \in DOMAIN events : events[i] = Predecessor
      <4>1. events # <<>> => n \in 1..n
        BY <2>1 DEF AuditInv
      <4> QED BY <2>1, <4>1 DEF Predecessor
    <3> DEFINE new == [ordinal |-> n + 1, event |-> asked + 1, previous |-> Predecessor]
    <3>2. new.event = asked + 1 /\ new.previous = Predecessor /\ asked + 1 \in Nat
      BY <2>1
    <3> HIDE DEF new
    <3>3. new.previous = None \/ \E i \in DOMAIN events : events[i] = new.previous
      BY <3>1, <3>2
    <3> QED BY <3>2, <3>3 DEF new
  <2>3. CASE audits' = audits \union {e} /\ UNCHANGED events
    BY <1>2, <2>1, <2>2, <2>3 DEF AuditInv, AuditEvent
  <2>4. CASE audits' = audits \union {e} /\ events' = Append(events, asked + 1)
    <3>1. /\ events' \in Seq(Nat) /\ DOMAIN events' = 1..(n + 1) /\ events'[n + 1] = asked + 1
          /\ \A i \in 1..n : events'[i] = events[i]
      BY <2>1, <2>4 DEF AuditInv
    <3>2. e = [ordinal |-> n + 1, event |-> events'[n + 1],
               previous |-> IF n + 1 = 1 THEN None ELSE events'[(n + 1) - 1]]
      <4>1. Predecessor = IF n + 1 = 1 THEN None ELSE events'[(n + 1) - 1]
        <5>1. events = <<>> <=> n = 0
          BY <2>1 DEF AuditInv
        <5> QED BY <2>1, <3>1, <5>1 DEF Predecessor
      <4> QED BY <2>2, <3>1, <4>1
    <3>3. ASSUME NEW i \in 1..n
          PROVE  [ordinal |-> i, event |-> events'[i],
                  previous |-> IF i = 1 THEN None ELSE events'[i - 1]] \in audits
      <4>1. (IF i = 1 THEN None ELSE events'[i - 1]) = (IF i = 1 THEN None ELSE events[i - 1])
        BY <2>1, <3>1
      <4>2. [ordinal |-> i, event |-> events[i], previous |-> IF i = 1 THEN None ELSE events[i - 1]] \in audits
        BY <2>1 DEF AuditInv
      <4> QED BY <3>1, <4>1, <4>2
    <3>4. ASSUME NEW i \in DOMAIN events'
          PROVE  [ordinal |-> i, event |-> events'[i],
                  previous |-> IF i = 1 THEN None ELSE events'[i - 1]] \in audits'
      <4>1. CASE i = n + 1
        BY <2>4, <3>2, <4>1
      <4>2. CASE i \in 1..n
        BY <2>4, <3>3, <4>2
      <4> QED BY <3>1, <4>1, <4>2
    <3>5. \A a \in audits' : /\ a.event \in Nat
                             /\ a.previous = None \/ \E i \in DOMAIN events' : events'[i] = a.previous
      BY <2>1, <2>2, <2>4, <3>1 DEF AuditInv
    <3>6. asked' \in Nat
      BY <1>2, <2>1 DEF AuditEvent
    <3> QED BY <3>1, <3>4, <3>5, <3>6 DEF AuditInv
  <2>5. CASE UNCHANGED <<audits, events>>
    BY <1>2, <2>1, <2>5 DEF AuditInv, AuditEvent
  <2>6. \/ audits' = audits \union {e} /\ (UNCHANGED events \/ events' = Append(events, asked + 1))
        \/ UNCHANGED <<audits, events>>
    BY <1>2, <2>1, <2>2 DEF AuditEvent, Visible
  <2> QED BY <2>3, <2>4, <2>5, <2>6
<1>3. AuditEvent \/ UNCHANGED Audit
  BY DEF Next, vars, Audit, Preflight, PreflightProbe, AppendFrame, Flush, StartArchive,
     CopyPart, Restore, Receipt,
         ThreadReserves, ThreadWrites, Swap, Quiet
<1> QED BY <1>1, <1>2, <1>3

\* A stream keeps every frame once and in order through failed writes, rotations and
\* repeated flushes, and its audit events follow one another (RawSegmentWriter,
\* DurableAuditChain).
THEOREM ChainsUnbrokenHolds == Spec => []ChainsUnbroken
<1>1. Init => SegmentsInv /\ AuditInv
  BY SegmentsStart DEF Init, AuditInv
<1>2. SegmentsInv /\ AuditInv /\ [Next]_vars => (SegmentsInv /\ AuditInv)'
  BY SegmentsStep, AuditStep
<1>3. AuditInv => AuditUnbroken
  BY StorageAssumption DEF AuditInv, AuditUnbroken
<1>4. SegmentsInv => SegmentsUnbroken
  <2> SUFFICES ASSUME SegmentsInv PROVE SegmentsUnbroken
    OBVIOUS
  <2>1. PICK k : /\ k = Kept(pending, chain) /\ k \in Seq(Nat) /\ \A i \in DOMAIN k : k[i] = i
                 /\ received = 1..Len(k)
    BY KeptIsSeq DEF SegmentsInv, Consistent
  <2>2. Len(k) = Cardinality(received)
    <3>1. PICK m \in Nat : m = Len(k)
      BY <2>1
    <3>2. Cardinality(1..m) = IF 1 > m THEN 0 ELSE m - 1 + 1
      BY FS_Interval
    <3> QED BY <2>1, <3>1, <3>2
  <2>3. ASSUME NEW o \in objects
        PROVE  o.frames = SubSeq(Holder(pending, chain, o.number), 1, Len(o.frames))
    <3>1. PICK h : h = Holder(pending, chain, o.number)
      OBVIOUS
    <3>2. /\ o \in StoredSegments /\ o.number <= Len(chain) + 1 /\ Len(o.frames) <= Len(h)
          /\ \A i \in 1..Len(o.frames) : o.frames[i] = h[i]
          /\ chain \in Seq(StoredSegments) /\ pending \in Seq(Nat)
      BY <3>1 DEF SegmentsInv, Consistent
    <3>3. o.frames \in Seq(Nat) /\ Len(o.frames) \in Nat /\ o.number \in Nat \ {0}
      BY <3>2 DEF StoredSegments
    <3>4. h \in Seq(Nat)
      <4>1. CASE o.number <= Len(chain)
        <5>1. o.number \in 1..Len(chain)
          BY <3>2, <3>3, <4>1
        <5>2. chain[o.number] \in StoredSegments
          BY <3>2, <5>1
        <5> QED BY <3>1, <4>1, <5>2 DEF StoredSegments, Holder
      <4>2. CASE ~(o.number <= Len(chain))
        BY <3>1, <3>2, <4>2 DEF Holder
      <4> QED BY <4>1, <4>2
    <3> QED BY <3>1, <3>2, <3>3, <3>4
  <2> QED BY <2>1, <2>2, <2>3 DEF SegmentsUnbroken, SegmentsInv, Consistent, Kept, FramesOf,
      Holder
<1> QED BY <1>1, <1>2, <1>3, <1>4, PTL DEF Spec, ChainsUnbroken

(***************************************************************************)
(* The storage of a capture stream: the archive.                           *)
(***************************************************************************)
Parts(n) == {<<n, "payload">>, <<n, "manifest">>}
Unstarted == {"start", "probe", "paused"}

\* Receipts are written after a preflight, and the parts are on its volume when the
\* copies were read back.
ArchiveInv ==
  /\ DOMAIN copies = Volumes
  /\ pc \notin {"start", "paused"} => verified["archive"] \in Volumes \ SharesDevice
  /\ pc \in Unstarted => receipts = {}
  /\ \A r \in receipts : Parts(r[1]) \subseteq copies[verified["archive"]]
  /\ pc = "receipt" => Parts(Source.number) \subseteq copies[verified["archive"]]
  /\ mount \in [Roots -> Volumes]

LEMMA ArchiveStep == ASSUME ArchiveInv, [Next]_vars PROVE ArchiveInv'
<1>1. CASE Preflight
  BY <1>1 DEF Preflight, ArchiveInv, Unstarted, Independent, Roots, Environment
<1>2. CASE PreflightProbe
  BY <1>2 DEF PreflightProbe, ArchiveInv, Unstarted, Environment
<1>3. CASE AppendFrame \/ Flush \/ AuditEvent \/ StartArchive \/ ThreadReserves \/ ThreadWrites
  <2>1. /\ UNCHANGED <<mount, verified, copies, receipts>> /\ (pc \in Unstarted <=> pc' \in Unstarted)
        /\ pc \in {"start", "paused"} <=> pc' \in {"start", "paused"}
        /\ pc' = "receipt" => pc = "receipt" /\ UNCHANGED <<chain, archived>>
    BY <1>3 DEF AppendFrame, Flush, AfterFlush, AuditEvent, StartArchive, ThreadReserves,
       ThreadWrites,
                Archive, Environment, Segments, Unstarted
  <2> QED BY <2>1 DEF ArchiveInv, Source
<1>4. ASSUME NEW part \in {"payload", "manifest"}, NEW next \in {"manifest", "restore"}, CopyPart(part, next)
      PROVE  ArchiveInv'
  <2>1. /\ UNCHANGED <<mount, verified, receipts>> /\ pc \notin Unstarted /\ pc' \in {"run", "manifest", "restore"}
        /\ \/ UNCHANGED copies
           \/ \E x : copies' = [copies EXCEPT ![mount["archive"]] = @ \union {x}]
    BY <1>4 DEF CopyPart, Unstarted, Environment
  <2>2. DOMAIN copies' = Volumes /\ \A v \in Volumes : copies[v] \subseteq copies'[v]
    BY <2>1 DEF ArchiveInv
  <2>3. verified["archive"] \in Volumes \ SharesDevice
    BY <2>1 DEF ArchiveInv, Unstarted
  <2> QED BY <2>1, <2>2, <2>3 DEF ArchiveInv, Unstarted
<1>5. CASE Restore
  <2>1. /\ UNCHANGED <<mount, verified, receipts, copies, archived, chain>> /\ pc = "restore"
        /\ pc' = IF ReadsBack /\ SameVolumes(Roots) THEN "receipt" ELSE "run"
    BY <1>5 DEF Restore, Archive, Environment, Segments
  <2>2. ReadsBack /\ SameVolumes(Roots) => Parts(Source.number) \subseteq copies[verified["archive"]]
    BY DEF ReadsBack, SameVolumes, Roots, Parts
  <2> QED BY <2>1, <2>2 DEF ArchiveInv, Unstarted, Source
<1>6. CASE Receipt
  <2>1. /\ UNCHANGED <<mount, verified, copies, chain>> /\ pc = "receipt" /\ pc' = "run"
        /\ receipts' = receipts \/ \E k : receipts' = receipts \union {<<Source.number, k>>}
    BY <1>6 DEF Receipt, Environment, Segments
  <2>2. \A r \in receipts' : Parts(r[1]) \subseteq copies[verified["archive"]]
    BY <2>1 DEF ArchiveInv
  <2> QED BY <2>1, <2>2 DEF ArchiveInv, Unstarted
<1>7. ASSUME NEW root \in Roots, NEW v \in Volumes, Swap(root, v) PROVE ArchiveInv'
  <2>1. UNCHANGED <<pc, verified, copies, receipts, chain, archived>> /\ mount' \in [Roots -> Volumes]
    BY <1>7 DEF Swap, Archive, Segments, ArchiveInv
  <2> QED BY <2>1 DEF ArchiveInv, Source
<1>8. CASE Quiet \/ UNCHANGED vars
  BY <1>8 DEF Quiet, vars, ArchiveInv, Source
<1> QED BY <1>1, <1>2, <1>3, <1>4, <1>5, <1>6, <1>7, <1>8 DEF Next

\* What a receipt names lies on the archive volume that the preflight accepted, however
\* the volumes are exchanged between the steps of a copy (LosslessArchiveController).
THEOREM ReceiptIsBackedHolds == Spec => []ReceiptIsBacked
<1>1. Init => ArchiveInv
  BY DEF Init, ArchiveInv, Unstarted
<1>2. ArchiveInv /\ [Next]_vars => ArchiveInv'
  BY ArchiveStep
<1>3. ArchiveInv => ReceiptIsBacked
  BY DEF ArchiveInv, ReceiptIsBacked, Parts, Unstarted
<1> QED BY <1>1, <1>2, <1>3, PTL DEF Spec
(***************************************************************************)
(* The storage of a capture stream: the floor of the hot volume.           *)
(***************************************************************************)
\* The longest of the segments o and of the frames p in memory.
Lengths(p, o) == {Len(p)} \union {Len(s.frames) : s \in o}

\* The frames of the files that are not in the chain.
FramesLeft(o, c) == UNION {{x} \X DOMAIN x.frames : x \in o \ Range(c)}

\* No segment is longer than a number, and the longest is as long as one of them.
LEMMA LongestIs ==
  ASSUME NEW p \in Seq(Nat), NEW o \in SUBSET StoredSegments, NEW C \in Nat,
         \A s \in o : Len(s.frames) <= C
  PROVE  /\ Max(Lengths(p, o)) \in Nat
         /\ Max(Lengths(p, o)) \in Lengths(p, o)
         /\ Len(p) <= Max(Lengths(p, o)) /\ \A s \in o : Len(s.frames) <= Max(Lengths(p, o))
<1>0. PICK L : L = Lengths(p, o)
  OBVIOUS
<1>1. L \subseteq Nat
  BY <1>0 DEF Lengths, StoredSegments
<1>2. PICK D \in Nat : \A x \in L : x <= D
  <2>1. Len(p) \in Nat
    OBVIOUS
  <2>2. CASE Len(p) <= C
    BY <1>0, <2>2 DEF Lengths
  <2>3. CASE ~(Len(p) <= C)
    <3>1. \A s \in o : Len(s.frames) \in Nat
      BY DEF StoredSegments
    <3>2. \A x \in L : x <= Len(p)
      BY <1>0, <2>1, <2>3, <3>1 DEF Lengths
    <3> QED BY <2>1, <3>2
  <2> QED BY <2>2, <2>3
<1> DEFINE T == {D - x : x \in L}
<1>3. PICK m \in T : \A i \in T : m <= i
  <2>1. T \subseteq 0..D
    BY <1>1, <1>2
  <2>2. T # {}
    BY <1>0 DEF Lengths
  <2> HIDE DEF T
  <2> QED BY <2>1, <2>2, LeastNat
<1>4. PICK x \in L : m = D - x
  OBVIOUS
<1>5. \A y \in L : x >= y
  <2> SUFFICES ASSUME NEW y \in L PROVE x >= y
    OBVIOUS
  <2>1. D - y \in T
    OBVIOUS
  <2>2. D - x <= D - y
    BY <1>3, <1>4, <2>1
  <2>3. x \in Nat /\ y \in Nat
    BY <1>1
  <2> QED BY <2>2, <2>3
<1>6. Max(L) \in L /\ \A y \in L : Max(L) >= y
  BY <1>5 DEF Max
<1>7. Len(p) \in L /\ \A s \in o : Len(s.frames) \in L
  BY <1>0 DEF Lengths
<1> QED BY <1>0, <1>1, <1>6, <1>7

\* The longest segment does not get shorter while each length is kept.
LEMMA LongestKept ==
  ASSUME NEW p \in Seq(Nat), NEW o \in SUBSET StoredSegments, NEW q \in Seq(Nat),
         NEW b \in SUBSET StoredSegments, NEW C \in Nat, NEW D \in Nat,
         \A s \in o : Len(s.frames) <= C, \A s \in b : Len(s.frames) <= D,
         o \subseteq b, Len(p) <= Len(q) \/ \E s \in b : s.frames = p
  PROVE  Max(Lengths(p, o)) <= Max(Lengths(q, b))
<1>1. PICK m \in Nat : m = Max(Lengths(p, o)) /\ m \in Lengths(p, o)
  BY LongestIs
<1>2. PICK n \in Nat : n = Max(Lengths(q, b)) /\ Len(q) <= n /\ \A s \in b : Len(s.frames) <= n
  BY LongestIs
<1>3. CASE m = Len(p)
  <2>1. Len(p) \in Nat /\ Len(q) \in Nat
    OBVIOUS
  <2> QED BY <1>1, <1>2, <1>3, <2>1
<1>4. CASE \E s \in o : m = Len(s.frames)
  BY <1>1, <1>2, <1>4
<1> QED BY <1>1, <1>2, <1>3, <1>4 DEF Lengths

\* A file that enters the chain leaves with its frames.
LEMMA LeftWithout ==
  ASSUME NEW c \in Seq(StoredSegments), NEW o, NEW s \in StoredSegments
  PROVE  FramesLeft(o, Append(c, s)) = FramesLeft(o \ {s}, c)
<1>1. Range(Append(c, s)) = Range(c) \union {s}
  <2>1. PICK d : d = Append(c, s)
    OBVIOUS
  <2>2. PICK n \in Nat : n = Len(c) /\ DOMAIN c = 1..n
    OBVIOUS
  <2>3. DOMAIN d = 1..(n + 1) /\ d[n + 1] = s /\ \A i \in 1..n : d[i] = c[i]
    BY <2>1, <2>2
  <2>4. n + 1 \in DOMAIN d /\ \A i \in DOMAIN d : i = n + 1 \/ i \in 1..n
    BY <2>3
  <2> QED BY <2>1, <2>2, <2>3, <2>4 DEF Range
<1> QED BY <1>1 DEF FramesLeft

\* A file beside the chain counts with its frames.
LEMMA LeftWith ==
  ASSUME NEW c, NEW o, NEW s \in StoredSegments, s \notin o, s \notin Range(c),
         IsFiniteSet(FramesLeft(o, c))
  PROVE  /\ IsFiniteSet(FramesLeft(o \union {s}, c))
         /\ Cardinality(FramesLeft(o \union {s}, c)) = Cardinality(FramesLeft(o, c)) + Len(s.frames)
<1>1. PICK n \in Nat : n = Len(s.frames) /\ DOMAIN s.frames = 1..n
  BY DEF StoredSegments
<1> DEFINE new == {s} \X (1..n)
           old == FramesLeft(o, c)
<1>2. FramesLeft(o \union {s}, c) = old \union new
  BY <1>1 DEF FramesLeft
<1>3. IsFiniteSet(new) /\ Cardinality(new) = n
  <2>1. IsFiniteSet(1..n) /\ Cardinality(1..n) = n
    BY FS_Interval
  <2>2. IsFiniteSet({s}) /\ Cardinality({s}) = 1
    BY FS_Singleton
  <2> HIDE DEF new
  <2>3. IsFiniteSet({s} \X (1..n)) /\ Cardinality({s} \X (1..n)) = Cardinality({s}) * Cardinality(1..n)
    BY <2>1, <2>2, FS_Product, Zenon
  <2>4. 1 * n = n
    OBVIOUS
  <2>5. Cardinality({s} \X (1..n)) = n
    BY <2>1, <2>2, <2>3, <2>4, Zenon
  <2> QED BY <2>3, <2>5 DEF new
<1>4. old \cap new = {}
  BY DEF FramesLeft
<1>5. Cardinality(old \cap new) = 0
  BY <1>4, FS_EmptySet, Zenon
<1>6. Cardinality(old) \in Nat
  BY FS_CardinalityType
<1> HIDE DEF new, old
<1>7. /\ IsFiniteSet(old \union new)
      /\ Cardinality(old \union new) = Cardinality(old) + Cardinality(new) - Cardinality(old \cap new)
  <2>1. IsFiniteSet(old)
    BY DEF old
  <2> QED BY <1>3, <2>1, FS_Union
<1>8. Cardinality(old \union new) = Cardinality(old) + n
  BY <1>3, <1>5, <1>6, <1>7
<1> QED BY <1>1, <1>2, <1>7, <1>8 DEF old

\* A file beside the chain that is adopted no longer counts.
LEMMA LeftAdopted ==
  ASSUME NEW c \in Seq(StoredSegments), NEW o, NEW s \in StoredSegments, s \in o, s \notin Range(c),
         IsFiniteSet(FramesLeft(o, c))
  PROVE  /\ IsFiniteSet(FramesLeft(o, Append(c, s)))
         /\ Cardinality(FramesLeft(o, c)) = Cardinality(FramesLeft(o, Append(c, s))) + Len(s.frames)
<1>1. PICK b : b = o \ {s} /\ b \union {s} = o /\ s \notin b
  <2>1. (o \ {s}) \union {s} = o /\ s \notin o \ {s}
    OBVIOUS
  <2> QED BY <2>1, Zenon
<1>2. FramesLeft(b, c) \in SUBSET FramesLeft(o, c)
  BY <1>1 DEF FramesLeft
<1>3. IsFiniteSet(FramesLeft(b, c))
  BY <1>2, FS_Subset
<1>4. Cardinality(FramesLeft(b \union {s}, c)) = Cardinality(FramesLeft(b, c)) + Len(s.frames)
  BY <1>1, <1>3, LeftWith
<1> QED BY <1>1, <1>3, <1>4, LeftWithout

\* What the guard takes the hot volume to hold, and what a probe may have forgotten of
\* what is still to be written.
Accounted == hotGuard.seen + hotGuard.unprobed
Waits == IF waiting = None THEN 0 ELSE 1

\* All that is on the hot volume or will be, with a guard that accounts for g.
Debt(g) ==
  hot + inflight + Len(pending) + Waits <=
    g + Max(Lengths(pending, objects)) + 2 + Cardinality(receipts) + Cardinality(FramesLeft(objects, chain))

Guards == [seen : Nat, unprobed : Nat, count : Nat]
GuardSound(g) == g \in Guards /\ g.seen + g.unprobed <= Room

\* The counters, and what is small enough to be counted.
Countables ==
  /\ hot \in Nat /\ inflight \in {0, 1}
  /\ IsFiniteSet(FramesLeft(objects, chain)) /\ IsFiniteSet(receipts)
  /\ \E C \in Nat : \A s \in objects : Len(s.frames) <= C
  /\ \A r \in receipts : r[2] \in Nat /\ r[2] <= Cardinality(receipts)

\* Before the capture runs, nothing waits to be written but the probe file.
Starting ==
  /\ pc \in {"start", "probe"} => inflight = 0 /\ pending = <<>>
  /\ pc = "start" => hot = 0
  /\ pc = "probe" => hot + 1 <= Accounted
  /\ waiting # None => pc = "rotate"

FloorInv == GuardSound(hotGuard) /\ Countables /\ Starting /\ Debt(Accounted)

\* The numbers of the debt.
LEMMA DebtNumbers ==
  ASSUME SegmentsInv, FloorInv
  PROVE  /\ Max(Lengths(pending, objects)) \in Nat /\ Len(pending) \in Nat
         /\ Len(pending) <= Max(Lengths(pending, objects))
         /\ Cardinality(receipts) \in Nat /\ Cardinality(FramesLeft(objects, chain)) \in Nat
         /\ hot \in Nat /\ inflight \in {0, 1} /\ Waits \in {0, 1} /\ Accounted \in Nat
         /\ hotGuard.seen \in Nat /\ hotGuard.unprobed \in Nat
         /\ pending \in Seq(Nat) /\ chain \in Seq(StoredSegments) /\ objects \in SUBSET StoredSegments
<1>1. /\ pending \in Seq(Nat) /\ chain \in Seq(StoredSegments) /\ objects \in SUBSET StoredSegments
  BY DEF SegmentsInv, Consistent
<1>2. /\ Max(Lengths(pending, objects)) \in Nat /\ Len(pending) <= Max(Lengths(pending, objects))
  BY <1>1, LongestIs DEF FloorInv, Countables
<1>3. Cardinality(receipts) \in Nat /\ Cardinality(FramesLeft(objects, chain)) \in Nat
  BY FS_CardinalityType DEF FloorInv, Countables
<1>4. hotGuard.seen \in Nat /\ hotGuard.unprobed \in Nat /\ Accounted \in Nat
  BY DEF FloorInv, GuardSound, Guards, Accounted
<1>5. Len(pending) \in Nat /\ Waits \in {0, 1}
  BY <1>1 DEF Waits
<1> QED BY <1>1, <1>2, <1>3, <1>4, <1>5 DEF FloorInv, Countables

\* A probe forgets what is in memory: the frames of a segment, one more that waits, and
\* what the thread was granted.
LEMMA DebtAfterProbe == ASSUME SegmentsInv, FloorInv PROVE Debt(hot)
<1>1. PICK h \in Nat, i \in {0, 1}, l \in Nat, w \in {0, 1}, m \in Nat, r \in Nat, f \in Nat :
        /\ h = hot /\ i = inflight /\ l = Len(pending) /\ w = Waits
        /\ m = Max(Lengths(pending, objects)) /\ r = Cardinality(receipts)
        /\ f = Cardinality(FramesLeft(objects, chain))
  BY DebtNumbers
<1>2. l <= m
  BY <1>1, DebtNumbers
<1>3. /\ h \in Nat /\ i \in Nat /\ l \in Nat /\ w \in Nat /\ m \in Nat /\ r \in Nat /\ f \in Nat
      /\ i <= 1 /\ w <= 1
  OBVIOUS
<1>4. h + i + l + w <= h + m + 2 + r + f
  BY <1>2, <1>3
<1> QED BY <1>1, <1>4 DEF Debt

\* A request is granted on the sum so far, or on that of a probe.
LEMMA GrantAccounts ==
  ASSUME SegmentsInv, FloorInv, NEW n \in Nat, GrantHot(n)
  PROVE  /\ GuardSound(hotGuard')
         /\ \E g \in {Accounted, hot} : Accounted' = g + n /\ Debt(g)
<1>1. PICK b \in Bases(hotGuard, hot) :
        b.seen <= Room /\ Fits(b.seen + b.unprobed, n, Room) /\ hotGuard' = Granted(b, n)
  BY DEF GrantHot, Grants
<1>2. /\ b = hotGuard \/ b = [seen |-> hot, unprobed |-> 0, count |-> 0]
      /\ b.seen + b.unprobed + n <= Room
  BY <1>1 DEF Bases, Fits
<1>3. b \in Guards /\ b.seen + b.unprobed \in {Accounted, hot}
  <2>1. hot \in Nat /\ hotGuard \in Guards
    BY DEF FloorInv, Countables, GuardSound
  <2> QED BY <1>2, <2>1 DEF Accounted, Guards
<1>4. hotGuard' \in Guards /\ hotGuard'.seen = b.seen /\ hotGuard'.unprobed = b.unprobed + n
  <2>1. hotGuard' = [b EXCEPT !.unprobed = b.unprobed + n, !.count = b.count + 1]
    BY <1>1, <1>3 DEF Granted, Guards
  <2>2. b.unprobed + n \in Nat /\ b.count + 1 \in Nat
    BY <1>3 DEF Guards
  <2> QED BY <1>3, <2>1, <2>2 DEF Guards
<1>5. Accounted' = (b.seen + b.unprobed) + n
  BY <1>3, <1>4 DEF Accounted, Guards
<1>6. Debt(Accounted) /\ Debt(hot)
  BY DebtAfterProbe DEF FloorInv
<1> QED BY <1>2, <1>3, <1>4, <1>5, <1>6 DEF GuardSound, Guards

\* A refused request leaves the guard as it was, or with what a probe found.
LEMMA RefusalAccounts ==
  ASSUME SegmentsInv, FloorInv, NEW n \in Nat, RefuseHot(n)
  PROVE  GuardSound(hotGuard') /\ \E g \in {Accounted, hot} : Accounted' = g /\ Debt(g)
<1>1. hotGuard' = hotGuard \/ (hotGuard' = [seen |-> hot, unprobed |-> 0, count |-> 0] /\ hot <= Room)
  <2>1. PICK b \in Bases(hotGuard, hot) : hotGuard' = IF b.seen > Room THEN hotGuard ELSE b
    BY DEF RefuseHot, Refusals
  <2>2. b = hotGuard \/ b = [seen |-> hot, unprobed |-> 0, count |-> 0]
    BY DEF Bases
  <2>3. hot \in Nat /\ Room \in Nat
    BY StorageAssumption DEF FloorInv, Countables
  <2> QED BY <2>1, <2>2, <2>3
<1>2. Debt(Accounted) /\ Debt(hot) /\ hot \in Nat /\ GuardSound(hotGuard)
  BY DebtAfterProbe DEF FloorInv, Countables
<1>3. CASE hotGuard' = hotGuard
  BY <1>2, <1>3 DEF Accounted
<1>4. CASE hotGuard' = [seen |-> hot, unprobed |-> 0, count |-> 0] /\ hot <= Room
  <2>1. hotGuard'.seen = hot /\ hotGuard'.unprobed = 0
    BY <1>4
  <2> QED BY <1>2, <1>4, <2>1 DEF GuardSound, Guards, Accounted
<1> QED BY <1>1, <1>3, <1>4

\* A step that pays n units and makes at most n more to be written keeps the debt.
LEMMA Balance ==
  ASSUME NEW h \in Nat, NEW i \in Nat, NEW l \in Nat, NEW w \in Nat, NEW g \in Nat, NEW n \in Nat,
         NEW m \in Nat, NEW r \in Nat, NEW f \in Nat,
         NEW H \in Nat, NEW I \in Nat, NEW L \in Nat, NEW W \in Nat, NEW M \in Nat, NEW R \in Nat, NEW F \in Nat,
         h + i + l + w <= g + m + 2 + r + f,
         H + I + L + W + m + r + f <= h + i + l + w + M + R + F + n
  PROVE  H + I + L + W <= (g + n) + M + 2 + R + F
OBVIOUS

LEMMA DebtPaid ==
  ASSUME SegmentsInv, FloorInv, NEW n \in Nat, NEW g \in {Accounted, hot}, Debt(g),
         Accounted' = g + n,
         NEW H \in Nat, NEW I \in Nat, NEW L \in Nat, NEW W \in Nat, NEW M \in Nat, NEW R \in Nat, NEW F \in Nat,
         hot' = H, inflight' = I, Len(pending') = L, Waits' = W,
         Max(Lengths(pending', objects')) = M, Cardinality(receipts') = R,
         Cardinality(FramesLeft(objects', chain')) = F,
         H + I + L + W + Max(Lengths(pending, objects)) + Cardinality(receipts)
             + Cardinality(FramesLeft(objects, chain))
           <= hot + inflight + Len(pending) + Waits + M + R + F + n
  PROVE  Debt(Accounted)'
<1>0. hot \in Nat /\ Accounted \in Nat /\ inflight \in {0, 1} /\ Waits \in {0, 1}
  BY DebtNumbers
<1>1. g \in Nat /\ inflight \in Nat /\ Waits \in Nat
  BY <1>0
<1>2. PICK h \in Nat, i \in Nat, l \in Nat, w \in Nat, m \in Nat, r \in Nat, f \in Nat :
        /\ h = hot /\ i = inflight /\ l = Len(pending) /\ w = Waits
        /\ m = Max(Lengths(pending, objects)) /\ r = Cardinality(receipts)
        /\ f = Cardinality(FramesLeft(objects, chain))
  BY <1>1, DebtNumbers
<1>3. h + i + l + w <= g + m + 2 + r + f
  BY <1>2 DEF Debt
<1>a. H + I + L + W + m + r + f <= h + i + l + w + M + R + F + n
  BY <1>2
<1>4. H + I + L + W <= (g + n) + M + 2 + R + F
  BY <1>1, <1>3, <1>a, Balance
<1> QED BY <1>4 DEF Debt

\* The same when segments, receipts and the frames in memory stay as they are.
LEMMA DebtPaidForOther ==
  ASSUME SegmentsInv, FloorInv, NEW n \in Nat, NEW g \in {Accounted, hot}, Debt(g), Accounted' = g + n,
         UNCHANGED <<pending, waiting, objects, chain, receipts>>,
         NEW H \in Nat, NEW I \in Nat, hot' = H, inflight' = I, H + I <= hot + inflight + n
  PROVE  Debt(Accounted)'
<1>1. inflight \in Nat /\ Waits \in Nat
  <2>1. inflight \in {0, 1} /\ Waits \in {0, 1}
    BY ONLY SegmentsInv, FloorInv, DebtNumbers
  <2> QED BY ONLY <2>1
<1>2. PICK l \in Nat, w \in Nat, m \in Nat, r \in Nat, f \in Nat :
        /\ l = Len(pending) /\ w = Waits
        /\ m = Max(Lengths(pending, objects)) /\ r = Cardinality(receipts)
        /\ f = Cardinality(FramesLeft(objects, chain))
  BY <1>1, DebtNumbers
<1>3. /\ l = Len(pending') /\ w = Waits'
      /\ m = Max(Lengths(pending', objects')) /\ r = Cardinality(receipts')
      /\ f = Cardinality(FramesLeft(objects', chain'))
  BY <1>2 DEF Waits
<1>4. hot \in Nat
  BY DebtNumbers
<1>5. H + I + l + w + m + r + f <= hot + inflight + l + w + m + r + f + n
  BY <1>1, <1>4
<1> QED BY <1>2, <1>3, <1>5, DebtPaid

\* The numbers after a step, and the longest segment, which stays at least as long.
LEMMA NumbersAfter ==
  ASSUME SegmentsInv, FloorInv, SegmentsInv', Countables', objects \subseteq objects',
         Len(pending) <= Len(pending') \/ \E s \in objects' : s.frames = pending
  PROVE  /\ Max(Lengths(pending', objects')) \in Nat /\ Len(pending') \in Nat
         /\ Max(Lengths(pending, objects)) <= Max(Lengths(pending', objects'))
         /\ Cardinality(receipts') \in Nat /\ Cardinality(FramesLeft(objects', chain')) \in Nat
         /\ Waits' \in {0, 1}
<1>1. /\ pending \in Seq(Nat) /\ objects \in SUBSET StoredSegments
      /\ pending' \in Seq(Nat) /\ objects' \in SUBSET StoredSegments
  BY DEF SegmentsInv, Consistent
<1>2. PICK C \in Nat : \A s \in objects : Len(s.frames) <= C
  BY DEF FloorInv, Countables
<1>3. PICK D \in Nat : \A s \in objects' : Len(s.frames) <= D
  BY DEF Countables
<1>4. Max(Lengths(pending', objects')) \in Nat
  BY <1>1, <1>3, LongestIs
<1>5. Max(Lengths(pending, objects)) <= Max(Lengths(pending', objects'))
  BY <1>1, <1>2, <1>3, LongestKept
<1>6. Cardinality(receipts') \in Nat /\ Cardinality(FramesLeft(objects', chain')) \in Nat
  <2>1. IsFiniteSet(receipts') /\ IsFiniteSet(FramesLeft(objects', chain'))
    BY DEF Countables
  <2> QED BY <2>1, FS_CardinalityType
<1>7. Len(pending') \in Nat /\ Waits' \in {0, 1}
  BY <1>1 DEF Waits
<1> QED BY <1>4, <1>5, <1>6, <1>7

\* A step after which the units on disk and to be written exceed those before it by no
\* more than what was paid, what is now left beside the chain and what the receipts add.
LEMMA DebtMoves ==
  ASSUME SegmentsInv, FloorInv, SegmentsInv', Countables', objects \subseteq objects',
         Len(pending) <= Len(pending') \/ \E s \in objects' : s.frames = pending,
         NEW n \in Nat, NEW g \in {Accounted, hot}, Debt(g), Accounted' = g + n,
         NEW x \in Nat, NEW X \in Nat, NEW y \in Nat, NEW Y \in Nat,
         x = hot + inflight + Len(pending) + Waits, X = hot' + inflight' + Len(pending') + Waits',
         y = Cardinality(receipts) + Cardinality(FramesLeft(objects, chain)),
         Y = Cardinality(receipts') + Cardinality(FramesLeft(objects', chain')),
         X + y <= x + Y + n
  PROVE  Debt(Accounted)'
<1>1. PICK h \in Nat, i \in Nat, l \in Nat, w \in Nat, m \in Nat, r \in Nat, f \in Nat :
        /\ h = hot /\ i = inflight /\ l = Len(pending) /\ w = Waits
        /\ m = Max(Lengths(pending, objects)) /\ r = Cardinality(receipts)
        /\ f = Cardinality(FramesLeft(objects, chain))
  <2>1. inflight \in {0, 1} /\ Waits \in {0, 1}
    BY DebtNumbers
  <2> QED BY <2>1, DebtNumbers
<1>2. hot' \in Nat /\ inflight' \in {0, 1}
  BY DEF Countables
<1>3. PICK H \in Nat, I \in Nat, L \in Nat, W \in Nat, M \in Nat, R \in Nat, F \in Nat :
        /\ H = hot' /\ I = inflight' /\ L = Len(pending') /\ W = Waits'
        /\ M = Max(Lengths(pending', objects')) /\ R = Cardinality(receipts')
        /\ F = Cardinality(FramesLeft(objects', chain')) /\ m <= M
  BY <1>1, <1>2, NumbersAfter
<1>4. x = h + i + l + w /\ X = H + I + L + W /\ y = r + f /\ Y = R + F
  BY <1>1, <1>3
<1>5. H + I + L + W + m + r + f <= h + i + l + w + M + R + F + n
  <2>1. h \in Nat /\ i \in Nat /\ l \in Nat /\ w \in Nat /\ m \in Nat /\ r \in Nat /\ f \in Nat
    BY <1>1
  <2>2. H \in Nat /\ I \in Nat /\ L \in Nat /\ W \in Nat /\ M \in Nat /\ R \in Nat /\ F \in Nat /\ m <= M
    BY <1>3
  <2> QED BY <1>4, <2>1, <2>2
<1>6. H + I + L + W + Max(Lengths(pending, objects)) + Cardinality(receipts)
             + Cardinality(FramesLeft(objects, chain))
           <= hot + inflight + Len(pending) + Waits + M + R + F + n
  BY <1>1, <1>5
<1> QED BY <1>3, <1>6, DebtPaid

LEMMA FloorAppend ==
  ASSUME SegmentsInv, FloorInv, SegmentsInv', AppendFrame PROVE FloorInv'
<1>1. /\ pc = "run" /\ waiting = None /\ Waits = 0 /\ pending \in Seq(Nat)
      /\ UNCHANGED <<hot, inflight, objects, chain, receipts>>
  BY DEF AppendFrame, FloorInv, Starting, Waits, Archive, Environment, SegmentsInv, Consistent
<1>2. Countables'
  BY <1>1 DEF FloorInv, Countables
<1>3. /\ pc' \in {"run", "rotate", "full"} /\ (waiting' # None => pc' = "rotate")
  BY <1>1 DEF AppendFrame, Append1
<1>4. Starting'
  BY <1>3 DEF Starting
<1>5. \/ GrantHot(1) /\ UNCHANGED pending
      \/ GrantHot(1) /\ pending' = Append(pending, NextFrame) /\ waiting' = None
      \/ RefuseHot(1) /\ UNCHANGED <<pending, waiting>>
  BY DEF AppendFrame, Append1
<1>6. PICK n \in {0, 1}, g \in {Accounted, hot} :
        /\ GuardSound(hotGuard') /\ Accounted' = g + n /\ Debt(g)
        /\ n = 1 => UNCHANGED pending \/ (pending' = Append(pending, NextFrame) /\ waiting' = None)
        /\ n = 0 => UNCHANGED <<pending, waiting>>
  <2>1. CASE RefuseHot(1) /\ UNCHANGED <<pending, waiting>>
    <3>1. PICK g \in {Accounted, hot} : GuardSound(hotGuard') /\ Accounted' = g /\ Debt(g)
      BY <2>1, RefusalAccounts
    <3>2. Accounted' = g + 0
      <4>1. hot \in Nat /\ Accounted \in Nat
        BY DebtNumbers
      <4> QED BY <3>1, <4>1
    <3> QED BY <2>1, <3>1, <3>2
  <2>2. CASE GrantHot(1) /\ (UNCHANGED pending \/ (pending' = Append(pending, NextFrame) /\ waiting' = None))
    <3>1. PICK g \in {Accounted, hot} : GuardSound(hotGuard') /\ Accounted' = g + 1 /\ Debt(g)
      BY <2>2, GrantAccounts
    <3> QED BY <2>2, <3>1
  <2> QED BY <1>5, <2>1, <2>2
<1>7. Len(pending) \in Nat /\ Len(pending') \in Nat /\ Waits' \in {0, 1}
      /\ Len(pending) <= Len(pending') /\ Len(pending') + Waits' <= Len(pending) + n
  <2>1. CASE UNCHANGED pending /\ n = 1
    BY <1>1, <2>1 DEF Waits
  <2>2. CASE pending' = Append(pending, NextFrame) /\ waiting' = None /\ n = 1
    <3>1. Len(pending') = Len(pending) + 1 /\ Len(pending) \in Nat
      BY <1>1, <2>2
    <3> QED BY <2>2, <3>1 DEF Waits
  <2>3. CASE UNCHANGED <<pending, waiting>> /\ n = 0
    BY <1>1, <2>3 DEF Waits
  <2> QED BY <1>6, <2>1, <2>2, <2>3
<1>8. Debt(Accounted)'
  <2>1. PICK y \in Nat :
          /\ y = Cardinality(receipts) + Cardinality(FramesLeft(objects, chain))
          /\ y = Cardinality(receipts') + Cardinality(FramesLeft(objects', chain'))
    BY <1>1, DebtNumbers
  <2>2. PICK h \in Nat, i \in Nat, l \in Nat, L \in Nat, W \in Nat :
          /\ h = hot /\ i = inflight /\ l = Len(pending) /\ L = Len(pending') /\ W = Waits'
          /\ h = hot' /\ i = inflight' /\ L + W <= l + n
    <3>1. inflight \in {0, 1}
      BY DebtNumbers
    <3> QED BY <1>1, <1>7, <3>1, DebtNumbers
  <2>3. PICK x \in Nat, X \in Nat : x = h + i + l + 0 /\ X = h + i + L + W
    OBVIOUS
  <2>4. X + y <= x + y + n
    <3>1. n \in Nat /\ y \in Nat
      BY <1>6, <2>1
    <3>2. h \in Nat /\ i \in Nat /\ l \in Nat /\ L \in Nat /\ W \in Nat /\ L + W <= l + n
      BY <2>2
    <3>3. (h + i + L + W) + y <= (h + i + l + 0) + y + n
      BY <3>1, <3>2
    <3> QED BY <2>3, <3>3
  <2>5. x = hot + inflight + Len(pending) + Waits /\ X = hot' + inflight' + Len(pending') + Waits'
    BY <1>1, <2>2, <2>3
  <2> QED BY <1>1, <1>2, <1>6, <1>7, <2>1, <2>4, <2>5, DebtMoves
<1> QED BY <1>2, <1>4, <1>6, <1>8 DEF FloorInv

\* A step that moves neither frames nor files nor receipts.
LEMMA FloorOther ==
  ASSUME SegmentsInv, FloorInv, SegmentsInv', NEW n \in Nat, NEW g \in {Accounted, hot}, Debt(g),
         Accounted' = g + n, GuardSound(hotGuard'),
         UNCHANGED <<pending, waiting, objects, chain, receipts>>,
         hot' \in Nat, inflight' \in {0, 1}, hot' + inflight' <= hot + inflight + n,
         pc \notin {"start", "probe", "rotate"}, pc' \notin {"start", "probe"}
  PROVE  FloorInv'
<1>1. Countables'
  BY DEF FloorInv, Countables
<1>2. Starting'
  BY DEF FloorInv, Starting
<1>3. inflight' \in Nat
  OBVIOUS
<1>4. Debt(Accounted)'
  BY <1>3, DebtPaidForOther
<1> QED BY <1>1, <1>2, <1>4 DEF FloorInv

LEMMA FloorAudit == ASSUME SegmentsInv, FloorInv, SegmentsInv', AuditEvent PROVE FloorInv'
<1>1. /\ pc = "run" /\ pc' = "run" /\ inflight' = inflight
      /\ UNCHANGED <<pending, waiting, objects, chain, receipts>>
      /\ hot \in Nat /\ inflight \in {0, 1} /\ Accounted \in Nat
  BY DebtNumbers DEF AuditEvent, Segments, Archive, Environment
<1>2. CASE GrantHot(2) /\ hot' \in {hot, hot + 1}
  <2>1. PICK g \in {Accounted, hot} : GuardSound(hotGuard') /\ Accounted' = g + 2 /\ Debt(g)
    BY <1>2, GrantAccounts
  <2>2. hot' \in Nat /\ inflight' \in {0, 1} /\ hot' + inflight' <= hot + inflight + 2
    <3>1. hot' = hot \/ hot' = hot + 1
      BY <1>2
    <3>2. CASE hot' = hot
      BY <1>1, <3>2
    <3>3. CASE hot' = hot + 1
      BY <1>1, <3>3
    <3> QED BY <3>1, <3>2, <3>3
  <2> QED BY <1>1, <2>1, <2>2, FloorOther
<1>3. CASE RefuseHot(2) /\ hot' = hot
  <2>1. PICK g \in {Accounted, hot} : GuardSound(hotGuard') /\ Accounted' = g /\ Debt(g)
    BY <1>3, RefusalAccounts
  <2>2. hot' \in Nat /\ inflight' \in {0, 1} /\ hot' + inflight' <= hot + inflight + 0
    BY <1>1, <1>3
  <2>3. Accounted' = g + 0
    BY <1>1, <2>1
  <2> QED BY <1>1, <2>1, <2>2, <2>3, FloorOther
<1> QED BY <1>2, <1>3 DEF AuditEvent

LEMMA FloorThread == ASSUME SegmentsInv, FloorInv, SegmentsInv', ThreadReserves PROVE FloorInv'
<1>1. /\ UNCHANGED <<pending, waiting, objects, chain, receipts, pc, hot>>
      /\ inflight = 0 /\ inflight' = 1 /\ pc \notin {"start", "probe"}
      /\ hot \in Nat /\ inflight \in {0, 1} /\ Accounted \in Nat /\ GrantHot(1)
  BY DebtNumbers DEF ThreadReserves, Segments, Archive
<1>2. PICK g \in {Accounted, hot} : GuardSound(hotGuard') /\ Accounted' = g + 1 /\ Debt(g)
  BY <1>1, GrantAccounts
<1>3. inflight' \in Nat /\ hot' \in Nat /\ hot' + inflight' <= hot + inflight + 1
  BY <1>1
<1>4. Debt(Accounted)'
  BY <1>1, <1>2, <1>3, DebtPaidForOther
<1>5. Countables' /\ Starting'
  BY <1>1 DEF FloorInv, Countables, Starting
<1> QED BY <1>2, <1>4, <1>5 DEF FloorInv

\* A step that leaves the guard alone.
LEMMA FloorUnpaid ==
  ASSUME SegmentsInv, FloorInv, SegmentsInv',
         UNCHANGED <<hotGuard, pending, waiting, objects, chain, receipts>>,
         hot' \in Nat, inflight' \in {0, 1}, hot' + inflight' <= hot + inflight, Starting'
  PROVE  FloorInv'
<1>1. Accounted \in Nat /\ hot \in Nat /\ inflight \in {0, 1}
  BY DebtNumbers
<1>2. Accounted' = Accounted /\ Accounted' = Accounted + 0
  BY <1>1 DEF Accounted
<1>3. inflight' \in Nat /\ hot' + inflight' <= hot + inflight + 0 /\ Debt(Accounted)
  <2>1. inflight \in Nat /\ inflight' \in Nat
    BY <1>1
  <2>2. PICK h \in Nat, i \in Nat, H \in Nat, I \in Nat : h = hot /\ i = inflight /\ H = hot' /\ I = inflight'
    BY <1>1, <2>1
  <2>3. H + I <= h + i
    BY <2>2
  <2>4. H + I <= h + i + 0
    BY <2>3
  <2> QED BY <2>1, <2>2, <2>4 DEF FloorInv
<1>4. Debt(Accounted)'
  BY <1>2, <1>3, DebtPaidForOther
<1>5. Countables' /\ GuardSound(hotGuard')
  BY DEF FloorInv, Countables
<1> QED BY <1>4, <1>5 DEF FloorInv

LEMMA FloorReceipt == ASSUME SegmentsInv, FloorInv, SegmentsInv', Receipt PROVE FloorInv'
<1>1. /\ UNCHANGED <<hotGuard, pending, waiting, objects, chain, inflight>>
      /\ pc = "receipt" /\ pc' = "run"
      /\ hot \in Nat /\ inflight \in {0, 1} /\ Accounted \in Nat
  BY DebtNumbers DEF Receipt, Segments, Environment
<1>2. PICK k \in Nat : k = Cardinality(receipts)
  BY DebtNumbers
<1>3. CASE UNCHANGED <<receipts, hot>>
  <2>1. Starting'
    BY <1>1 DEF FloorInv, Starting
  <2>2. hot' \in Nat /\ inflight' \in {0, 1} /\ hot' + inflight' <= hot + inflight
    BY <1>1, <1>3
  <2> QED BY <1>1, <1>3, <2>1, <2>2, FloorUnpaid
<1>4. CASE receipts' = receipts \union {<<Source.number, k + 1>>} /\ hot' = hot + 1
  <2> DEFINE t == <<Source.number, k + 1>>
  <2>1. t[2] = k + 1 /\ \A r \in receipts : r[2] \in Nat /\ r[2] <= k
    BY <1>2 DEF FloorInv, Countables
  <2>2. t \notin receipts
    BY <2>1
  <2> HIDE DEF t
  <2>3. IsFiniteSet(receipts') /\ Cardinality(receipts') = k + 1
    BY <1>2, <1>4, <2>2, FS_AddElement DEF FloorInv, Countables, t
  <2>4. \A r \in receipts' : r[2] \in Nat /\ r[2] <= k + 1
    BY <1>4, <2>1 DEF t
  <2>5. Countables'
    <3>1. hot' \in Nat /\ inflight' \in {0, 1} /\ IsFiniteSet(receipts')
      BY <1>1, <1>4, <2>3
    <3>2. /\ IsFiniteSet(FramesLeft(objects, chain))'
          /\ (\E C \in Nat : \A s \in objects : Len(s.frames) <= C)'
      BY <1>1 DEF FloorInv, Countables
    <3>3. \A r \in receipts' : r[2] \in Nat /\ r[2] <= Cardinality(receipts')
      BY <2>3, <2>4
    <3> QED BY <3>1, <3>2, <3>3 DEF Countables
  <2>6. Starting'
    BY <1>1 DEF FloorInv, Starting
  <2>7. PICK l \in Nat, w \in Nat, m \in Nat, f \in Nat, h \in Nat, i \in Nat :
          /\ l = Len(pending) /\ w = Waits /\ m = Max(Lengths(pending, objects))
          /\ f = Cardinality(FramesLeft(objects, chain)) /\ h = hot /\ i = inflight
    <3>1. inflight \in {0, 1} /\ Waits \in {0, 1}
      BY DebtNumbers
    <3> QED BY <3>1, DebtNumbers
  <2>8. /\ l = Len(pending') /\ w = Waits' /\ m = Max(Lengths(pending', objects'))
        /\ f = Cardinality(FramesLeft(objects', chain')) /\ h + 1 = hot' /\ i = inflight'
    BY <1>1, <1>4, <2>7 DEF Waits
  <2>9. PICK a \in Nat : a = Accounted /\ a = Accounted'
    BY <1>1 DEF Accounted
  <2>10. h + i + l + w <= a + m + 2 + k + f
    BY <1>2, <2>7, <2>9 DEF FloorInv, Debt
  <2>11. (h + 1) + i + l + w <= a + m + 2 + (k + 1) + f
    <3>1. /\ h \in Nat /\ i \in Nat /\ l \in Nat /\ w \in Nat /\ a \in Nat /\ m \in Nat /\ k \in Nat
          /\ f \in Nat
      BY <1>2, <2>7, <2>9
    <3> QED BY <2>10, <3>1
  <2>12. Debt(Accounted)'
    BY <2>3, <2>8, <2>9, <2>11 DEF Debt
  <2>13. GuardSound(hotGuard')
    BY <1>1 DEF FloorInv
  <2> QED BY <2>5, <2>6, <2>12, <2>13 DEF FloorInv
<1> QED BY <1>2, <1>3, <1>4 DEF Receipt

\* The segment of a flush is not in the chain.
LEMMA SegmentIsNew ==
  ASSUME SegmentsInv
  PROVE  /\ Segment \in StoredSegments /\ Segment.frames = pending /\ Segment \notin Range(chain)
<1>1. /\ pending \in Seq(Nat) /\ chain \in Seq(StoredSegments)
      /\ \A i \in DOMAIN chain : chain[i].number = i
  BY DEF SegmentsInv, Consistent
<1>2. PICK n \in Nat : n = Len(chain) /\ DOMAIN chain = 1..n
  BY <1>1
<1>3. PICK b : b = (IF chain = <<>> THEN None ELSE n) /\ b \in Nat \union {None}
  OBVIOUS
<1>4. Segment = [number |-> n + 1, frames |-> pending, previous |-> b]
  BY <1>2, <1>3 DEF Segment
<1>5. Segment \in StoredSegments
  BY <1>1, <1>3, <1>4 DEF StoredSegments
<1>6. Segment.number = n + 1
  BY <1>4
<1>7. Segment \notin Range(chain)
  <2>1. \A i \in 1..n : i # n + 1
    OBVIOUS
  <2> QED BY <1>1, <1>2, <1>6, <2>1 DEF Range
<1> QED BY <1>4, <1>5, <1>7

\* What a flush does to the debt, in numbers.
LEMMA FlushMoves ==
  ASSUME SegmentsInv, FloorInv, SegmentsInv', NEW n \in {0, 1}, NEW g \in {Accounted, hot}, Debt(g),
         Accounted' = g + n, GuardSound(hotGuard'), UNCHANGED <<inflight, receipts>>,
         waiting' = None, pc' \in {"run", "full"}, hot' \in Nat,
         objects \subseteq objects', objects' \subseteq objects \union {Segment},
         IsFiniteSet(FramesLeft(objects', chain')),
         Len(pending) <= Len(pending') \/ Segment \in objects',
         hot' + Len(pending') + Cardinality(FramesLeft(objects, chain))
           <= hot + Len(pending) + Waits + Cardinality(FramesLeft(objects', chain')) + n
  PROVE  FloorInv'
<1>1. Starting'
  BY DEF Starting
<1>2. Countables'
  <2>1. PICK M \in Nat : Len(pending) <= M /\ \A s \in objects : Len(s.frames) <= M
    <3>1. Max(Lengths(pending, objects)) \in Nat
      BY DebtNumbers
    <3>2. PICK C \in Nat : \A s \in objects : Len(s.frames) <= C
      BY DEF FloorInv, Countables
    <3>3. Len(pending) <= Max(Lengths(pending, objects))
          /\ \A s \in objects : Len(s.frames) <= Max(Lengths(pending, objects))
      BY <3>2, DebtNumbers, LongestIs
    <3> QED BY <3>1, <3>3
  <2>2. \A s \in objects' : Len(s.frames) <= M
    BY <2>1, SegmentIsNew
  <2>3. hot' \in Nat /\ inflight' \in {0, 1} /\ IsFiniteSet(receipts')
        /\ \A r \in receipts' : r[2] \in Nat /\ r[2] <= Cardinality(receipts')
    BY DEF FloorInv, Countables
  <2> QED BY <2>1, <2>2, <2>3 DEF Countables
<1>3. PICK i \in Nat, w \in Nat, r \in Nat :
        i = inflight /\ i = inflight' /\ w = Waits /\ r = Cardinality(receipts) /\ r = Cardinality(receipts')
  <2>1. inflight \in {0, 1} /\ Waits \in {0, 1} /\ Cardinality(receipts) \in Nat
    BY DebtNumbers
  <2> QED BY <2>1
<1>4. Waits' = 0
  BY DEF Waits
<1>5. PICK h \in Nat, H \in Nat, l \in Nat, L \in Nat, f \in Nat, F \in Nat :
         /\ h = hot /\ H = hot' /\ l = Len(pending) /\ L = Len(pending')
         /\ f = Cardinality(FramesLeft(objects, chain)) /\ F = Cardinality(FramesLeft(objects', chain'))
         /\ H + L + f <= h + l + w + F + n
  <2>1. Len(pending') \in Nat
    BY DEF SegmentsInv, Consistent
  <2>2. Cardinality(FramesLeft(objects', chain')) \in Nat
    BY FS_CardinalityType
  <2> QED BY <1>3, <2>1, <2>2, DebtNumbers
<1>6. n \in Nat
  OBVIOUS
<1>7. PICK x \in Nat, X \in Nat, y \in Nat, Y \in Nat :
        /\ x = h + i + l + w /\ X = H + i + L + 0 /\ y = r + f /\ Y = r + F
        /\ X + y <= x + Y + n
  <2>1. /\ h \in Nat /\ H \in Nat /\ l \in Nat /\ L \in Nat /\ f \in Nat /\ F \in Nat
        /\ i \in Nat /\ w \in Nat /\ r \in Nat /\ n \in Nat
    BY <1>3, <1>5, <1>6
  <2>2. H + L + f <= h + l + w + F + n
    BY <1>5
  <2>3. PICK k \in Nat, p \in Nat, q \in Nat : k = i + r /\ p = H + L + f /\ q = h + l + w + F + n
    BY <2>1
  <2>4. p + k <= q + k
    BY <2>2, <2>3
  <2>5. (H + i + L + 0) + (r + f) = p + k
    BY <2>1, <2>3
  <2>6. (h + i + l + w) + (r + F) + n = q + k
    BY <2>1, <2>3
  <2>7. h + i + l + w \in Nat /\ H + i + L + 0 \in Nat /\ r + f \in Nat /\ r + F \in Nat
    BY <2>1
  <2>8. (H + i + L + 0) + (r + f) <= (h + i + l + w) + (r + F) + n
    BY <2>4, <2>5, <2>6
  <2> QED BY <2>7, <2>8
<1>8. /\ x = hot + inflight + Len(pending) + Waits /\ X = hot' + inflight' + Len(pending') + Waits'
      /\ y = Cardinality(receipts) + Cardinality(FramesLeft(objects, chain))
      /\ Y = Cardinality(receipts') + Cardinality(FramesLeft(objects', chain'))
  BY <1>3, <1>4, <1>5, <1>7
<1>9. Len(pending) <= Len(pending') \/ \E s \in objects' : s.frames = pending
  BY SegmentIsNew
<1>10. Debt(Accounted)'
  BY <1>2, <1>6, <1>7, <1>8, <1>9, DebtMoves
<1> QED BY <1>1, <1>2, <1>10 DEF FloorInv

\* A flush that was refused or failed: its file may lie beside the chain.
LEMMA FlushFails ==
  ASSUME SegmentsInv, FloorInv, SegmentsInv', NEW n \in {0, 1}, NEW g \in {Accounted, hot}, Debt(g),
         Accounted' = g + n, GuardSound(hotGuard'), UNCHANGED <<inflight, receipts, chain, pending>>,
         waiting' = None, pc' \in {"run", "full"},
         \/ UNCHANGED <<objects, hot>>
         \/ objects' = objects \union {Segment} /\ n = 1
            /\ hot' = IF Segment \notin objects THEN hot + Len(pending) + 1 ELSE hot
  PROVE  FloorInv'
<1>1. PICK h \in Nat, l \in Nat, f \in Nat, w \in Nat :
        h = hot /\ l = Len(pending) /\ f = Cardinality(FramesLeft(objects, chain)) /\ w = Waits
  <2>1. Waits \in {0, 1}
    BY DebtNumbers
  <2> QED BY <2>1, DebtNumbers
<1>2. IsFiniteSet(FramesLeft(objects, chain))
  BY DEF FloorInv, Countables
<1>3. n \in Nat /\ l = Len(pending')
  BY <1>1
<1>4. CASE UNCHANGED <<objects, hot>>
  <2>1. h + l + f <= h + l + w + f + n
    BY <1>1, <1>3
  <2>2. hot' + Len(pending') + Cardinality(FramesLeft(objects, chain))
          <= hot + Len(pending) + Waits + Cardinality(FramesLeft(objects', chain')) + n
    BY <1>1, <1>4, <2>1
  <2>3. hot' \in Nat /\ IsFiniteSet(FramesLeft(objects', chain'))
    BY <1>1, <1>2, <1>4
  <2>4. Len(pending) <= Len(pending')
    BY <1>1, <1>3
  <2> QED BY <1>4, <2>2, <2>3, <2>4, FlushMoves
<1>5. CASE objects' = objects \union {Segment} /\ n = 1 /\ Segment \notin objects /\ hot' = hot + Len(pending) + 1
  <2>1. /\ IsFiniteSet(FramesLeft(objects', chain'))
        /\ Cardinality(FramesLeft(objects', chain')) = f + l
    BY <1>1, <1>2, <1>5, SegmentIsNew, LeftWith
  <2>2. PICK H \in Nat, F \in Nat : H = h + l + 1 /\ F = f + l
    OBVIOUS
  <2>3. H + l + f <= h + l + w + F + n
    <3>1. (h + l + 1) + l + f <= h + l + w + (f + l) + 1
      BY <1>1
    <3> QED BY <1>5, <2>2, <3>1
  <2>4. H = hot' /\ F = Cardinality(FramesLeft(objects', chain'))
    BY <1>1, <1>5, <2>1, <2>2
  <2>5. hot' + Len(pending') + Cardinality(FramesLeft(objects, chain))
          <= hot + Len(pending) + Waits + Cardinality(FramesLeft(objects', chain')) + n
    BY <1>1, <1>3, <2>3, <2>4
  <2>6. hot' \in Nat /\ Segment \in objects'
    BY <1>5, <2>4
  <2> QED BY <1>5, <2>1, <2>5, <2>6, FlushMoves
<1> QED BY <1>4, <1>5

\* A flush that completes its segment.
LEMMA FlushCompletes ==
  ASSUME SegmentsInv, FloorInv, SegmentsInv', NEW g \in {Accounted, hot}, Debt(g),
         Accounted' = g + 1, GuardSound(hotGuard'), UNCHANGED <<inflight, receipts>>,
         waiting' = None, pc' \in {"run", "full"}, Len(pending') <= Waits,
         objects' = objects \union {Segment}, chain' = Append(chain, Segment),
         hot' = IF Segment \notin objects THEN hot + Len(pending) + 1 ELSE hot
  PROVE  FloorInv'
<1>1. PICK h \in Nat, l \in Nat, f \in Nat, w \in Nat :
        h = hot /\ l = Len(pending) /\ f = Cardinality(FramesLeft(objects, chain)) /\ w = Waits
  <2>1. Waits \in {0, 1}
    BY DebtNumbers
  <2> QED BY <2>1, DebtNumbers
<1>2. IsFiniteSet(FramesLeft(objects, chain)) /\ chain \in Seq(StoredSegments)
  BY DebtNumbers DEF FloorInv, Countables
<1>3. PICK L \in Nat : L = Len(pending') /\ L <= w
  <2>1. pending' \in Seq(Nat)
    BY DEF SegmentsInv, Consistent
  <2> QED BY <1>1, <2>1
<1>4. CASE Segment \notin objects
  <2>1. FramesLeft(objects', chain') = FramesLeft(objects, chain)
    <3>1. FramesLeft(objects', chain') = FramesLeft((objects \union {Segment}) \ {Segment}, chain)
      BY <1>2, SegmentIsNew, LeftWithout
    <3>2. (objects \union {Segment}) \ {Segment} = objects
      BY <1>4
    <3> QED BY <3>1, <3>2
  <2>2. PICK H \in Nat : H = h + l + 1 /\ H = hot'
    <3>1. h + l + 1 \in Nat
      OBVIOUS
    <3> QED BY <1>1, <1>4, <3>1
  <2>3. H + L + f <= h + l + w + f + 1
    <3>1. (h + l + 1) + L + f <= h + l + w + f + 1
      BY <1>3
    <3> QED BY <2>2, <3>1
  <2>4. hot' + Len(pending') + Cardinality(FramesLeft(objects, chain))
          <= hot + Len(pending) + Waits + Cardinality(FramesLeft(objects', chain')) + 1
    BY <1>1, <1>3, <2>1, <2>2, <2>3
  <2>5. hot' \in Nat /\ Segment \in objects' /\ IsFiniteSet(FramesLeft(objects', chain'))
    BY <1>2, <2>1, <2>2
  <2> QED BY <2>4, <2>5, FlushMoves
<1>5. CASE Segment \in objects
  <2>1. objects' = objects /\ hot' = h
    BY <1>1, <1>5
  <2>2. /\ IsFiniteSet(FramesLeft(objects', chain'))
        /\ f = Cardinality(FramesLeft(objects', chain')) + l
    BY <1>1, <1>2, <1>5, <2>1, SegmentIsNew, LeftAdopted
  <2>3. PICK F \in Nat : F = Cardinality(FramesLeft(objects', chain')) /\ f = F + l
    BY <2>2, FS_CardinalityType
  <2>4. h + L + f <= h + l + w + F + 1
    <3>1. h + L + (F + l) <= h + l + w + F + 1
      BY <1>3
    <3> QED BY <2>3, <3>1
  <2>5. hot' + Len(pending') + Cardinality(FramesLeft(objects, chain))
          <= hot + Len(pending) + Waits + Cardinality(FramesLeft(objects', chain')) + 1
    BY <1>1, <1>3, <2>1, <2>3, <2>4
  <2>6. hot' \in Nat /\ Segment \in objects'
    BY <1>1, <1>5, <2>1
  <2> QED BY <2>2, <2>5, <2>6, FlushMoves
<1> QED BY <1>4, <1>5

LEMMA FloorFlush == ASSUME SegmentsInv, FloorInv, SegmentsInv', Flush PROVE FloorInv'
<1>1. UNCHANGED <<inflight, receipts>> /\ waiting' = None /\ pc' \in {"run", "full"}
  BY DEF Flush, AfterFlush, Archive, Environment
<1>2. CASE AfterFlush(FALSE) /\ UNCHANGED <<hot, objects, chain>> /\ (RefuseHot(1) \/ GrantHot(1))
  <2>1. UNCHANGED pending
    BY <1>2 DEF AfterFlush
  <2>2. PICK n \in {0, 1}, g \in {Accounted, hot} : GuardSound(hotGuard') /\ Accounted' = g + n /\ Debt(g)
    <3>1. CASE RefuseHot(1)
      <4>1. PICK g \in {Accounted, hot} : GuardSound(hotGuard') /\ Accounted' = g /\ Debt(g)
        BY <3>1, RefusalAccounts
      <4>2. Accounted' = g + 0
        <5>1. hot \in Nat /\ Accounted \in Nat
          BY DebtNumbers
        <5> QED BY <4>1, <5>1
      <4> QED BY <4>1, <4>2
    <3>2. CASE GrantHot(1)
      BY <3>2, GrantAccounts
    <3> QED BY <1>2, <3>1, <3>2
  <2> QED BY <1>1, <1>2, <2>1, <2>2, FlushFails
<1>3. ASSUME GrantHot(1), NEW outcome \in Outcomes,
             objects' = IF Visible(outcome) THEN objects \union {Segment} ELSE objects,
             hot' = IF Visible(outcome) /\ Segment \notin objects THEN hot + Len(pending) + 1 ELSE hot,
             chain' = IF Completed(outcome) THEN Append(chain, Segment) ELSE chain,
             AfterFlush(outcome = "ok")
      PROVE  FloorInv'
  <2>1. PICK g \in {Accounted, hot} : GuardSound(hotGuard') /\ Accounted' = g + 1 /\ Debt(g)
    BY <1>3, GrantAccounts
  <2>2. CASE outcome = "ok"
    <3>1. /\ objects' = objects \union {Segment} /\ chain' = Append(chain, Segment)
          /\ hot' = IF Segment \notin objects THEN hot + Len(pending) + 1 ELSE hot
      BY <1>3, <2>2 DEF Visible, Completed
    <3>2. Len(pending') <= Waits
      <4>1. CASE pc = "rotate"
        <5>1. pending' = <<waiting>>
          BY <1>3, <2>2, <4>1 DEF AfterFlush
        <5>2. waiting # None
          <6>1. Kept(pending, chain) \in Seq(Nat) /\ waiting = Len(Kept(pending, chain)) + 1
            BY <4>1, KeptIsSeq DEF SegmentsInv, Consistent
          <6>2. waiting \in Nat
            BY <6>1
          <6> QED BY <6>2, StorageAssumption
        <5>3. Len(<<waiting>>) = 1
          OBVIOUS
        <5> QED BY <5>1, <5>2, <5>3 DEF Waits
      <4>2. CASE pc # "rotate"
        <5>1. pending' = <<>>
          BY <1>3, <2>2, <4>2 DEF AfterFlush
        <5>2. Len(<<>>) = 0
          OBVIOUS
        <5> QED BY <5>1, <5>2 DEF Waits
      <4> QED BY <4>1, <4>2
    <3> QED BY <1>1, <2>1, <3>1, <3>2, FlushCompletes
  <2>3. CASE outcome # "ok"
    <3>1. (outcome = "ok") = FALSE
      BY <2>3
    <3>2. AfterFlush(FALSE)
      BY <1>3, <3>1
    <3>3. UNCHANGED <<chain, pending>>
      BY <1>3, <2>3, <3>2 DEF AfterFlush, Completed
    <3>4. \/ UNCHANGED <<objects, hot>>
          \/ objects' = objects \union {Segment}
             /\ hot' = IF Segment \notin objects THEN hot + Len(pending) + 1 ELSE hot
      BY <1>3
    <3> QED BY <1>1, <2>1, <3>3, <3>4, FlushFails
  <2> QED BY <2>2, <2>3
<1> QED BY <1>2, <1>3 DEF Flush

LEMMA FloorPreflight == ASSUME SegmentsInv, FloorInv, SegmentsInv', Preflight PROVE FloorInv'
<1>1. /\ UNCHANGED <<hot, inflight, pending, waiting, objects, chain, receipts>>
      /\ hot = 0 /\ inflight = 0 /\ pending = <<>> /\ waiting = None
  BY DEF Preflight, Segments, Environment, FloorInv, Starting
<1>2. CASE pc' = "probe" /\ hotGuard' = [seen |-> hot, unprobed |-> 1, count |-> 0] /\ Fits(hot, 1, Room)
  <2>1. GuardSound(hotGuard') /\ Accounted' = hot + 1
    BY <1>1, <1>2 DEF GuardSound, Guards, Accounted, Fits
  <2>2. Debt(hot) /\ hot' \in Nat /\ inflight' \in Nat /\ hot' + inflight' <= hot + inflight + 1
    BY <1>1, DebtAfterProbe
  <2>3. Debt(Accounted)'
    BY <1>1, <2>1, <2>2, DebtPaidForOther
  <2>4. Starting'
    BY <1>1, <1>2, <2>1 DEF Starting
  <2>5. Countables'
    BY <1>1 DEF FloorInv, Countables
  <2> QED BY <2>1, <2>3, <2>4, <2>5 DEF FloorInv
<1>3. CASE pc' = "paused" /\ UNCHANGED hotGuard
  <2>1. Starting'
    BY <1>1, <1>3 DEF Starting
  <2> QED BY <1>1, <1>3, <2>1, FloorUnpaid
<1> QED BY <1>2, <1>3 DEF Preflight

\* The preflight pays for its probe file.
LEMMA FloorProbe == ASSUME SegmentsInv, FloorInv, SegmentsInv', PreflightProbe PROVE FloorInv'
<1>1. /\ UNCHANGED <<hotGuard, inflight, pending, waiting, objects, chain, receipts>>
      /\ inflight = 0 /\ pending = <<>> /\ waiting = None /\ hot + 1 <= Accounted
      /\ pc' \in {"run", "paused"} /\ hot' \in {hot, hot + 1}
  BY DEF PreflightProbe, Segments, Environment, FloorInv, Starting
<1>2. PICK h \in Nat, a \in Nat, m \in Nat, r \in Nat, f \in Nat :
        /\ h = hot /\ a = Accounted /\ m = Max(Lengths(pending, objects)) /\ r = Cardinality(receipts)
        /\ f = Cardinality(FramesLeft(objects, chain))
  BY DebtNumbers
<1>3. PICK H \in Nat : H = hot' /\ H <= a
  <2>1. h + 1 <= a
    BY <1>1, <1>2
  <2>2. hot' = h \/ hot' = h + 1
    BY <1>1, <1>2
  <2> QED BY <2>1, <2>2
<1>4. /\ a = Accounted' /\ m = Max(Lengths(pending', objects')) /\ r = Cardinality(receipts')
      /\ f = Cardinality(FramesLeft(objects', chain')) /\ inflight' = 0 /\ Len(pending') = 0 /\ Waits' = 0
  BY <1>1, <1>2 DEF Accounted, Waits
<1>5. H + 0 + 0 + 0 <= a + m + 2 + r + f
  <2>1. H \in Nat /\ a \in Nat /\ m \in Nat /\ r \in Nat /\ f \in Nat /\ H <= a
    BY <1>2, <1>3
  <2> QED BY <2>1
<1>6. Debt(Accounted)'
  BY <1>3, <1>4, <1>5 DEF Debt
<1>7. Starting' /\ GuardSound(hotGuard') /\ Countables'
  BY <1>1, <1>3 DEF Starting, FloorInv, Countables
<1> QED BY <1>6, <1>7 DEF FloorInv

\* The steps of the archive, of the operator and of the thread that write what was paid.
LEMMA FloorRest ==
  ASSUME SegmentsInv, FloorInv, SegmentsInv',
         \/ StartArchive \/ CopyPart("payload", "manifest") \/ CopyPart("manifest", "restore")
         \/ Restore \/ ThreadWrites
         \/ (\E root \in Roots, v \in Volumes : Swap(root, v)) \/ Quiet \/ UNCHANGED vars
  PROVE  FloorInv'
<1>1. UNCHANGED <<hotGuard, pending, waiting, objects, chain, receipts>>
  BY DEF StartArchive, CopyPart, Restore, ThreadWrites, Swap, Quiet, vars, Segments, Archive
<1>2. hot \in Nat /\ inflight \in {0, 1}
  BY DebtNumbers
<1>3. CASE ThreadWrites
  <2>1. UNCHANGED pc /\ inflight' = 0 /\ hot' = hot + inflight /\ pc \notin {"start", "probe"}
    BY <1>2, <1>3 DEF ThreadWrites, FloorInv, Starting
  <2>2. Starting'
    BY <1>1, <2>1 DEF FloorInv, Starting
  <2>3. hot' \in Nat /\ inflight' \in {0, 1} /\ hot' + inflight' <= hot + inflight
    BY <1>2, <2>1
  <2> QED BY <1>1, <2>2, <2>3, FloorUnpaid
<1>4. CASE StartArchive \/ CopyPart("payload", "manifest") \/ CopyPart("manifest", "restore") \/ Restore
  <2>1. /\ UNCHANGED <<hot, inflight>> /\ pc # "rotate"
        /\ pc' \notin {"start", "probe"}
    BY <1>4 DEF StartArchive, CopyPart, Restore, Environment
  <2>2. Starting'
    BY <1>1, <2>1 DEF FloorInv, Starting
  <2>3. hot' \in Nat /\ inflight' \in {0, 1} /\ hot' + inflight' <= hot + inflight
    BY <1>2, <2>1
  <2> QED BY <1>1, <2>2, <2>3, FloorUnpaid
<1>5. CASE (\E root \in Roots, v \in Volumes : Swap(root, v)) \/ Quiet \/ UNCHANGED vars
  <2>1. UNCHANGED <<pc, hot, inflight>>
    BY <1>5 DEF Swap, Quiet, vars
  <2>2. Starting'
    BY <1>1, <2>1 DEF FloorInv, Starting, Accounted
  <2>3. hot' \in Nat /\ inflight' \in {0, 1} /\ hot' + inflight' <= hot + inflight
    BY <1>2, <2>1
  <2> QED BY <1>1, <2>2, <2>3, FloorUnpaid
<1> QED BY <1>3, <1>4, <1>5

LEMMA FloorStart == Init => FloorInv
<1> SUFFICES ASSUME Init PROVE FloorInv
  OBVIOUS
<1>1. /\ pc = "start" /\ hot = 0 /\ inflight = 0 /\ pending = <<>> /\ waiting = None /\ objects = {}
      /\ chain = <<>> /\ receipts = {} /\ hotGuard = [seen |-> 0, unprobed |-> 0, count |-> 0]
  BY DEF Init, Unseen
<1>2. GuardSound(hotGuard) /\ Accounted = 0
  BY <1>1, StorageAssumption DEF GuardSound, Guards, Accounted
<1>3. FramesLeft(objects, chain) = {}
  BY <1>1 DEF FramesLeft
<1>4. IsFiniteSet({}) /\ Cardinality({}) = 0
  BY FS_EmptySet
<1>5. Countables
  BY <1>1, <1>3, <1>4 DEF Countables
<1>6. Starting
  BY <1>1 DEF Starting
<1>7. Debt(Accounted)
  <2>1. PICK e : e = pending /\ e \in Seq(Nat) /\ Len(e) = 0
    <3>1. <<>> \in Seq(Nat) /\ Len(<<>>) = 0
      OBVIOUS
    <3> QED BY <1>1, <3>1
  <2>2. Lengths(pending, objects) = {0}
    BY <1>1, <2>1 DEF Lengths
  <2>3. Max(Lengths(pending, objects)) = 0
    BY <2>2 DEF Max
  <2>4. Waits = 0 /\ Cardinality(receipts) = 0 /\ Cardinality(FramesLeft(objects, chain)) = 0 /\ Len(pending) = 0
    BY <1>1, <1>3, <1>4, <2>1 DEF Waits
  <2>5. 0 + 0 + 0 + 0 <= 0 + 0 + 2 + 0 + 0
    OBVIOUS
  <2> QED BY <1>1, <1>2, <2>3, <2>4, <2>5 DEF Debt
<1> QED BY <1>2, <1>5, <1>6, <1>7 DEF FloorInv

LEMMA FloorStep == ASSUME SegmentsInv, FloorInv, SegmentsInv', [Next]_vars PROVE FloorInv'
<1>1. CASE Preflight \/ PreflightProbe \/ AppendFrame \/ Flush \/ AuditEvent \/ Receipt \/ ThreadReserves
  BY <1>1, FloorPreflight, FloorProbe, FloorAppend, FloorFlush, FloorAudit, FloorReceipt,
     FloorThread
<1>2. CASE \/ StartArchive \/ CopyPart("payload", "manifest") \/ CopyPart("manifest", "restore")
           \/ Restore \/ ThreadWrites
           \/ (\E root \in Roots, v \in Volumes : Swap(root, v)) \/ Quiet \/ UNCHANGED vars
  BY <1>2, FloorRest
<1> QED BY <1>1, <1>2 DEF Next

\* What a probe forgets is paid back: the hot volume never exceeds its room by more than
\* the longest segment, one waiting frame, the thread's unit, the receipts and the files
\* of failed flushes (storage.py: _StorageGuard.reserve, RawSegmentWriter.flush), for
\* every room, probe interval and rotation.
THEOREM HotWithinFloorHolds == Spec => []HotWithinFloor
<1>1. SegmentsInv /\ FloorInv => HotWithinFloor
  <2> SUFFICES ASSUME SegmentsInv, FloorInv PROVE HotWithinFloor
    OBVIOUS
  <2>1. LongestSegment = Max(Lengths(pending, objects)) /\ LeftoverFrames = FramesLeft(objects, chain)
    BY DEF LongestSegment, Lengths, LeftoverFrames, FramesLeft, Leftover
  <2>2. PICK l \in Nat, w \in Nat, h \in Nat, i \in Nat, a \in Nat, m \in Nat, r \in Nat, f \in Nat :
          /\ l = Len(pending) /\ w = Waits /\ h = hot /\ i = inflight /\ a = Accounted
          /\ m = Max(Lengths(pending, objects)) /\ r = Cardinality(receipts)
          /\ f = Cardinality(FramesLeft(objects, chain))
    <3>1. inflight \in {0, 1} /\ Waits \in {0, 1}
      BY DebtNumbers
    <3> QED BY <3>1, DebtNumbers
  <2>3. h + i + l + w <= a + m + 2 + r + f
    BY <2>2 DEF FloorInv, Debt
  <2>4. a <= Room /\ Room \in Nat
    BY <2>2, StorageAssumption DEF FloorInv, GuardSound, Accounted
  <2>5. h + i <= Room + m + 2 + r + f
    BY <2>3, <2>4
  <2> QED BY <2>1, <2>2, <2>5 DEF HotWithinFloor
<1>2. SegmentsInv /\ FloorInv /\ [Next]_vars => (SegmentsInv /\ FloorInv)'
  BY SegmentsStep, FloorStep
<1>3. Init => SegmentsInv /\ FloorInv
  BY SegmentsStart, FloorStart
<1> QED BY <1>1, <1>2, <1>3, PTL DEF Spec
=============================================================================
