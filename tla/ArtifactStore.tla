---------------------------- MODULE ArtifactStore ----------------------------
(***************************************************************************)
(* The content-addressed store of artifacts.py with the snapshots of       *)
(* shared_snapshots.py and the derivations of revision_impact.py.          *)
(*                                                                         *)
(* A call runs under the one lock of the store, in one transaction on its  *)
(* tables.  Files are outside of the transaction: they are written before  *)
(* it commits, and deleted before it commits, so that a call that dies or  *)
(* fails leaves the tables as they were and the files as they are.         *)
(*                                                                         *)
(* An object is named by its content.  What a manifest or a derivation     *)
(* refers to is part of its content.  The age of a record or a file is any.*)
(***************************************************************************)
EXTENDS Naturals, FiniteSets

CONSTANTS
  Objects, Owners,
  Manifests, Members,           \* a snapshot manifest -> its members
  Derivations, Inputs, Output   \* a derivation -> its inputs, its output

ASSUME ArtifactAssumption ==
  /\ IsFiniteSet(Objects)
  /\ Manifests \subseteq Objects /\ Members \in [Manifests -> SUBSET Objects]
  /\ Derivations \subseteq Objects /\ Manifests \cap Derivations = {}
  /\ Inputs \in [Derivations -> SUBSET Objects] /\ Output \in [Derivations -> Objects]

VARIABLES
  files,     \* the objects that are on disk
  db,        \* the tables: [objects, pins, edges, derived]
  session    \* the call that holds the lock, with its view of the tables

artifactVars == <<files, db, session>>

Refs(x) ==
  CASE x \in Manifests   -> Members[x]
    [] x \in Derivations -> Inputs[x] \union {Output[x]}
    [] OTHER             -> {}

Free == [op |-> "none"]

ArtifactInit ==
  /\ files = {}
  /\ db = [objects |-> {}, pins |-> [o \in Owners |-> {}], edges |-> [x \in Objects |-> {}], derived |-> {}]
  /\ session = Free

(***************************************************************************)
(* What a call reads.                                                      *)
(***************************************************************************)
Verified(t, x) == x \in t.objects /\ x \in files

\* _verify_closure: x and all that is registered below it can be read.
ReadableSets(t) == {T \in SUBSET {y \in Objects : Verified(t, y)} : \A y \in T : t.edges[y] \subseteq T}

ClosureVerified(t, x) == x \in UNION ReadableSets(t)

SnapshotLoads(t, m) ==
  Verified(t, m) /\ Members[m] # {} /\ \A c \in Members[m] : c \in t.edges[m] /\ Verified(t, c)

DerivationLoads(t, d) ==
  ClosureVerified(t, d) /\ \A r \in Refs(d) : r \in t.edges[d] /\ ClosureVerified(t, r)

Referred(t, x) == \E p \in Objects : x \in t.edges[p]
Pinned(t, x) == \E o \in Owners : x \in t.pins[o]
\* Mutation of Protected: only the pins count.
ProtectedByPin(t, x) == Pinned(t, x)

Protected(t, x) == Pinned(t, x) \/ Referred(t, x)

(***************************************************************************)
(* The graph of derivations.  What is reached from some objects is found   *)
(* in rounds, until a round reaches no more.                               *)
(***************************************************************************)
Reached(first, next) ==
  LET round[n \in 0..Cardinality(Objects)] ==
        IF n = 0 THEN first ELSE LET seen == round[n - 1] IN seen \union next[seen]
  IN round[Cardinality(Objects)]

Sources(t) == [seen \in SUBSET Objects |-> UNION {Inputs[d] : d \in {e \in t.derived : Output[e] \in seen}}]

\* register: the objects that those of `pending` are derived from.
\* Mutation of Upstream: the inputs alone.
UpstreamDirect(t, pending) == pending

Upstream(t, pending) == Reached(pending, Sources(t))

\* impact: what refers to an affected object, and what was derived from one.
Dependents(t) ==
  [seen \in SUBSET Objects |-> {p \in Objects : t.edges[p] \cap seen # {}}
                               \union {Output[d] : d \in {e \in t.derived : Inputs[e] \cap seen # {}}}]

Affected(t, old) == Reached({old}, Dependents(t))

Impact(t, old, new) ==
  LET affected == IF old = new THEN {} ELSE Affected(t, old)
  IN [derivations |-> {d \in t.derived : Inputs[d] \cap affected # {}}, artifacts |-> affected \ {old}]

(***************************************************************************)
(* A call: it opens a transaction, touches files and commits.              *)
(***************************************************************************)
\* A call that writes `write` to refer to `target`.
Writing(op, target, owners, write) ==
  [op |-> op, target |-> target, owners |-> owners, write |-> write, work |-> db]

\* put_bytes and put_file, with or without an owner.
Put(x, owners) ==
  /\ session = Free
  /\ session' = Writing("put", x, owners, {x})
  /\ UNCHANGED <<files, db>>

\* SnapshotStore.publish.
PublishSnapshot(m, owner) ==
  /\ session = Free /\ Members[m] # {}
  /\ session' = Writing("publish", m, {owner}, Members[m] \union {m})
  /\ UNCHANGED <<files, db>>

\* Every registered derivation is read before a new one is.
Registrable(d) ==
  /\ Inputs[d] # {} /\ Output[d] \notin Inputs[d]
  /\ \A r \in Refs(d) : ClosureVerified(db, r)
  /\ \A e \in db.derived : DerivationLoads(db, e)
  /\ Output[d] \notin Upstream(db, Inputs[d])

\* RevisionRegistry.register.
Register(d, owner) ==
  /\ session = Free /\ Registrable(d)
  /\ session' = Writing("register", d, {owner}, {d})
  /\ UNCHANGED <<files, db>>

\* _put_stream: the file is in its place and synchronized before the record is.
WriteFile(x) ==
  /\ session.op \in {"put", "publish", "register"}
  /\ x \in session.write /\ (x = session.target => session.write = {x})
  /\ files' = files \union {x}
  /\ session' = [session EXCEPT !.write = @ \ {x}, !.work.objects = @ \union {x}]
  /\ UNCHANGED db

\* The tables with the references of x.
Linked(t, x) ==
  [t EXCEPT !.edges[x] = Refs(x), !.derived = @ \union ({x} \cap Derivations)]

\* _pin, when all that is to be pinned can be read.
WithPins(t, owners, refs) ==
  [t EXCEPT !.pins = [o \in Owners |-> t.pins[o] \union IF o \in owners THEN refs ELSE {}]]

Complete(t) ==
  /\ session.owners # {} => ClosureVerified(t, session.target)
  /\ db' = WithPins(t, session.owners, {session.target})
  /\ session' = Free /\ UNCHANGED files

CommitWritten ==
  /\ session.op \in {"put", "publish", "register"} /\ session.write = {}
  /\ Complete(IF session.op = "put" THEN session.work ELSE Linked(session.work, session.target))

\* retain and release touch no file.
Retain(owner, refs) ==
  /\ session = Free /\ \A r \in refs : ClosureVerified(db, r)
  /\ db' = WithPins(db, {owner}, refs)
  /\ UNCHANGED <<files, session>>

Release(owner) ==
  /\ session = Free
  /\ db' = [db EXCEPT !.pins[owner] = {}]
  /\ UNCHANGED <<files, session>>

\* A deleted record takes its references and its derivation with it.
Without(t, x) ==
  [t EXCEPT !.objects = @ \ {x}, !.edges[x] = {}, !.derived = @ \ {x}]

Deleting(op) == [op |-> op, work |-> db]

Delete(x) ==
  /\ session = Free /\ Verified(db, x) /\ ~Protected(db, x)
  /\ files' = files \ {x}
  /\ session' = [Deleting("delete") EXCEPT !.work = Without(db, x)]
  /\ UNCHANGED db

Collect ==
  /\ session = Free
  /\ session' = Deleting("collect")
  /\ UNCHANGED <<files, db>>

CollectObject(x) ==
  /\ session.op = "collect" /\ x \in session.work.objects /\ ~Protected(session.work, x)
  /\ files' = files \ {x}
  /\ session' = [session EXCEPT !.work = Without(@, x)]
  /\ UNCHANGED db

\* Then files without a record go, and a strange name in the directory ends the call.
CollectFile(x) ==
  /\ session.op \in {"collect", "sweep"} /\ x \in files \ session.work.objects
  /\ files' = files \ {x}
  /\ session' = [session EXCEPT !.op = "sweep"]
  /\ UNCHANGED db

CommitDeleted ==
  /\ session.op \in {"delete", "collect", "sweep"}
  /\ db' = session.work /\ session' = Free
  /\ UNCHANGED files

\* A call fails or its process dies: the transaction is rolled back.
RollBack ==
  /\ session # Free
  /\ session' = Free /\ UNCHANGED <<files, db>>

ArtifactNext ==
  \/ \E x \in Objects : \E owners \in SUBSET Owners : Cardinality(owners) <= 1 /\ Put(x, owners)
  \/ \E m \in Manifests, owner \in Owners : PublishSnapshot(m, owner)
  \/ \E d \in Derivations, owner \in Owners : Register(d, owner)
  \/ \E owner \in Owners : Release(owner) \/ \E refs \in SUBSET Objects : Retain(owner, refs)
  \/ \E x \in Objects : WriteFile(x) \/ Delete(x) \/ CollectObject(x) \/ CollectFile(x)
  \/ CommitWritten \/ Collect \/ CommitDeleted \/ RollBack

ArtifactSpec == ArtifactInit /\ [][ArtifactNext]_artifactVars

(***************************************************************************)
(* What the store promises.                                                *)
(***************************************************************************)
\* What an owner has pinned can be read with all that is registered below it, and a
\* published snapshot loads, whatever call fails or dies while its files change.
PinnedIsReadable ==
  \A o \in Owners : \A x \in db.pins[o] :
    /\ ClosureVerified(db, x)
    /\ x \in Manifests /\ Members[x] # {} /\ db.edges[x] # {} => SnapshotLoads(db, x)

\* No group of derivations feeds itself.
Acyclic == \A D \in SUBSET db.derived : D # {} => \E d \in D : \A e \in D : Output[e] \notin Inputs[d]

\* The least set with x that holds what refers to, or was derived from, a member.
Downstream(x) ==
  {y \in Objects : \A T \in SUBSET Objects :
     /\ x \in T /\ \A p \in Objects : db.edges[p] \cap T # {} => p \in T
     /\ \A d \in db.derived : Inputs[d] \cap T # {} => Output[d] \in T
     => y \in T}

\* A revised input affects exactly what is derived from it, in any order of registration.
ProvenanceIsExact ==
  session = Free /\ db.objects # {} =>
    /\ Acyclic
    /\ \A x \in Objects : LET impact == Impact(db, x, CHOOSE y \in Objects : y # x) IN
         /\ impact.artifacts = Downstream(x) \ {x}
         /\ impact.derivations = {d \in db.derived : Inputs[d] \cap Downstream(x) # {}}
=============================================================================
