---------------------------- MODULE ResearchIntake ----------------------------
(***************************************************************************)
(* The intake catalog of research_intake.py: callers import tables into    *)
(* named datasets under one lock, leave a receipt of every attempt and     *)
(* publish ready and blocked versions; readers take no lock.               *)
(*                                                                         *)
(* A source stands for its bytes: the same bytes are one raw object.  The  *)
(* position of a version in disk stands for its id, which is the hash of   *)
(* its manifest and of its time.  JSON files are replaced atomically.      *)
(***************************************************************************)
EXTENDS IntakeScan, SequencesExt

CONSTANTS
  Callers,     \* processes
  Names,       \* datasets
  Sources,     \* tables with their contracts: [contract, rows, flaw]
  Queries,     \* what readers ask for
  None,
  MaxImports,  \* bound: imports
  MaxFaults,   \* bound: I/O errors
  MaxCrashes   \* bound: processes that die

\* A refusal is no table.
ASSUME IntakeAssumption ==
  /\ None \notin Callers /\ None \notin Sources /\ None \notin Nat
  /\ {MaxImports, MaxFaults, MaxCrashes} \subseteq Nat
  /\ \A source \in Sources, query \in Queries :
       Allowed(source.contract, source.rows, query) =>
         Delivered(source.contract, source.rows, query) # Refused

VARIABLES
  raw,       \* raw/sha256-*
  receipts,  \* receipts/receipt-*.json, by position
  disk,      \* versions/sha256-*
  catalog,   \* catalog.json
  lock,      \* holder of .research-intake.lock
  call,      \* the call of each process
  faults, crashes

vars == <<raw, receipts, disk, catalog, lock, call, faults, crashes>>

Idle == [pc |-> "idle"]

Init ==
  /\ raw = {} /\ receipts = <<>> /\ disk = <<>>
  /\ catalog = [n \in Names |-> [latest |-> None, versions |-> <<>>]]
  /\ lock = None /\ call = [c \in Callers |-> Idle]
  /\ faults = 0 /\ crashes = 0

At(c, pc) == call[c].pc = pc
Goto(c, pc) == call' = [call EXCEPT ![c].pc = pc]

\* An import is interrupted by an error: it goes on to write the failure down.
Fails(c) == Goto(c, "fail")
Fault(c) == faults < MaxFaults /\ faults' = faults + 1 /\ Fails(c)

\* The receipt of the call is replaced.
Receipt(c) == receipts[call[c].receipt]
WriteReceipt(c, receipt) == receipts' = [receipts EXCEPT ![call[c].receipt] = receipt]

(***************************************************************************)
(* import_dataset.                                                         *)
(***************************************************************************)
\* The attempt is on record before anything is looked at.
Begin(c, name, source, parent) ==
  /\ At(c, "idle") /\ Len(receipts) < MaxImports
  /\ receipts' = Append(receipts, [status |-> "pending", name |-> name, raw |-> None, version |-> None])
  /\ call' = [call EXCEPT ![c] = [pc |-> "enter", name |-> name, source |-> source, parent |-> parent,
                                  receipt |-> Len(receipts'), raw |-> None, seen |-> None,
                                  version |-> None, named |-> None]]
  /\ UNCHANGED <<raw, disk, catalog, lock, faults, crashes>>

\* Mutation of Free: the lock is not taken.
FreeAlways == TRUE
Free == lock = None

Enter(c) ==
  /\ At(c, "enter")
  /\ \/ Free /\ lock' = c /\ Goto(c, "copy") /\ UNCHANGED faults
     \/ Fault(c) /\ UNCHANGED lock
  /\ UNCHANGED <<raw, receipts, disk, catalog, crashes>>

\* The bytes are kept, once, and only then named; the source may change in between.
CopyRaw(c) ==
  /\ At(c, "copy")
  /\ \/ /\ raw' = raw \union {call[c].source}
        /\ call' = [call EXCEPT ![c].pc = "note", ![c].raw = call[c].source]
        /\ UNCHANGED faults
     \/ Fault(c) /\ UNCHANGED raw
  /\ UNCHANGED <<receipts, disk, catalog, lock, crashes>>

NoteRaw(c) ==
  /\ At(c, "note")
  /\ \/ /\ WriteReceipt(c, [Receipt(c) EXCEPT !.raw = call[c].raw])
        /\ Goto(c, "judge") /\ UNCHANGED faults
     \/ Fault(c) /\ UNCHANGED receipts
  /\ UNCHANGED <<raw, disk, catalog, lock, crashes>>

\* The contract is well formed, the file within its limits, its records complete.
WellFormed(source) == source.flaw # "contract"
WithinLimits(source) == source.flaw # "limits"
Legible(source) == source.flaw # "records"
Readable(source) == WellFormed(source) /\ WithinLimits(source) /\ Legible(source)

\* Mutation of Expected: the parent that was named is not compared.
ExpectedAny(c) == TRUE
Expected(c) == call[c].parent \in {None, catalog[call[c].name].latest}

\* The retained bytes are judged, with the catalog that was read.
Judge(c) ==
  /\ At(c, "judge")
  /\ IF Readable(call[c].source) /\ Expected(c)
     THEN call' = [call EXCEPT ![c].pc = "publish", ![c].seen = catalog]
     ELSE Fails(c)
  /\ UNCHANGED <<raw, receipts, disk, catalog, lock, faults, crashes>>

\* The parent that was named, or the latest version.
Parent(c) == IF call[c].parent # None THEN call[c].parent ELSE call[c].seen[call[c].name].latest

Version(c) ==
  [name |-> call[c].name, source |-> call[c].raw, parent |-> Parent(c),
   status |-> Status(call[c].raw.contract, call[c].raw.rows)]

\* The staged directory is renamed.
Publish(c) ==
  /\ At(c, "publish")
  /\ \/ /\ disk' = Append(disk, Version(c))
        /\ call' = [call EXCEPT ![c].pc = "list", ![c].version = Len(disk')]
        /\ UNCHANGED faults
     \/ Fault(c) /\ UNCHANGED disk
  /\ UNCHANGED <<raw, receipts, catalog, lock, crashes>>

Latest(v, latest) == IF disk[v].status = "ready" THEN v ELSE latest

Listed(c) ==
  LET v == call[c].version IN
  [call[c].seen EXCEPT ![call[c].name] =
     [latest |-> Latest(v, @.latest), versions |-> Append(@.versions, v)]]

List(c) ==
  /\ At(c, "list")
  /\ \/ catalog' = Listed(c) /\ Goto(c, "succeed") /\ UNCHANGED faults
     \/ Fault(c) /\ UNCHANGED catalog
  /\ UNCHANGED <<raw, receipts, disk, lock, crashes>>

\* The receipt in memory names the version also when it cannot be written.
Succeed(c) ==
  /\ At(c, "succeed")
  /\ \/ /\ WriteReceipt(c, [Receipt(c) EXCEPT !.status = "succeeded", !.version = call[c].version])
        /\ call' = [call EXCEPT ![c] = Idle] /\ lock' = None /\ UNCHANGED faults
     \/ /\ faults < MaxFaults /\ faults' = faults + 1
        /\ call' = [call EXCEPT ![c].pc = "fail", ![c].named = call[c].version]
        /\ UNCHANGED <<receipts, lock>>
  /\ UNCHANGED <<raw, disk, catalog, crashes>>

\* What a failed receipt names: a version only if all but the receipt was written.
Named(c) == call[c].named

\* The lock is left before the failure is written, which may fail as well.
Leave(c) ==
  /\ At(c, "fail") /\ lock = c /\ lock' = None
  /\ UNCHANGED <<raw, receipts, disk, catalog, call, faults, crashes>>

Fail(c) ==
  /\ At(c, "fail") /\ lock # c
  /\ \/ /\ WriteReceipt(c, [Receipt(c) EXCEPT !.status = "failed", !.raw = call[c].raw, !.version = Named(c)])
        /\ UNCHANGED faults
     \/ faults < MaxFaults /\ faults' = faults + 1 /\ UNCHANGED receipts
  /\ call' = [call EXCEPT ![c] = Idle]
  /\ UNCHANGED <<raw, disk, catalog, lock, crashes>>

\* The operating system gives the lock back.
Crash(c) ==
  /\ ~At(c, "idle") /\ crashes < MaxCrashes /\ crashes' = crashes + 1
  /\ call' = [call EXCEPT ![c] = Idle] /\ lock' = IF lock = c THEN None ELSE lock
  /\ UNCHANGED <<raw, receipts, disk, catalog, faults>>

(***************************************************************************)
(* Readers.                                                                *)
(***************************************************************************)
\* A version of the dataset, which may be its latest, by the catalog of this moment.
Resolve(c, name) ==
  /\ At(c, "idle")
  /\ \E v \in Range(catalog[name].versions) :
       call' = [call EXCEPT ![c] = [pc |-> "read", name |-> name, version |-> v]]
  /\ UNCHANGED <<raw, receipts, disk, catalog, lock, faults, crashes>>

\* verify_snapshot and the admission of the scope.
Answer(v, query) == ReadScope(disk[v].source.contract, disk[v].source.rows, query)

Read(c) ==
  /\ At(c, "read") /\ call[c].version \in DOMAIN disk
  /\ \E query \in Queries :
       call' = [call EXCEPT ![c] = [pc |-> "answered", version |-> call[c].version,
                                    query |-> query, answer |-> Answer(call[c].version, query)]]
  /\ UNCHANGED <<raw, receipts, disk, catalog, lock, faults, crashes>>

Return(c) ==
  /\ At(c, "answered") /\ call' = [call EXCEPT ![c] = Idle]
  /\ UNCHANGED <<raw, receipts, disk, catalog, lock, faults, crashes>>

Quiet == (\A c \in Callers : At(c, "idle")) /\ UNCHANGED vars
-----------------------------------------------------------------------------
Next ==
  \/ \E c \in Callers :
       \/ \E name \in Names, source \in Sources, parent \in {None} \union DOMAIN disk :
            Begin(c, name, source, parent)
       \/ Enter(c) \/ CopyRaw(c) \/ NoteRaw(c) \/ Judge(c) \/ Publish(c) \/ List(c) \/ Succeed(c)
       \/ Leave(c) \/ Fail(c) \/ Crash(c)
       \/ \E name \in Names : Resolve(c, name)
       \/ Read(c) \/ Return(c)
  \/ Quiet

Spec == Init /\ [][Next]_vars
-----------------------------------------------------------------------------
\* The last ready version among the first k of a dataset.
LastReady(name, k) ==
  LET ready == {i \in 1..k : disk[catalog[name].versions[i]].status = "ready"}
  IN IF ready = {} THEN None ELSE catalog[name].versions[Max(ready)]

OneLine(n) ==
  LET versions == catalog[n].versions IN
  /\ IsInjective(versions)
  /\ \A i \in DOMAIN versions :
       /\ versions[i] \in DOMAIN disk /\ disk[versions[i]].name = n
       /\ disk[versions[i]].parent = LastReady(n, i - 1)
  /\ catalog[n].latest = LastReady(n, Len(versions))

\* However imports overlap, fail and die, the ready versions of a dataset are one line:
\* each version was judged against the one that was the latest when it was listed, no
\* refresh is lost, and no blocked or unlisted version is ever the latest.
OneLineOfVersions == \A n \in Names : OneLine(n)

\* A reader who resolved a version finds it, and a ready one is read in full.
Whole == [purpose |-> "exploration", columns |-> Everything, symbols |-> Everything,
          start |-> Everything, end |-> Everything]

ReadersAreServed ==
  \A c \in Callers :
    /\ At(c, "read") => call[c].version \in DOMAIN disk /\ disk[call[c].version].name = call[c].name
    /\ At(c, "answered") /\ disk[call[c].version].status = "ready" /\ call[c].query = Whole =>
         /\ call[c].answer # Refused
         /\ DOMAIN call[c].answer = DOMAIN disk[call[c].version].source.rows

\* A receipt tells the truth whenever it is read: the bytes it names are kept, the
\* version it names is listed and was made from these bytes, success has a version, and
\* every listed version is named by a receipt unless its import is still under way or
\* could not write its receipt.
ReceiptsAreTrue ==
  /\ \A i \in DOMAIN receipts :
       LET r == receipts[i] IN
       /\ r.raw # None => r.raw \in raw
       /\ r.version # None => /\ r.version \in Range(catalog[r.name].versions)
                              /\ disk[r.version].source = r.raw
       /\ r.status = "succeeded" => r.version # None
  /\ \A n \in Names : \A v \in Range(catalog[n].versions) :
       \/ \E i \in DOMAIN receipts : receipts[i].version = v
       \/ \E i \in DOMAIN receipts : receipts[i].status = "pending" /\ receipts[i].name = n
                                      /\ receipts[i].raw = disk[v].source

===============================================================================
