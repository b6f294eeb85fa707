------------------------ MODULE ResearchIntake_proofs ------------------------
(***************************************************************************)
(* The versions of a dataset are one line, and receipts tell the truth,    *)
(* for any number of callers, datasets, sources, imports, I/O errors and   *)
(* deaths.                                                                 *)
(***************************************************************************)
EXTENDS ResearchIntake, WellFoundedInduction, TLAPS

Steps == {"enter", "copy", "note", "judge", "publish", "list", "succeed", "fail"}
Snapshots == [name : Names, source : Sources, parent : Nat \union {None}, status : {"ready", "blocked"}]
Catalogs == [Names -> [latest : Nat \union {None}, versions : Seq(Nat)]]
Receipts == [status : {"pending", "succeeded", "failed"}, name : Names,
             raw : Sources \union {None}, version : Nat \union {None}]
Imports == [pc : Steps, name : Names, source : Sources, parent : Nat \union {None}, receipt : Nat,
            raw : Sources \union {None}, seen : Catalogs \union {None},
            version : Nat \union {None}, named : Nat \union {None}]

Importing(c) == call[c].pc \in Steps
Inside(c) == call[c].pc \in Steps \ {"enter", "fail"}

TypeOK ==
  /\ raw \subseteq Sources
  /\ receipts \in Seq(Receipts) /\ disk \in Seq(Snapshots) /\ catalog \in Catalogs
  /\ DOMAIN call = Callers
  /\ \A c \in Callers : Importing(c) => call[c] \in Imports

Published(n) == Range(catalog[n].versions)

\* What an import has written down itself.
OwnReceipt(c) ==
  /\ call[c].receipt \in DOMAIN receipts
  /\ Receipt(c).status = "pending" /\ Receipt(c).name = call[c].name /\ Receipt(c).version = None
  /\ call[c].pc \in {"judge", "publish", "list", "succeed"} => Receipt(c).raw = call[c].raw

\* Only the holder of the lock looks at the catalog, and what it read still holds.
OwnVersion(c) ==
  /\ call[c].pc \in {"publish", "list"} => call[c].seen = catalog
  /\ At(c, "publish") => call[c].parent \in {None, catalog[call[c].name].latest}
  /\ At(c, "list") =>
       /\ call[c].version \in DOMAIN disk /\ \A n \in Names : call[c].version \notin Published(n)
       /\ disk[call[c].version].name = call[c].name
       /\ disk[call[c].version].parent = catalog[call[c].name].latest
       /\ disk[call[c].version].source = call[c].raw

\* The version that the receipt of a call is going to name.
WillName(c, v) == (At(c, "succeed") /\ call[c].version = v) \/ (At(c, "fail") /\ call[c].named = v)

CallSound(c) ==
  /\ Inside(c) => lock = c
  /\ Importing(c) =>
       /\ OwnReceipt(c) /\ OwnVersion(c)
       /\ call[c].raw # None => call[c].raw \in raw
       /\ Inside(c) /\ ~At(c, "copy") => call[c].raw # None
       /\ ~At(c, "fail") => call[c].named = None
       /\ At(c, "succeed") => call[c].version # None
       /\ \A v \in Nat : WillName(c, v) => v \in Published(call[c].name) /\ disk[v].source = call[c].raw

ReceiptsDiffer ==
  \A c, d \in Callers : Importing(c) /\ Importing(d) /\ c # d => call[c].receipt # call[d].receipt

\* A receipt may name what is kept, and a version that is listed.
ReceiptTrue(r) ==
  /\ r.raw # None => r.raw \in raw
  /\ r.version # None => r.version \in Published(r.name) /\ disk[r.version].source = r.raw
  /\ r.status = "succeeded" => r.version # None

\* A listed version is named, or its receipt is pending and only waits for its own call.
Covers(i, n, v) ==
  \/ receipts[i].version = v
  \/ /\ receipts[i].status = "pending" /\ receipts[i].name = n /\ receipts[i].raw = disk[v].source
     /\ \A c \in Callers : Importing(c) /\ call[c].receipt = i => WillName(c, v)

IntakeInv ==
  /\ TypeOK /\ ReceiptsDiffer
  /\ \A c \in Callers : CallSound(c)
  /\ \A i \in DOMAIN receipts : ReceiptTrue(receipts[i])
  /\ \A n \in Names : \A v \in Published(n) : \E i \in DOMAIN receipts : Covers(i, n, v)
  /\ OneLineOfVersions
-----------------------------------------------------------------------------
LEMMA StartHolds == Init => IntakeInv
  <1> USE IntakeAssumption
  <1> SUFFICES ASSUME Init PROVE IntakeInv
    OBVIOUS
  <1>1. TypeOK /\ \A c \in Callers : call[c].pc = "idle"
    BY DEF Init, Idle, TypeOK, Catalogs, Importing, Steps
  <1>2. \A n \in Names : catalog[n].versions = <<>> /\ catalog[n].latest = None /\ Published(n) = {}
    BY DEF Init, Published, Range
  <1>3. OneLineOfVersions
    BY <1>2 DEF OneLineOfVersions, OneLine, IsInjective, LastReady
  <1>4. receipts = <<>>
    BY DEF Init
  <1>5. \A c \in Callers : CallSound(c) /\ ~Importing(c)
    BY <1>1 DEF CallSound, Importing, Inside, Steps
  <1> QED BY <1>1, <1>2, <1>3, <1>4, <1>5 DEF IntakeInv, ReceiptsDiffer

\* What another call relies on is not disturbed by a call that only appends to the disk,
\* and replaces the catalog only while it holds the lock.
LEMMA OthersSound ==
  ASSUME IntakeInv, NEW c \in Callers, NEW q \in Callers, q # c, call'[q] = call[q],
         raw \subseteq raw',
         \A i \in DOMAIN receipts : /\ i \in DOMAIN receipts'
                                    /\ receipts'[i] = receipts[i] \/ (Importing(c) /\ i = call[c].receipt),
         lock' = lock \/ lock = c \/ lock = None,
         catalog' = catalog \/ lock = c,
         \A n \in Names : Published(n) \subseteq Published(n)' /\ Published(n) \subseteq DOMAIN disk,
         \A v \in DOMAIN disk : v \in DOMAIN disk' /\ disk'[v] = disk[v]
  PROVE  CallSound(q)'
  <1>1. CallSound(q) /\ TypeOK
    BY DEF IntakeInv
  <1>2. CASE ~Importing(q)
    BY <1>2 DEF CallSound, Importing, Inside
  <1>3. CASE Importing(q)
    <2>1. call[q] \in Imports /\ call[q].name \in Names
      BY <1>1, <1>3 DEF TypeOK, Imports
    <2>2. Inside(q) => lock = q /\ lock' = q /\ catalog' = catalog
      BY <1>1, IntakeAssumption DEF CallSound
    <2>3. OwnReceipt(q)'
      BY <1>1, <1>3 DEF IntakeInv, ReceiptsDiffer, CallSound, OwnReceipt, Receipt
    <2>4. OwnVersion(q)'
      BY <1>1, <1>3, <2>2 DEF CallSound, OwnVersion, At, Inside, Steps, Published
    <2>5. \A v \in Nat : WillName(q, v)' => v \in Published(call[q].name)' /\ disk'[v].source = call[q].raw
      BY <1>1, <1>3, <2>1 DEF CallSound, WillName, At
    <2> QED BY <1>1, <1>3, <2>2, <2>3, <2>4, <2>5 DEF CallSound, Importing, Inside, At
  <1> QED BY <1>2, <1>3

\* What is published stays on one line when the disk only grows.
LEMMA OneLineStays ==
  ASSUME OneLineOfVersions, TypeOK, UNCHANGED catalog,
         \A v \in DOMAIN disk : v \in DOMAIN disk' /\ disk'[v] = disk[v]
  PROVE  OneLineOfVersions'
  <1>1. ASSUME NEW n \in Names, NEW k \in 0..Len(catalog[n].versions)
        PROVE  LastReady(n, k)' = LastReady(n, k)
    <2>1. \A i \in 1..k : catalog[n].versions[i] \in DOMAIN disk
      BY DEF OneLineOfVersions, OneLine, TypeOK, Catalogs
    <2>2. {i \in 1..k : disk'[catalog[n].versions[i]].status = "ready"}
            = {i \in 1..k : disk[catalog[n].versions[i]].status = "ready"}
      BY <2>1
    <2> QED BY <2>2 DEF LastReady
  <1>2. \A n \in Names : /\ catalog[n].versions \in Seq(Nat)
                         /\ DOMAIN catalog[n].versions = 1..Len(catalog[n].versions)
                         /\ Len(catalog[n].versions) \in Nat
    BY DEF TypeOK, Catalogs
  <1>3. \A n \in Names : LastReady(n, Len(catalog[n].versions))' = LastReady(n, Len(catalog[n].versions))
    BY <1>1, <1>2
  <1>4. \A n \in Names : \A i \in DOMAIN catalog[n].versions : LastReady(n, i - 1)' = LastReady(n, i - 1)
    BY <1>1, <1>2
  <1> QED BY <1>2, <1>3, <1>4 DEF OneLineOfVersions, OneLine

LEMMA ListedOnDisk ==
  ASSUME IntakeInv PROVE \A n \in Names : Published(n) \subseteq DOMAIN disk /\ Published(n) \subseteq Nat
  BY DEF IntakeInv, OneLineOfVersions, OneLine, Published, Range, TypeOK, Catalogs

\* A step of one call that leaves receipts, versions and the catalog alone.
LEMMA StepsOn ==
  ASSUME IntakeInv, NEW c \in Callers, UNCHANGED <<receipts, disk, catalog>>,
         raw \subseteq raw', raw' \subseteq Sources,
         lock' = lock \/ lock = c \/ lock = None,
         DOMAIN call' = Callers, \A q \in Callers \ {c} : call'[q] = call[q],
         CallSound(c)', Importing(c)' => call'[c] \in Imports,
         Importing(c)' => Importing(c) /\ call'[c].receipt = call[c].receipt,
         Importing(c)' => \A v \in Nat : WillName(c, v) => WillName(c, v)'
  PROVE  IntakeInv'
  <1>1. TypeOK'
    BY DEF IntakeInv, TypeOK, Importing
  <1>2. \A q \in Callers \ {c} : CallSound(q)'
    BY OthersSound, ListedOnDisk DEF Published
  <1>3. ReceiptsDiffer'
    BY DEF IntakeInv, ReceiptsDiffer, Importing
  <1>4. \A i \in DOMAIN receipts' : ReceiptTrue(receipts[i])'
    BY DEF IntakeInv, ReceiptTrue, Published
  <1>5. ASSUME NEW i \in DOMAIN receipts, NEW n \in Names, NEW v \in Nat, Covers(i, n, v) PROVE Covers(i, n, v)'
    <2>1. ASSUME NEW q \in Callers, Importing(q)', call'[q].receipt = i, ~(receipts[i].version = v)
          PROVE  WillName(q, v)'
      BY <1>5, <2>1 DEF Covers, WillName, Importing, At
    <2> QED BY <1>5, <2>1 DEF Covers
  <1>6. \A n \in Names : \A v \in Published(n)' : \E i \in DOMAIN receipts' : Covers(i, n, v)'
    BY <1>5, ListedOnDisk DEF IntakeInv, Published
  <1>7. OneLineOfVersions'
    BY OneLineStays DEF IntakeInv
  <1> QED BY <1>1, <1>2, <1>3, <1>4, <1>6, <1>7 DEF IntakeInv

LEMMA SoundIdle ==
  ASSUME NEW c \in Callers, ~Importing(c)' PROVE CallSound(c)'
  BY DEF CallSound, Importing, Inside

\* A call ends or is a reader's.
LEMMA Outside ==
  ASSUME IntakeInv, NEW c \in Callers, UNCHANGED <<raw, receipts, disk, catalog>>,
         lock' = lock \/ lock = c, NEW r, call' = [call EXCEPT ![c] = r], r.pc \notin Steps
  PROVE  IntakeInv'
  <1>1. DOMAIN call' = Callers /\ call'[c] = r /\ \A q \in Callers \ {c} : call'[q] = call[q]
    BY DEF IntakeInv, TypeOK
  <1>2. ~Importing(c)'
    BY <1>1 DEF Importing
  <1>3. raw \subseteq Sources
    BY DEF IntakeInv, TypeOK
  <1> QED BY <1>1, <1>2, <1>3, StepsOn, SoundIdle

LEMMA ResolveStep ==
  ASSUME IntakeInv, NEW c \in Callers, NEW name \in Names, Resolve(c, name) PROVE IntakeInv'
  <1>1. PICK v : call' = [call EXCEPT ![c] = [pc |-> "read", name |-> name, version |-> v]]
    BY DEF Resolve
  <1> QED BY <1>1, Outside DEF Resolve, Steps

LEMMA ReadStep ==
  ASSUME IntakeInv, NEW c \in Callers, Read(c) PROVE IntakeInv'
  <1>1. PICK query : call' = [call EXCEPT ![c] =
          [pc |-> "answered", version |-> call[c].version, query |-> query,
           answer |-> Answer(call[c].version, query)]]
    BY DEF Read
  <1> DEFINE a == Answer(call[c].version, query)
             r == [pc |-> "answered", version |-> call[c].version, query |-> query, answer |-> a]
  <1>2. r.pc \notin Steps
    BY DEF Steps
  <1> QED BY <1>1, <1>2, Outside DEF Read

LEMMA ReturnStep == ASSUME IntakeInv, NEW c \in Callers, Return(c) PROVE IntakeInv'
  BY Outside DEF Return, Idle, Steps

LEMMA CrashStep == ASSUME IntakeInv, NEW c \in Callers, Crash(c) PROVE IntakeInv'
  BY Outside DEF Crash, Idle, Steps

\* An import is interrupted.
LEMMA FaultStep ==
  ASSUME IntakeInv, NEW c \in Callers, Importing(c), ~At(c, "succeed"), ~At(c, "fail"), Fails(c),
         UNCHANGED <<raw, receipts, disk, catalog, lock>>
  PROVE  IntakeInv'
  <1> DEFINE r == [call[c] EXCEPT !.pc = "fail"]
  <1>1. call' = [call EXCEPT ![c] = r]
    BY DEF Fails, Goto
  <1>2. call[c] \in Imports /\ CallSound(c) /\ raw \subseteq Sources
    BY DEF IntakeInv, TypeOK
  <1>3. /\ r \in Imports /\ r.pc = "fail" /\ r.receipt = call[c].receipt /\ r.raw = call[c].raw
        /\ r.name = call[c].name /\ r.named = call[c].named
    BY <1>2 DEF Imports, Steps
  <1> HIDE DEF r
  <1>4. DOMAIN call' = Callers /\ call'[c] = r /\ \A q \in Callers \ {c} : call'[q] = call[q]
    BY <1>1 DEF IntakeInv, TypeOK
  <1>5. CallSound(c)'
    BY <1>2, <1>3, <1>4, IntakeAssumption
    DEF CallSound, OwnReceipt, OwnVersion, Receipt, WillName, At, Inside, Importing, Steps
  <1> QED BY <1>2, <1>3, <1>4, <1>5, StepsOn DEF WillName, At

LEMMA CallOf == ASSUME IntakeInv, NEW c \in Callers, Importing(c)
                PROVE  TypeOK /\ call[c] \in Imports /\ CallSound(c)
  BY DEF IntakeInv, TypeOK

LEMMA EnterStep ==
  ASSUME IntakeInv, NEW c \in Callers, Enter(c) PROVE IntakeInv'
  <1>1. Importing(c) /\ At(c, "enter")
    BY DEF Enter, At, Importing, Steps
  <1>2. CASE Fault(c) /\ UNCHANGED lock
    BY <1>1, <1>2, FaultStep DEF Enter, Fault, At
  <1>3. CASE Free /\ lock' = c /\ Goto(c, "copy")
    <2> DEFINE r == [call[c] EXCEPT !.pc = "copy"]
    <2>1. call' = [call EXCEPT ![c] = r] /\ call[c] \in Imports
      BY <1>1, <1>3, CallOf DEF Goto
    <2>2. /\ r \in Imports /\ r.pc = "copy" /\ r.receipt = call[c].receipt /\ r.raw = call[c].raw
          /\ r.name = call[c].name /\ r.named = call[c].named
      BY <2>1 DEF Imports, Steps
    <2> HIDE DEF r
    <2>3. DOMAIN call' = Callers /\ call'[c] = r /\ \A q \in Callers \ {c} : call'[q] = call[q]
      BY <2>1 DEF IntakeInv, TypeOK
    <2>4. CallSound(c)'
      BY <1>1, <1>3, <2>2, <2>3, CallOf
      DEF CallSound, OwnReceipt, OwnVersion, Receipt, WillName, At, Inside, Importing, Steps, Enter
    <2> QED BY <1>1, <1>3, <2>2, <2>3, <2>4, CallOf, StepsOn DEF WillName, At, Enter, Free,
        TypeOK
  <1> QED BY <1>2, <1>3 DEF Enter

LEMMA CopyRawStep ==
  ASSUME IntakeInv, NEW c \in Callers, CopyRaw(c) PROVE IntakeInv'
  <1>1. Importing(c) /\ At(c, "copy")
    BY DEF CopyRaw, At, Importing, Steps
  <1>2. CASE Fault(c) /\ UNCHANGED raw
    BY <1>1, <1>2, FaultStep DEF CopyRaw, Fault, At
  <1>3. CASE /\ raw' = raw \union {call[c].source}
             /\ call' = [call EXCEPT ![c].pc = "note", ![c].raw = call[c].source]
    <2> DEFINE r == [call[c] EXCEPT !.pc = "note", !.raw = call[c].source]
    <2>1. call[c] \in Imports
      BY <1>1, CallOf
    <2>2. /\ r \in Imports /\ r.pc = "note" /\ r.receipt = call[c].receipt /\ r.raw = call[c].source
          /\ r.name = call[c].name /\ r.named = call[c].named /\ r.raw \in Sources
      BY <2>1 DEF Imports, Steps
    <2>3. DOMAIN call' = Callers /\ call'[c] = r /\ \A q \in Callers \ {c} : call'[q] = call[q]
      BY <1>3 DEF IntakeInv, TypeOK
    <2> HIDE DEF r
    <2>4. CallSound(c)'
      BY <1>1, <1>3, <2>2, <2>3, CallOf, IntakeAssumption
      DEF CallSound, OwnReceipt, OwnVersion, Receipt, WillName, At, Inside, Importing, Steps, CopyRaw
    <2>5. raw' \subseteq Sources
      BY <1>1, <1>3, <2>2, CallOf DEF TypeOK
    <2> QED BY <1>1, <1>3, <2>2, <2>3, <2>4, <2>5, StepsOn DEF WillName, At, CopyRaw
  <1> QED BY <1>2, <1>3 DEF CopyRaw

LEMMA JudgeStep ==
  ASSUME IntakeInv, NEW c \in Callers, Judge(c) PROVE IntakeInv'
  <1>1. Importing(c) /\ At(c, "judge")
    BY DEF Judge, At, Importing, Steps
  <1>2. CASE Fails(c)
    BY <1>1, <1>2, FaultStep DEF Judge, At
  <1>3. CASE Expected(c) /\ call' = [call EXCEPT ![c].pc = "publish", ![c].seen = catalog]
    <2> DEFINE r == [call[c] EXCEPT !.pc = "publish", !.seen = catalog]
    <2>1. call[c] \in Imports /\ catalog \in Catalogs /\ raw \subseteq Sources
      BY <1>1, CallOf DEF TypeOK
    <2>2. /\ r \in Imports /\ r.pc = "publish" /\ r.receipt = call[c].receipt /\ r.raw = call[c].raw
          /\ r.name = call[c].name /\ r.named = call[c].named /\ r.seen = catalog
          /\ r.parent = call[c].parent
      BY <2>1 DEF Imports, Steps
    <2>3. DOMAIN call' = Callers /\ call'[c] = r /\ \A q \in Callers \ {c} : call'[q] = call[q]
      BY <1>3 DEF IntakeInv, TypeOK
    <2> HIDE DEF r
    <2>4. CallSound(c)'
      BY <1>1, <1>3, <2>2, <2>3, CallOf
      DEF CallSound, OwnReceipt, OwnVersion, Receipt, WillName, At, Inside, Importing, Steps, Judge, Expected
    <2> QED BY <1>1, <1>3, <2>1, <2>2, <2>3, <2>4, StepsOn DEF WillName, At, Judge
  <1> QED BY <1>2, <1>3 DEF Judge

\* The lock is left before the failure is written.
LEMMA LeaveStep ==
  ASSUME IntakeInv, NEW c \in Callers, Leave(c) PROVE IntakeInv'
  <1>1. Importing(c) /\ At(c, "fail")
    BY DEF Leave, At, Importing, Steps
  <1>2. CallSound(c)'
    BY <1>1, CallOf
    DEF CallSound, OwnReceipt, OwnVersion, Receipt, WillName, At, Inside, Importing, Steps, Leave, Published
  <1>3. DOMAIN call' = Callers /\ raw \subseteq Sources /\ call' = call /\ (Importing(c)' = Importing(c))
    BY DEF Leave, IntakeInv, TypeOK, Importing
  <1> QED BY <1>1, <1>2, <1>3, CallOf, StepsOn DEF WillName, At, Leave

\* A step that writes the receipt of the call and leaves the versions and the catalog.
LEMMA WritesOn ==
  ASSUME IntakeInv, NEW c \in Callers, UNCHANGED <<raw, disk, catalog>>,
         lock' = lock \/ lock = c,
         DOMAIN call' = Callers, \A q \in Callers \ {c} : call'[q] = call[q],
         receipts' \in Seq(Receipts),
         \A i \in DOMAIN receipts : /\ i \in DOMAIN receipts'
                                    /\ receipts'[i] = receipts[i] \/ (Importing(c) /\ i = call[c].receipt),
         CallSound(c)', Importing(c)' => call'[c] \in Imports,
         Importing(c)' => \A q \in Callers \ {c} : Importing(q) => call'[c].receipt # call[q].receipt,
         \A i \in DOMAIN receipts' : ReceiptTrue(receipts[i])',
         \A i \in DOMAIN receipts, n \in Names, v \in Nat : Covers(i, n, v) => Covers(i, n, v)'
  PROVE  IntakeInv'
  <1>1. TypeOK'
    BY DEF IntakeInv, TypeOK, Importing
  <1>2. \A q \in Callers \ {c} : CallSound(q)'
    BY OthersSound, ListedOnDisk DEF Published
  <1>3. ReceiptsDiffer'
    BY DEF IntakeInv, ReceiptsDiffer, Importing
  <1>4. \A n \in Names : \A v \in Published(n)' : \E i \in DOMAIN receipts' : Covers(i, n, v)'
    BY ListedOnDisk DEF IntakeInv, Published
  <1>5. OneLineOfVersions'
    BY OneLineStays DEF IntakeInv
  <1> QED BY <1>1, <1>2, <1>3, <1>4, <1>5 DEF IntakeInv

\* Who covers a version with another receipt goes on to cover it.
LEMMA OthersCover ==
  ASSUME IntakeInv, NEW c \in Callers, \A q \in Callers \ {c} : call'[q] = call[q],
         NEW i \in DOMAIN receipts, receipts'[i] = receipts[i], ~(Importing(c)' /\ call'[c].receipt = i),
         NEW n \in Names, NEW v \in Nat, disk'[v] = disk[v], Covers(i, n, v)
  PROVE  Covers(i, n, v)'
  <1>1. ASSUME NEW q \in Callers, Importing(q)', call'[q].receipt = i, ~(receipts[i].version = v)
        PROVE  WillName(q, v)'
    BY <1>1 DEF Covers, WillName, Importing, At
  <1> QED BY <1>1 DEF Covers

LEMMA BeginStep ==
  ASSUME IntakeInv, NEW c \in Callers, NEW name \in Names, NEW source \in Sources,
         NEW parent \in {None} \union DOMAIN disk, Begin(c, name, source, parent)
  PROVE  IntakeInv'
  <1> USE IntakeAssumption
  <1> DEFINE new == [status |-> "pending", name |-> name, raw |-> None, version |-> None]
             r == [pc |-> "enter", name |-> name, source |-> source, parent |-> parent,
                   receipt |-> Len(receipts'), raw |-> None, seen |-> None,
                   version |-> None, named |-> None]
  <1>1. /\ receipts \in Seq(Receipts) /\ new \in Receipts /\ disk \in Seq(Snapshots)
        /\ \A i \in DOMAIN receipts : ReceiptTrue(receipts[i])
        /\ new.status = "pending" /\ new.raw = None /\ new.version = None /\ new.name = name
    BY DEF IntakeInv, TypeOK, Receipts
  <1> HIDE DEF new
  <1>2. receipts' = Append(receipts, new) /\ call' = [call EXCEPT ![c] = r]
    BY DEF Begin, new
  <1>3. /\ receipts' \in Seq(Receipts) /\ Len(receipts') = Len(receipts) + 1 /\ Len(receipts) \in Nat
        /\ receipts'[Len(receipts')] = new /\ \A i \in DOMAIN receipts : receipts'[i] = receipts[i]
        /\ DOMAIN receipts = 1..Len(receipts) /\ DOMAIN receipts' = 1..(Len(receipts) + 1)
    BY <1>1, <1>2
  <1>4. r \in Imports
    BY <1>1, <1>3 DEF Imports, Steps
  <1>5. /\ r.pc = "enter" /\ r.receipt = Len(receipts') /\ r.raw = None /\ r.name = name /\ r.named = None
    OBVIOUS
  <1> HIDE DEF r
  <1>6. DOMAIN call' = Callers /\ call'[c] = r /\ \A q \in Callers \ {c} : call'[q] = call[q]
    BY <1>2 DEF IntakeInv, TypeOK
  <1>7. ~Importing(c) /\ UNCHANGED <<raw, disk, catalog, lock>>
    BY DEF Begin, At, Importing, Steps
  <1>8. CallSound(c)'
    BY <1>1, <1>3, <1>5, <1>6
    DEF CallSound, OwnReceipt, OwnVersion, Receipt, WillName, At, Inside, Importing, Steps
  <1>9. \A q \in Callers \ {c} : Importing(q) => call'[c].receipt # call[q].receipt
    BY <1>3, <1>5, <1>6 DEF IntakeInv, CallSound, OwnReceipt
  <1>10. \A i \in DOMAIN receipts' : ReceiptTrue(receipts[i])'
    BY <1>1, <1>3, <1>7 DEF ReceiptTrue, Published
  <1>11. \A i \in DOMAIN receipts, n \in Names, v \in Nat : Covers(i, n, v) => Covers(i, n, v)'
    BY <1>3, <1>5, <1>6, <1>7, OthersCover
  <1> QED BY <1>3, <1>4, <1>6, <1>7, <1>8, <1>9, <1>10, <1>11, WritesOn DEF Importing

\* What writing a receipt does.
LEMMA ReceiptWritten ==
  ASSUME IntakeInv, NEW c \in Callers, Importing(c), NEW receipt \in Receipts, WriteReceipt(c, receipt)
  PROVE  /\ receipts' \in Seq(Receipts) /\ DOMAIN receipts' = DOMAIN receipts
         /\ call[c].receipt \in DOMAIN receipts /\ receipts'[call[c].receipt] = receipt
         /\ \A i \in DOMAIN receipts : i # call[c].receipt => receipts'[i] = receipts[i]
         /\ Receipt(c) \in Receipts
  BY CallOf DEF WriteReceipt, TypeOK, CallSound, OwnReceipt, Receipt

LEMMA NoteRawStep ==
  ASSUME IntakeInv, NEW c \in Callers, NoteRaw(c) PROVE IntakeInv'
  <1>1. Importing(c) /\ At(c, "note") /\ UNCHANGED <<raw, disk, catalog, lock>>
    BY DEF NoteRaw, At, Importing, Steps
  <1>2. CASE Fault(c) /\ UNCHANGED receipts
    BY <1>1, <1>2, FaultStep DEF Fault, At
  <1>3. CASE WriteReceipt(c, [Receipt(c) EXCEPT !.raw = call[c].raw]) /\ Goto(c, "judge")
    <2> DEFINE own == call[c].receipt
               w == [Receipt(c) EXCEPT !.raw = call[c].raw]
               r == [call[c] EXCEPT !.pc = "judge"]
    <2>1. call[c] \in Imports /\ CallSound(c) /\ TypeOK
      BY <1>1, CallOf
    <2>2. Receipt(c) \in Receipts /\ Receipt(c) = receipts[own] /\ own \in DOMAIN receipts
      BY <1>1, <2>1 DEF CallSound, OwnReceipt, Receipt, TypeOK
    <2>3. /\ w \in Receipts /\ w.raw = call[c].raw /\ w.status = receipts[own].status
          /\ w.name = receipts[own].name /\ w.version = receipts[own].version
      BY <2>1, <2>2 DEF Receipts, Imports
    <2>4. call' = [call EXCEPT ![c] = r]
      BY <1>3 DEF Goto
    <2>5. /\ r \in Imports /\ r.pc = "judge" /\ r.receipt = own /\ r.raw = call[c].raw
          /\ r.name = call[c].name /\ r.named = call[c].named
      BY <2>1 DEF Imports, Steps
    <2>6. WriteReceipt(c, w)
      BY <1>3
    <2> HIDE DEF r, w
    <2>7. DOMAIN call' = Callers /\ call'[c] = r /\ \A q \in Callers \ {c} : call'[q] = call[q]
      BY <2>4 DEF IntakeInv, TypeOK
    <2>8. /\ receipts' \in Seq(Receipts) /\ DOMAIN receipts' = DOMAIN receipts /\ receipts'[own] = w
          /\ \A i \in DOMAIN receipts : i # own => receipts'[i] = receipts[i]
      BY <1>1, <2>3, <2>6, ReceiptWritten
    <2>9. CallSound(c)'
      BY <1>1, <2>1, <2>2, <2>3, <2>5, <2>7, <2>8
      DEF CallSound, OwnReceipt, OwnVersion, Receipt, WillName, At, Inside, Importing, Steps
    <2>10. \A q \in Callers \ {c} : Importing(q) => call'[c].receipt # call[q].receipt
      BY <1>1, <2>5, <2>7 DEF IntakeInv, ReceiptsDiffer
    <2>11. \A i \in DOMAIN receipts' : ReceiptTrue(receipts[i])'
      <3>1. \A i \in DOMAIN receipts : ReceiptTrue(receipts[i])
        BY DEF IntakeInv
      <3>2. receipts[own].version = None
        BY <1>1, <2>1 DEF CallSound, OwnReceipt, Receipt
      <3>3. w.raw # None => w.raw \in raw
        BY <1>1, <2>1, <2>3 DEF CallSound
      <3> QED BY <1>1, <2>2, <2>3, <2>8, <3>1, <3>2, <3>3 DEF ReceiptTrue, Published
    <2>12. ASSUME NEW i \in DOMAIN receipts, NEW n \in Names, NEW v \in Nat, Covers(i, n, v)
           PROVE  Covers(i, n, v)'
      <3>1. CASE i = own
        BY <1>1, <2>2, <2>3, <2>8, <2>12, <3>1 DEF Covers, WillName, At
      <3>2. CASE i # own
        BY <1>1, <2>5, <2>7, <2>8, <2>12, <3>2, OthersCover
      <3> QED BY <3>1, <3>2
    <2> QED BY <1>1, <2>5, <2>7, <2>8, <2>9, <2>10, <2>11, <2>12, WritesOn
  <1> QED BY <1>2, <1>3 DEF NoteRaw

LEMMA PublishStep ==
  ASSUME IntakeInv, NEW c \in Callers, Publish(c) PROVE IntakeInv'
  <1> USE IntakeAssumption
  <1>1. /\ Importing(c) /\ Inside(c) /\ At(c, "publish") /\ lock = c
        /\ UNCHANGED <<raw, receipts, catalog, lock>>
    BY CallOf DEF Publish, At, Importing, Inside, Steps, CallSound
  <1>2. CASE Fault(c) /\ UNCHANGED disk
    BY <1>1, <1>2, FaultStep DEF Fault, At
  <1>3. CASE /\ disk' = Append(disk, Version(c))
             /\ call' = [call EXCEPT ![c].pc = "list", ![c].version = Len(disk')]
    <2> DEFINE s == Version(c)
               r == [call[c] EXCEPT !.pc = "list", !.version = Len(disk')]
    <2>1. /\ call[c] \in Imports /\ CallSound(c) /\ TypeOK /\ call[c].raw \in Sources
          /\ call[c].name \in Names /\ call[c].seen = catalog
      BY <1>1, CallOf DEF CallSound, OwnVersion, At, Imports, TypeOK
    <2>2. Parent(c) = catalog[call[c].name].latest /\ Parent(c) \in Nat \union {None}
      BY <1>1, <2>1 DEF Parent, CallSound, OwnVersion, TypeOK, Catalogs, Imports, At
    <2>3. Status(call[c].raw.contract, call[c].raw.rows) \in {"ready", "blocked"}
      BY DEF Status
    <2>4. /\ s \in Snapshots /\ s.name = call[c].name /\ s.source = call[c].raw
          /\ s.parent = catalog[call[c].name].latest
      BY <2>1, <2>2, <2>3 DEF Version, Snapshots
    <2> HIDE DEF s
    <2>5. /\ disk' \in Seq(Snapshots) /\ Len(disk') = Len(disk) + 1 /\ Len(disk) \in Nat
          /\ disk'[Len(disk')] = s /\ \A v \in DOMAIN disk : disk'[v] = disk[v]
          /\ DOMAIN disk = 1..Len(disk) /\ DOMAIN disk' = 1..(Len(disk) + 1)
      BY <1>3, <2>1, <2>4 DEF TypeOK, s
    <2>6. DOMAIN call' = Callers /\ call'[c] = r /\ \A q \in Callers \ {c} : call'[q] = call[q]
      BY <1>3 DEF IntakeInv, TypeOK
    <2>7. /\ r \in Imports /\ r.pc = "list" /\ r.receipt = call[c].receipt /\ r.raw = call[c].raw
          /\ r.name = call[c].name /\ r.named = call[c].named /\ r.seen = catalog
          /\ r.version = Len(disk) + 1
      <3>1. PICK k \in Nat : k = Len(disk') /\ k = Len(disk) + 1
        BY <2>5
      <3>2. r = [call[c] EXCEPT !.pc = "list", !.version = k]
        BY <3>1
      <3> HIDE DEF r
      <3> QED BY <2>1, <3>1, <3>2 DEF Imports, Steps
    <2> HIDE DEF r
    <2>8. CallSound(c)'
      <3>1. OwnReceipt(c)'
        BY <1>1, <2>1, <2>6, <2>7 DEF CallSound, OwnReceipt, Receipt, At
      <3>2. \A n \in Names : Len(disk) + 1 \notin Published(n)'
        BY <1>1, <2>5, ListedOnDisk DEF Published
      <3>3. OwnVersion(c)'
        BY <1>1, <2>4, <2>5, <2>6, <2>7, <3>2 DEF OwnVersion, At, Published
      <3> QED BY <1>1, <2>1, <2>6, <2>7, <3>1, <3>3 DEF CallSound, WillName, At, Inside,
          Importing, Steps
    <2>9. \A q \in Callers \ {c} : CallSound(q)'
      BY <1>1, <2>5, <2>6, OthersSound, ListedOnDisk DEF Published
    <2>10. TypeOK' /\ ReceiptsDiffer'
      <3>1. \A q \in Callers : Importing(q)' => call'[q] \in Imports
        BY <2>1, <2>6, <2>7 DEF TypeOK, Importing
      <3>2. TypeOK'
        BY <1>1, <2>1, <2>5, <2>6, <3>1 DEF TypeOK
      <3>3. ReceiptsDiffer'
        BY <1>1, <2>6, <2>7 DEF Importing, IntakeInv, ReceiptsDiffer
      <3> QED BY <3>2, <3>3
    <2>11. \A i \in DOMAIN receipts' : ReceiptTrue(receipts[i])'
      <3>1. \A i \in DOMAIN receipts : receipts[i] \in Receipts
        BY <2>1 DEF TypeOK
      <3>2. \A i \in DOMAIN receipts : receipts[i].name \in Names
        BY <3>1 DEF Receipts
      <3>3. \A i \in DOMAIN receipts : ReceiptTrue(receipts[i])
        BY DEF IntakeInv
      <3> QED BY <1>1, <2>5, <3>2, <3>3, ListedOnDisk DEF ReceiptTrue, Published
    <2>12. ASSUME NEW i \in DOMAIN receipts, NEW n \in Names, NEW v \in Published(n), Covers(i, n, v)
           PROVE  Covers(i, n, v)'
      <3>1. v \in Nat /\ disk'[v] = disk[v]
        BY <2>5, ListedOnDisk
      <3>2. i # call[c].receipt
        BY <1>1, <2>1, <2>12, <3>1 DEF Covers, CallSound, OwnReceipt, Receipt, WillName, At
      <3> QED BY <1>1, <2>6, <2>7, <2>12, <3>1, <3>2, OthersCover
    <2>13. \A n \in Names : \A v \in Published(n)' : \E i \in DOMAIN receipts' : Covers(i, n, v)'
      BY <1>1, <2>12 DEF IntakeInv, Published
    <2>14. OneLineOfVersions'
      BY <1>1, <2>1, <2>5, OneLineStays DEF IntakeInv
    <2> QED BY <2>6, <2>8, <2>9, <2>10, <2>11, <2>13, <2>14 DEF IntakeInv
  <1> QED BY <1>2, <1>3 DEF Publish

LEMMA SucceedStep ==
  ASSUME IntakeInv, NEW c \in Callers, Succeed(c) PROVE IntakeInv'
  <1> USE IntakeAssumption
  <1> DEFINE own == call[c].receipt
             v0 == call[c].version
  <1>1. /\ Importing(c) /\ Inside(c) /\ At(c, "succeed") /\ lock = c
        /\ UNCHANGED <<raw, disk, catalog>>
    BY CallOf DEF Succeed, At, Importing, Inside, Steps, CallSound
  <1>2. /\ call[c] \in Imports /\ CallSound(c) /\ TypeOK /\ v0 \in Nat
        /\ v0 \in Published(call[c].name) /\ disk[v0].source = call[c].raw
        /\ call[c].raw # None /\ call[c].raw \in raw
    <2>1. call[c] \in Imports /\ CallSound(c) /\ TypeOK /\ v0 \in Nat
      BY <1>1, CallOf DEF CallSound, Imports
    <2> QED BY <1>1, <2>1 DEF CallSound, WillName, At
  <1>3. /\ Receipt(c) \in Receipts /\ Receipt(c) = receipts[own] /\ own \in DOMAIN receipts
        /\ receipts[own].raw = call[c].raw /\ receipts[own].name = call[c].name
        /\ receipts[own].version = None
    BY <1>1, <1>2 DEF CallSound, OwnReceipt, Receipt, TypeOK, At
  <1>4. CASE /\ WriteReceipt(c, [Receipt(c) EXCEPT !.status = "succeeded", !.version = call[c].version])
             /\ call' = [call EXCEPT ![c] = Idle] /\ lock' = None
    <2> DEFINE w == [Receipt(c) EXCEPT !.status = "succeeded", !.version = call[c].version]
    <2>1. w \in Receipts /\ w.raw = call[c].raw /\ w.name = call[c].name /\ w.version = v0
      BY <1>2, <1>3 DEF Receipts
    <2>2. WriteReceipt(c, w)
      BY <1>4
    <2> HIDE DEF w
    <2>3. /\ receipts' \in Seq(Receipts) /\ DOMAIN receipts' = DOMAIN receipts /\ receipts'[own] = w
          /\ \A i \in DOMAIN receipts : i # own => receipts'[i] = receipts[i]
      BY <1>1, <2>1, <2>2, ReceiptWritten
    <2>4. /\ DOMAIN call' = Callers /\ ~Importing(c)'
          /\ \A q \in Callers \ {c} : call'[q] = call[q]
      BY <1>4 DEF IntakeInv, TypeOK, Importing, Idle, Steps
    <2>5. \A i \in DOMAIN receipts' : ReceiptTrue(receipts[i])'
      <3>1. \A i \in DOMAIN receipts : ReceiptTrue(receipts[i])
        BY DEF IntakeInv
      <3> QED BY <1>1, <1>2, <2>1, <2>3, <3>1 DEF ReceiptTrue, Published
    <2>6. ASSUME NEW i \in DOMAIN receipts, NEW n \in Names, NEW v \in Nat, Covers(i, n, v)
          PROVE  Covers(i, n, v)'
      <3>1. CASE i = own
        BY <1>1, <1>3, <2>1, <2>3, <2>6, <3>1 DEF Covers, WillName, At
      <3>2. CASE i # own
        BY <1>1, <2>3, <2>4, <2>6, <3>2, OthersCover
      <3> QED BY <3>1, <3>2
    <2> QED BY <1>1, <2>3, <2>4, <2>5, <2>6, SoundIdle, WritesOn
  <1>5. CASE /\ call' = [call EXCEPT ![c].pc = "fail", ![c].named = call[c].version]
             /\ UNCHANGED <<receipts, lock>>
    <2> DEFINE r == [call[c] EXCEPT !.pc = "fail", !.named = call[c].version]
    <2>1. DOMAIN call' = Callers /\ call'[c] = r /\ \A q \in Callers \ {c} : call'[q] = call[q]
      BY <1>5 DEF IntakeInv, TypeOK
    <2>2. /\ r \in Imports /\ r.pc = "fail" /\ r.receipt = own /\ r.raw = call[c].raw
          /\ r.name = call[c].name /\ r.named = v0
      BY <1>2 DEF Imports, Steps
    <2> HIDE DEF r
    <2>3. CallSound(c)'
      BY <1>1, <1>2, <1>5, <2>1, <2>2
      DEF CallSound, OwnReceipt, OwnVersion, Receipt, WillName, At, Inside, Importing, Steps, Published
    <2>4. \A v \in Nat : WillName(c, v) => WillName(c, v)'
      BY <1>1, <2>1, <2>2 DEF WillName, At
    <2> QED BY <1>1, <1>2, <1>5, <2>1, <2>2, <2>3, <2>4, StepsOn DEF TypeOK
  <1> QED BY <1>4, <1>5 DEF Succeed

LEMMA FailStep ==
  ASSUME IntakeInv, NEW c \in Callers, Fail(c) PROVE IntakeInv'
  <1> USE IntakeAssumption
  <1> DEFINE own == call[c].receipt
             v0 == call[c].named
  <1>1. /\ Importing(c) /\ At(c, "fail") /\ call' = [call EXCEPT ![c] = Idle]
        /\ UNCHANGED <<raw, disk, catalog, lock>>
    BY DEF Fail, At, Importing, Steps
  <1>2. CASE UNCHANGED receipts
    BY <1>1, <1>2, Outside DEF Idle, Steps
  <1>3. CASE WriteReceipt(c, [Receipt(c) EXCEPT !.status = "failed", !.raw = call[c].raw,
                                                !.version = Named(c)])
    <2> DEFINE w == [Receipt(c) EXCEPT !.status = "failed", !.raw = call[c].raw, !.version = Named(c)]
    <2>1. /\ call[c] \in Imports /\ CallSound(c) /\ TypeOK /\ v0 \in Nat \union {None}
          /\ Receipt(c) \in Receipts /\ Receipt(c) = receipts[own] /\ own \in DOMAIN receipts
          /\ receipts[own].name = call[c].name /\ receipts[own].version = None
      BY <1>1, CallOf DEF CallSound, OwnReceipt, Receipt, TypeOK, Imports
    <2>2. /\ w \in Receipts /\ w.raw = call[c].raw /\ w.name = call[c].name /\ w.version = v0
          /\ w.status = "failed"
      BY <2>1 DEF Receipts, Imports, Named
    <2>3. WriteReceipt(c, w)
      BY <1>3
    <2> HIDE DEF w
    <2>4. /\ receipts' \in Seq(Receipts) /\ DOMAIN receipts' = DOMAIN receipts /\ receipts'[own] = w
          /\ \A i \in DOMAIN receipts : i # own => receipts'[i] = receipts[i]
      BY <1>1, <2>2, <2>3, ReceiptWritten
    <2>5. /\ DOMAIN call' = Callers /\ ~Importing(c)'
          /\ \A q \in Callers \ {c} : call'[q] = call[q]
      BY <1>1 DEF IntakeInv, TypeOK, Importing, Idle, Steps
    <2>6. /\ v0 # None => v0 \in Published(call[c].name) /\ disk[v0].source = call[c].raw
          /\ call[c].raw # None => call[c].raw \in raw
      BY <1>1, <2>1 DEF CallSound, WillName, At
    <2>7. \A i \in DOMAIN receipts' : ReceiptTrue(receipts[i])'
      <3>1. \A i \in DOMAIN receipts : ReceiptTrue(receipts[i])
        BY DEF IntakeInv
      <3> QED BY <1>1, <2>2, <2>4, <2>6, <3>1 DEF ReceiptTrue, Published
    <2>8. ASSUME NEW i \in DOMAIN receipts, NEW n \in Names, NEW v \in Nat, Covers(i, n, v)
          PROVE  Covers(i, n, v)'
      <3>1. CASE i = own
        BY <1>1, <2>1, <2>2, <2>4, <2>8, <3>1 DEF Covers, WillName, At
      <3>2. CASE i # own
        BY <1>1, <2>4, <2>5, <2>8, <3>2, OthersCover
      <3> QED BY <3>1, <3>2
    <2> QED BY <1>1, <2>4, <2>5, <2>7, <2>8, SoundIdle, WritesOn
  <1> QED BY <1>2, <1>3 DEF Fail

LEMMA MaxIsTop ==
  ASSUME NEW S \in SUBSET Int, NEW top \in S, \A i \in S : i <= top PROVE Max(S) = top
  <1>1. Max(S) \in S /\ \A y \in S : Max(S) >= y
    BY DEF Max
  <1>2. PICK m \in Int : m = Max(S)
    BY <1>1
  <1>3. m >= top /\ m <= top
    BY <1>1, <1>2
  <1> QED BY <1>2, <1>3

\* A set of positions has a last one.
LEMMA MaxInside ==
  ASSUME NEW k \in Nat, NEW S \in SUBSET (1..k), S # {} PROVE Max(S) \in S
  <1> DEFINE T == {k - i : i \in S}
  <1>1. T \subseteq Nat /\ T # {}
    <2>1. T \subseteq Nat
      OBVIOUS
    <2>2. PICK i \in S : TRUE
      OBVIOUS
    <2>3. k - i \in T
      OBVIOUS
    <2> QED BY <2>1, <2>3
  <1>2. PICK x \in T : \A y \in T : <<y, x>> \notin OpToRel(<, Nat)
    BY <1>1, WFMin, NatLessThanWellFounded
  <1>3. \A y \in T : ~(y < x)
    BY <1>1, <1>2 DEF OpToRel
  <1>4. \E m \in S : \A i \in S : m >= i
    BY <1>3
  <1> QED BY <1>4 DEF Max

\* A version that was judged against the latest one extends the line.
LEMMA LineExtended ==
  ASSUME OneLineOfVersions, TypeOK, UNCHANGED disk, catalog' \in Catalogs,
         NEW n \in Names, NEW v \in DOMAIN disk, v \notin Published(n),
         disk[v].name = n, disk[v].parent = catalog[n].latest,
         catalog'[n] = [latest |-> Latest(v, catalog[n].latest),
                        versions |-> Append(catalog[n].versions, v)],
         \A m \in Names \ {n} : catalog'[m] = catalog[m]
  PROVE  OneLineOfVersions'
  <1> DEFINE old == catalog[n].versions
             new == catalog'[n].versions
  <1>0. old \in Seq(Nat) /\ disk \in Seq(Snapshots)
    BY DEF TypeOK, Catalogs
  <1>1. PICK N \in Nat : N = Len(old) /\ DOMAIN old = 1..N
    BY <1>0
  <1>2. new = Append(old, v) /\ catalog'[n].latest = Latest(v, catalog[n].latest)
    OBVIOUS
  <1>3. /\ Len(new) = N + 1 /\ DOMAIN new = 1..(N + 1) /\ new[N + 1] = v
        /\ \A i \in 1..N : new[i] = old[i]
    BY <1>0, <1>1, <1>2
  <1>4. \A i \in 1..N : old[i] \in DOMAIN disk /\ old[i] # v
    BY <1>0, <1>1 DEF OneLineOfVersions, OneLine, Published, Range
  <1>5. ASSUME NEW k \in 0..N PROVE LastReady(n, k)' = LastReady(n, k)
    <2> DEFINE ready == {i \in 1..k : disk[old[i]].status = "ready"}
    <2>1. \A i \in 1..k : new[i] = old[i]
      BY <1>1, <1>3
    <2>2. {i \in 1..k : disk'[new[i]].status = "ready"} = ready
      BY <2>1
    <2>3. ready = {} \/ Max(ready) \in 1..k
      <3>1. ready \in SUBSET (1..k) /\ k \in Nat
        BY <1>1
      <3> QED BY <3>1, MaxInside
    <2> HIDE DEF ready
    <2> QED BY <2>1, <2>2, <2>3 DEF LastReady, ready
  <1>6. \A m \in Names \ {n} : \A k : LastReady(m, k)' = LastReady(m, k)
    BY ZenonT(40) DEF LastReady
  <1>7. LastReady(n, N + 1)' = Latest(v, LastReady(n, N))
    <2> DEFINE ready == {i \in 1..(N + 1) : disk[new[i]].status = "ready"}
    <2>1. CASE disk[v].status = "ready"
      <3>1. N + 1 \in ready /\ ready \in SUBSET Int /\ \A i \in ready : i <= N + 1
        BY <1>1, <1>3, <2>1
      <3>2. Max(ready) = N + 1 /\ ready # {}
        BY <1>1, <3>1, MaxIsTop
      <3> HIDE DEF ready
      <3> QED BY <1>3, <2>1, <3>2 DEF LastReady, Latest, ready
    <2>2. CASE disk[v].status # "ready"
      <3>1. ready = {i \in 1..N : disk[new[i]].status = "ready"}
        BY <1>1, <1>3, <2>2
      <3>2. LastReady(n, N + 1)' = LastReady(n, N)'
        BY <3>1 DEF LastReady
      <3> QED BY <1>1, <1>5, <2>2, <3>2 DEF Latest
    <2> QED BY <2>1, <2>2
  <1>8. IsInjective(new)
    BY <1>1, <1>3, <1>4 DEF OneLineOfVersions, OneLine, IsInjective
  <1>9. ASSUME NEW i \in DOMAIN new
        PROVE  new[i] \in DOMAIN disk /\ disk[new[i]].name = n /\ disk[new[i]].parent = LastReady(n, i - 1)'
    <2>1. CASE i \in 1..N
      BY <1>1, <1>3, <1>5, <2>1 DEF OneLineOfVersions, OneLine
    <2>2. CASE i = N + 1
      BY <1>1, <1>3, <1>5, <2>2 DEF OneLineOfVersions, OneLine
    <2> QED BY <1>1, <1>3, <1>9, <2>1, <2>2
  <1>10. catalog'[n].latest = LastReady(n, N + 1)'
    BY <1>1, <1>2, <1>7 DEF OneLineOfVersions, OneLine
  <1>11. OneLine(n)'
    BY <1>3, <1>8, <1>9, <1>10 DEF OneLine
  <1>12. ASSUME NEW m \in Names, m # n PROVE OneLine(m)'
    BY <1>6, <1>12 DEF OneLineOfVersions, OneLine
  <1> QED BY <1>11, <1>12 DEF OneLineOfVersions

LEMMA RangeOfAppend ==
  ASSUME NEW s \in Seq(Nat), NEW x \in Nat PROVE Range(Append(s, x)) = Range(s) \union {x}
  <1> DEFINE t == Append(s, x)
  <1>1. /\ Len(s) \in Nat /\ DOMAIN s = 1..Len(s) /\ DOMAIN t = 1..(Len(s) + 1)
        /\ t[Len(s) + 1] = x /\ \A i \in 1..Len(s) : t[i] = s[i]
    OBVIOUS
  <1> HIDE DEF t
  <1>2. Range(t) = Range(s) \union {x}
    BY <1>1 DEF Range
  <1> QED BY <1>2 DEF t

LEMMA ListStep ==
  ASSUME IntakeInv, NEW c \in Callers, List(c) PROVE IntakeInv'
  <1> USE IntakeAssumption
  <1>1. /\ Importing(c) /\ Inside(c) /\ At(c, "list") /\ lock = c
        /\ UNCHANGED <<raw, receipts, disk, lock>>
    BY CallOf DEF List, At, Importing, Inside, Steps, CallSound
  <1>2. CASE Fault(c) /\ UNCHANGED catalog
    BY <1>1, <1>2, FaultStep DEF Fault, At
  <1>3. CASE catalog' = Listed(c) /\ Goto(c, "succeed")
    <2> DEFINE r == [call[c] EXCEPT !.pc = "succeed"]
               own == call[c].receipt
    <2>1. PICK n \in Names, v \in DOMAIN disk :
            /\ n = call[c].name /\ v = call[c].version /\ \A m \in Names : v \notin Published(m)
            /\ disk[v].name = n /\ disk[v].parent = catalog[n].latest /\ disk[v].source = call[c].raw
            /\ call[c].seen = catalog
      BY <1>1, CallOf DEF CallSound, OwnVersion, At, Imports
    <2>2. /\ call[c] \in Imports /\ CallSound(c) /\ TypeOK /\ catalog \in Catalogs /\ v \in Nat
      BY <1>1, CallOf DEF TypeOK
    <2>3. /\ catalog'[n] = [latest |-> Latest(v, catalog[n].latest),
                            versions |-> Append(catalog[n].versions, v)]
          /\ \A m \in Names \ {n} : catalog'[m] = catalog[m]
      BY <1>3, <2>1, <2>2 DEF Listed, Catalogs
    <2>4. /\ catalog[n].latest \in Nat \union {None} /\ catalog[n].versions \in Seq(Nat)
          /\ Latest(v, catalog[n].latest) \in Nat \union {None}
      BY <2>2 DEF Catalogs, Latest
    <2>5. catalog' \in Catalogs
      <3>1. catalog'[n] \in [latest : Nat \union {None}, versions : Seq(Nat)]
        BY <2>2, <2>3, <2>4
      <3>2. catalog' = [catalog EXCEPT ![n] = catalog'[n]]
        BY <1>3, <2>1, <2>2 DEF Listed, Catalogs
      <3> QED BY <2>2, <3>1, <3>2 DEF Catalogs
    <2>6. OneLineOfVersions'
      BY <1>1, <2>1, <2>2, <2>3, <2>5, LineExtended DEF IntakeInv
    <2>7. \A m \in Names : Published(m)' = Published(m) \union (IF m = n THEN {v} ELSE {})
      <3>1. Range(Append(catalog[n].versions, v)) = Range(catalog[n].versions) \union {v}
        BY <2>2, <2>4, RangeOfAppend
      <3>2. catalog'[n].versions = Append(catalog[n].versions, v)
        BY <2>3
      <3>3. Published(n)' = Published(n) \union {v}
        BY <3>1, <3>2 DEF Published
      <3>4. \A m \in Names \ {n} : Published(m)' = Published(m)
        BY <2>3 DEF Published
      <3> QED BY <3>3, <3>4
    <2>8. call' = [call EXCEPT ![c] = r]
      BY <1>3 DEF Goto
    <2>9. /\ r \in Imports /\ r.pc = "succeed" /\ r.receipt = own /\ r.raw = call[c].raw
          /\ r.name = n /\ r.named = call[c].named /\ r.version = v
      BY <2>1, <2>2 DEF Imports, Steps
    <2> HIDE DEF r
    <2>10. DOMAIN call' = Callers /\ call'[c] = r /\ \A q \in Callers \ {c} : call'[q] = call[q]
      BY <2>8 DEF IntakeInv, TypeOK
    <2>11. CallSound(c)'
      BY <1>1, <2>1, <2>2, <2>7, <2>9, <2>10
      DEF CallSound, OwnReceipt, OwnVersion, Receipt, WillName, At, Inside, Importing, Steps
    <2>12. \A q \in Callers \ {c} : CallSound(q)'
      BY <1>1, <2>7, <2>10, OthersSound, ListedOnDisk
    <2>13. TypeOK' /\ ReceiptsDiffer'
      <3>1. \A q \in Callers : Importing(q)' => call'[q] \in Imports
        BY <2>2, <2>9, <2>10 DEF TypeOK, Importing
      <3>2. TypeOK'
        BY <1>1, <2>2, <2>5, <2>10, <3>1 DEF TypeOK
      <3>3. ReceiptsDiffer'
        BY <1>1, <2>9, <2>10 DEF Importing, IntakeInv, ReceiptsDiffer
      <3> QED BY <3>2, <3>3
    <2>14. \A i \in DOMAIN receipts' : ReceiptTrue(receipts[i])'
      <3>1. \A i \in DOMAIN receipts : receipts[i] \in Receipts
        BY <2>2 DEF TypeOK
      <3>2. \A i \in DOMAIN receipts : receipts[i].name \in Names
        BY <3>1 DEF Receipts
      <3>3. \A i \in DOMAIN receipts : ReceiptTrue(receipts[i])
        BY DEF IntakeInv
      <3> QED BY <1>1, <2>7, <3>2, <3>3 DEF ReceiptTrue
    <2>15. \E i \in DOMAIN receipts : Covers(i, n, v)'
      <3>1. PICK i \in DOMAIN receipts :
              /\ i = own /\ receipts[i].status = "pending" /\ receipts[i].name = n
              /\ receipts[i].raw = disk[v].source
        BY <1>1, <2>1, <2>2 DEF CallSound, OwnReceipt, Receipt, At
      <3>2. ASSUME NEW q \in Callers, Importing(q)', call'[q].receipt = i PROVE q = c
        BY <1>1, <2>10, <3>1, <3>2 DEF IntakeInv, ReceiptsDiffer, Importing
      <3>3. WillName(c, v)'
        BY <2>9, <2>10 DEF WillName, At
      <3> QED BY <1>1, <3>1, <3>2, <3>3 DEF Covers
    <2>16. ASSUME NEW i \in DOMAIN receipts, NEW m \in Names, NEW u \in Published(m), Covers(i, m, u)
           PROVE  Covers(i, m, u)'
      <3>1. u \in Nat
        BY ListedOnDisk
      <3>2. i # own
        BY <1>1, <2>2, <2>16, <3>1 DEF Covers, CallSound, OwnReceipt, Receipt, WillName, At
      <3> QED BY <1>1, <2>9, <2>10, <2>16, <3>1, <3>2, OthersCover
    <2>17. \A m \in Names : \A u \in Published(m)' : \E i \in DOMAIN receipts' : Covers(i, m, u)'
      <3>1. ASSUME NEW m \in Names, NEW u \in Published(m) PROVE \E i \in DOMAIN receipts : Covers(i, m, u)'
        BY <2>16 DEF IntakeInv
      <3> QED BY <1>1, <2>7, <2>15, <3>1
    <2> QED BY <2>6, <2>10, <2>11, <2>12, <2>13, <2>14, <2>17 DEF IntakeInv
  <1> QED BY <1>2, <1>3 DEF List
-----------------------------------------------------------------------------
LEMMA StutterStep == ASSUME IntakeInv, UNCHANGED vars PROVE IntakeInv'
  <1>1. UNCHANGED <<raw, receipts, disk, catalog, lock, call>>
    BY DEF vars
  <1>2. \A c \in Callers : CallSound(c)' = CallSound(c)
    BY <1>1 DEF CallSound, OwnReceipt, OwnVersion, Receipt, WillName, At, Inside, Importing,
       Published
  <1>3. TypeOK' /\ ReceiptsDiffer'
    BY <1>1 DEF IntakeInv, TypeOK, ReceiptsDiffer, Importing
  <1>4. \A i \in DOMAIN receipts' : ReceiptTrue(receipts[i])'
    BY <1>1 DEF IntakeInv, ReceiptTrue, Published
  <1>5. \A n \in Names : \A v \in Published(n)' : \E i \in DOMAIN receipts' : Covers(i, n, v)'
    BY <1>1 DEF IntakeInv, Covers, Published, WillName, Importing, At
  <1>6. OneLineOfVersions'
    BY <1>1, OneLineStays DEF IntakeInv
  <1> QED BY <1>2, <1>3, <1>4, <1>5, <1>6 DEF IntakeInv

LEMMA NextStep == ASSUME IntakeInv, [Next]_vars PROVE IntakeInv'
  <1>1. ASSUME NEW c \in Callers, NEW name \in Names, NEW source \in Sources,
               NEW parent \in {None} \union DOMAIN disk, Begin(c, name, source, parent)
        PROVE  IntakeInv'
    BY <1>1, BeginStep
  <1>2. ASSUME NEW c \in Callers,
               \/ Enter(c) \/ CopyRaw(c) \/ NoteRaw(c) \/ Judge(c) \/ Publish(c) \/ List(c) \/ Succeed(c)
               \/ Leave(c) \/ Fail(c) \/ Crash(c)
        PROVE  IntakeInv'
    BY <1>2, EnterStep, CopyRawStep, NoteRawStep, JudgeStep, PublishStep, ListStep, SucceedStep,
       LeaveStep, FailStep, CrashStep
  <1>3. ASSUME NEW c \in Callers, (\E name \in Names : Resolve(c, name)) \/ Read(c) \/ Return(c)
        PROVE  IntakeInv'
    BY <1>3, ResolveStep, ReadStep, ReturnStep
  <1>4. CASE Quiet \/ UNCHANGED vars
    BY <1>4, StutterStep DEF Quiet
  <1> QED BY <1>1, <1>2, <1>3, <1>4 DEF Next

\* What each step of an import may rely on.
THEOREM IntakeInvariant == Spec => []IntakeInv
  <1>1. IntakeInv /\ [Next]_vars => IntakeInv'
    BY NextStep
  <1> QED BY StartHolds, <1>1, PTL DEF Spec

\* The ready versions of a dataset are one line, however imports overlap, fail and die:
\* the catalog is read, judged against and replaced under one hold of the lock
\* (import_dataset).
THEOREM OneLineOfVersionsHolds == Spec => []OneLineOfVersions
  <1>1. IntakeInv => OneLineOfVersions
    BY DEF IntakeInv
  <1> QED BY IntakeInvariant, <1>1, PTL

\* A receipt never names bytes that are not kept or a version that is not listed or was
\* made from other bytes, and a listed version is named by a receipt, or by one that is
\* still pending (import_dataset).
THEOREM ReceiptsAreTrueHolds == Spec => []ReceiptsAreTrue
  <1>1. IntakeInv => ReceiptsAreTrue
    BY DEF IntakeInv, ReceiptTrue, Covers, Published, ReceiptsAreTrue
  <1> QED BY IntakeInvariant, <1>1, PTL
-----------------------------------------------------------------------------
(***************************************************************************)
(* Readers.                                                                *)
(***************************************************************************)
\* A version says whether the scan of its bytes found an error.
Judged(v) == disk[v].status = Status(disk[v].source.contract, disk[v].source.rows)

\* A reader holds a version that is on disk, and was answered from it.
ReaderSound(c) ==
  /\ At(c, "read") => call[c].version \in DOMAIN disk /\ disk[call[c].version].name = call[c].name
  /\ At(c, "answered") => /\ call[c].version \in DOMAIN disk /\ call[c].query \in Queries
                          /\ call[c].answer = Answer(call[c].version, call[c].query)

ReadersInv == (\A v \in DOMAIN disk : Judged(v)) /\ \A c \in Callers : ReaderSound(c)

\* Versions are not taken back.
LEMMA DiskGrows ==
  ASSUME IntakeInv, [Next]_vars
  PROVE  /\ \A v \in DOMAIN disk : v \in DOMAIN disk' /\ disk'[v] = disk[v]
         /\ \A v \in DOMAIN disk' \ DOMAIN disk : \E c \in Callers : At(c, "publish") /\ disk'[v] = Version(c)
  <1>1. disk \in Seq(Snapshots)
    BY DEF IntakeInv, TypeOK
  <1>2. UNCHANGED disk \/ \E c \in Callers : At(c, "publish") /\ disk' = Append(disk, Version(c))
    BY DEF Next, Begin, Enter, CopyRaw, NoteRaw, Judge, Publish, List, Succeed, Leave, Fail,
       Crash,
           Resolve, Read, Return, Quiet, vars
  <1>3. ASSUME NEW s, disk' = Append(disk, s)
        PROVE  /\ \A v \in DOMAIN disk : v \in DOMAIN disk' /\ disk'[v] = disk[v]
               /\ \A v \in DOMAIN disk' \ DOMAIN disk : disk'[v] = s
    BY <1>1, <1>3
  <1> QED BY <1>2, <1>3

LEMMA NewVersionsJudged ==
  ASSUME IntakeInv, ReadersInv, [Next]_vars PROVE \A v \in DOMAIN disk' : Judged(v)'
  <1>1. ASSUME NEW v \in DOMAIN disk PROVE Judged(v)'
    BY <1>1, DiskGrows DEF ReadersInv, Judged
  <1>2. ASSUME NEW v \in DOMAIN disk' \ DOMAIN disk PROVE Judged(v)'
    <2>1. PICK c \in Callers : disk'[v] = Version(c)
      BY <1>2, DiskGrows
    <2>2. disk'[v].source = call[c].raw /\ disk'[v].status = Status(call[c].raw.contract, call[c].raw.rows)
      BY <2>1 DEF Version
    <2> QED BY <2>2 DEF Judged
  <1> QED BY <1>1, <1>2

\* A caller that does not become a reader by the step.
LEMMA NoReader ==
  ASSUME IntakeInv, ReadersInv, [Next]_vars, NEW c \in Callers,
         call'[c] = call[c] \/ call'[c].pc \notin {"read", "answered"}
  PROVE  ReaderSound(c)'
  <1>1. CASE call'[c].pc \notin {"read", "answered"}
    BY <1>1 DEF ReaderSound, At
  <1>2. CASE call'[c] = call[c]
    BY <1>2, DiskGrows DEF ReadersInv, ReaderSound, At, Answer
  <1> QED BY <1>1, <1>2

LEMMA ReadersNext == ASSUME IntakeInv, ReadersInv, [Next]_vars PROVE ReadersInv'
  <1>0. DOMAIN call = Callers /\ \A c \in Callers : Importing(c) => call[c] \in Imports
    BY DEF IntakeInv, TypeOK
  <1>1. ASSUME NEW c \in Callers, NEW r, call' = [call EXCEPT ![c] = r], ReaderSound(c)'
        PROVE  \A q \in Callers : ReaderSound(q)'
    BY <1>0, <1>1, NoReader
  <1>2. ASSUME NEW c \in Callers, NEW r, call' = [call EXCEPT ![c] = r], r.pc \notin {"read", "answered"}
        PROVE  \A q \in Callers : ReaderSound(q)'
    BY <1>0, <1>1, <1>2, NoReader
  <1>3. ASSUME UNCHANGED call PROVE \A q \in Callers : ReaderSound(q)'
    BY <1>3, NoReader
  <1>4. ASSUME NEW c \in Callers, NEW name \in Names, NEW source \in Sources,
               NEW parent \in {None} \union DOMAIN disk, Begin(c, name, source, parent)
        PROVE  \A q \in Callers : ReaderSound(q)'
    <2>1. PICK n : n = Len(receipts')
      OBVIOUS
    <2> DEFINE r == [pc |-> "enter", name |-> name, source |-> source, parent |-> parent, receipt |-> n,
                     raw |-> None, seen |-> None, version |-> None, named |-> None]
    <2>2. call' = [call EXCEPT ![c] = r] /\ r.pc = "enter"
      BY <1>4, <2>1 DEF Begin
    <2> QED BY <1>2, <2>2
  <1>5. ASSUME NEW c \in Callers,
               Enter(c) \/ CopyRaw(c) \/ NoteRaw(c) \/ Judge(c) \/ Publish(c) \/ List(c) \/ Succeed(c)
        PROVE  \A q \in Callers : ReaderSound(q)'
    <2>1. call[c] \in Imports
      BY <1>0, <1>5 DEF Importing, Steps, At, Enter, CopyRaw, NoteRaw, Judge, Publish, List,
         Succeed
    <2>2. ASSUME NEW pc \in Steps, NEW r, call' = [call EXCEPT ![c] = r], r.pc = pc
          PROVE  \A q \in Callers : ReaderSound(q)'
      BY <1>2, <2>2 DEF Steps
    <2>3. ASSUME NEW pc \in Steps, Goto(c, pc) PROVE \A q \in Callers : ReaderSound(q)'
      <3>1. call' = [call EXCEPT ![c] = [call[c] EXCEPT !.pc = pc]] /\ [call[c] EXCEPT !.pc = pc].pc = pc
        BY <2>1, <2>3 DEF Goto, Imports
      <3> QED BY <2>2, <3>1
    <2>4. CASE Enter(c)
      BY <2>3, <2>4 DEF Enter, Fault, Fails, Steps
    <2>5. CASE CopyRaw(c)
      <3>1. CASE call' = [call EXCEPT ![c].pc = "note", ![c].raw = call[c].source]
        <4> DEFINE r == [call[c] EXCEPT !.pc = "note", !.raw = call[c].source]
        <4>1. call' = [call EXCEPT ![c] = r] /\ r.pc = "note"
          BY <2>1, <3>1 DEF Imports
        <4> QED BY <2>2, <4>1 DEF Steps
      <3> QED BY <2>3, <2>5, <3>1 DEF CopyRaw, Fault, Fails, Steps
    <2>6. CASE NoteRaw(c)
      BY <2>3, <2>6 DEF NoteRaw, Fault, Fails, Steps
    <2>7. CASE Judge(c)
      <3>1. CASE call' = [call EXCEPT ![c].pc = "publish", ![c].seen = catalog]
        <4> DEFINE r == [call[c] EXCEPT !.pc = "publish", !.seen = catalog]
        <4>1. call' = [call EXCEPT ![c] = r] /\ r.pc = "publish"
          BY <2>1, <3>1 DEF Imports
        <4> QED BY <2>2, <4>1 DEF Steps
      <3> QED BY <2>3, <2>7, <3>1 DEF Judge, Fails, Steps
    <2>8. CASE Publish(c)
      <3>1. ASSUME NEW n, call' = [call EXCEPT ![c].pc = "list", ![c].version = n]
            PROVE  \A q \in Callers : ReaderSound(q)'
        <4> DEFINE r == [call[c] EXCEPT !.pc = "list", !.version = n]
        <4>1. call' = [call EXCEPT ![c] = r] /\ r.pc = "list"
          BY <2>1, <3>1 DEF Imports
        <4> QED BY <2>2, <4>1 DEF Steps
      <3> QED BY <2>3, <2>8, <3>1 DEF Publish, Fault, Fails, Steps
    <2>9. CASE List(c)
      BY <2>3, <2>9 DEF List, Fault, Fails, Steps
    <2>10. CASE Succeed(c)
      <3>1. CASE call' = [call EXCEPT ![c] = Idle]
        BY <1>2, <3>1 DEF Idle
      <3>2. CASE call' = [call EXCEPT ![c].pc = "fail", ![c].named = call[c].version]
        <4> DEFINE r == [call[c] EXCEPT !.pc = "fail", !.named = call[c].version]
        <4>1. call' = [call EXCEPT ![c] = r] /\ r.pc = "fail"
          BY <2>1, <3>2 DEF Imports
        <4> QED BY <2>2, <4>1 DEF Steps
      <3> QED BY <2>10, <3>1, <3>2 DEF Succeed
    <2> QED BY <1>5, <2>4, <2>5, <2>6, <2>7, <2>8, <2>9, <2>10
  <1>6. ASSUME NEW c \in Callers, Leave(c) \/ Fail(c) \/ Crash(c) \/ Return(c)
        PROVE  \A q \in Callers : ReaderSound(q)'
    BY <1>2, <1>3, <1>6 DEF Leave, Fail, Crash, Return, Idle
  <1>7. ASSUME NEW c \in Callers, NEW name \in Names, Resolve(c, name)
        PROVE  \A q \in Callers : ReaderSound(q)'
    <2>1. PICK v \in Published(name) : call' = [call EXCEPT ![c] = [pc |-> "read", name |-> name, version |-> v]]
      BY <1>7 DEF Resolve, Published
    <2>2. v \in DOMAIN disk /\ disk[v].name = name
      BY <2>1 DEF IntakeInv, OneLineOfVersions, OneLine, Published, Range
    <2>3. ReaderSound(c)'
      BY <1>0, <1>7, <2>1, <2>2 DEF ReaderSound, At, Resolve
    <2> QED BY <1>1, <2>1, <2>3
  <1>8. ASSUME NEW c \in Callers, Read(c) PROVE \A q \in Callers : ReaderSound(q)'
    <2>0. PICK query \in Queries :
            call' = [call EXCEPT ![c] = [pc |-> "answered", version |-> call[c].version,
                                         query |-> query, answer |-> Answer(call[c].version, query)]]
      BY <1>8 DEF Read
    <2>1. PICK v, a :
            /\ v = call[c].version /\ v \in DOMAIN disk /\ a = Answer(v, query)
            /\ call' = [call EXCEPT ![c] = [pc |-> "answered", version |-> v, query |-> query, answer |-> a]]
      BY <1>8, <2>0 DEF Read
    <2>2. UNCHANGED disk
      BY <1>8 DEF Read
    <2>3. ReaderSound(c)'
      BY <1>0, <2>1, <2>2 DEF ReaderSound, At, Answer
    <2> QED BY <1>1, <2>1, <2>3
  <1>9. \A q \in Callers : ReaderSound(q)'
    BY <1>3, <1>4, <1>5, <1>6, <1>7, <1>8 DEF Next, Quiet, vars
  <1> QED BY <1>9, NewVersionsJudged DEF ReadersInv

\* Where the scan found no error, whoever asks for everything is given every row.
LEMMA ReadyIsReadInFull ==
  ASSUME NEW contract, NEW rows, Status(contract, rows) = "ready"
  PROVE  /\ Allowed(contract, rows, Whole)
         /\ DOMAIN Delivered(contract, rows, Whole) = DOMAIN rows
  <1> DEFINE frame == Normalized(contract, rows)
  <1>1. ~HasErrors(Ledger(contract, rows))
    BY DEF Status
  <1>2. /\ Whole.purpose = "exploration" /\ Whole.columns = Everything /\ Whole.symbols = Everything
        /\ Whole.start = Everything /\ Whole.end = Everything
    BY DEF Whole
  <1>3. ~Dated(Whole) /\ Askable(contract, Whole)
    BY <1>2 DEF Dated, Askable, Columns
  <1>4. CoverageIssues(contract, frame, Whole) = {}
    BY <1>2, <1>3 DEF CoverageIssues
  <1>5. SemanticIssues(contract, frame, Whole) = {}
    BY <1>2, <1>4 DEF SemanticIssues
  <1>6. ~HasErrors(ScopedIssues(contract, rows, Whole) \union SemanticIssues(contract, frame, Whole))
    BY <1>1, <1>5 DEF HasErrors, ScopedIssues
  <1>7. DOMAIN frame = DOMAIN rows
    BY DEF Normalized
  <1>8. Selected(contract, frame, Whole) = DOMAIN rows
    BY <1>2, <1>3, <1>7 DEF Selected
  <1> QED BY <1>3, <1>6, <1>8 DEF Allowed, Delivered

THEOREM ReadersInvariant == Spec => []ReadersInv
  <1>1. Init => ReadersInv
    BY DEF Init, Idle, ReadersInv, ReaderSound, At
  <1> QED BY IntakeInvariant, ReadersNext, <1>1, PTL DEF Spec

\* A reader who resolved a version finds it under its dataset, and is given every row of
\* a ready one: versions are never taken back, and what is ready was scanned without an
\* error (read_snapshot, check_snapshot).
THEOREM ReadersAreServedHolds == Spec => []ReadersAreServed
  <1>1. ASSUME IntakeInv, ReadersInv PROVE ReadersAreServed
    <2>1. ASSUME NEW c \in Callers, At(c, "answered"), disk[call[c].version].status = "ready",
                 call[c].query = Whole
          PROVE  /\ call[c].answer # Refused
                 /\ DOMAIN call[c].answer = DOMAIN disk[call[c].version].source.rows
      <3>1. PICK v \in DOMAIN disk : v = call[c].version /\ Whole \in Queries /\ call[c].answer = Answer(v, Whole)
        BY <1>1, <2>1 DEF ReadersInv, ReaderSound
      <3>2. PICK source \in Sources : source = disk[v].source /\ Status(source.contract, source.rows) = "ready"
        <4>1. disk[v] \in Snapshots
          BY <1>1, <3>1 DEF IntakeInv, TypeOK
        <4>2. disk[v].status = "ready" /\ Judged(v)
          BY <1>1, <2>1, <3>1 DEF ReadersInv
        <4> QED BY <4>1, <4>2 DEF Judged, Snapshots
      <3>3. /\ Allowed(source.contract, source.rows, Whole)
            /\ DOMAIN Delivered(source.contract, source.rows, Whole) = DOMAIN source.rows
        BY <3>2, ReadyIsReadInFull
      <3>4. call[c].answer = Delivered(source.contract, source.rows, Whole)
        BY <3>1, <3>2, <3>3 DEF Answer, ReadScope
      <3> QED BY <3>1, <3>2, <3>3, <3>4, IntakeAssumption
    <2> QED BY <1>1, <2>1 DEF ReadersInv, ReaderSound, ReadersAreServed
  <1> QED BY IntakeInvariant, ReadersInvariant, <1>1, PTL
-----------------------------------------------------------------------------
(***************************************************************************)
(* The scan: what a reader is given does not rest on a cell that is wrong. *)
(***************************************************************************)
\* The columns that decide which rows a reader gets, and what they hold for him.
Deciding(contract, query) == Columns(contract, query) \union {"symbol", "date", "period_end"}

\* A cell that is wrong counts as empty.
LEMMA WrongIsBlank ==
  ASSUME NEW contract, NEW rows, NEW i, NEW c, Wrong(contract, rows, i, c)
  PROVE  Converted(contract, c, rows[i][c]) = Blank
BY DEF Wrong, Converted

\* It is entered in the ledger, under its row and column.
LEMMA WrongIsEntered ==
  ASSUME NEW contract, NEW rows, NEW i \in DOMAIN rows, NEW c \in Mapped(contract),
         Wrong(contract, rows, i, c)
  PROVE  \E rule \in {"type", "missing"} : Issue(i, rule, {c}) \in Ledger(contract, rows)
<1> DEFINE frame == Normalized(contract, rows)
<1>1. CASE Unconverted(contract, c, rows[i][c])
  <2> DEFINE found == {x \in Cells(rows, Mapped(contract)) : Unconverted(contract, x[2], rows[x[1]][x[2]])}
  <2>1. <<i, c>> \in found
    BY <1>1 DEF Cells
  <2>2. Issue(<<i, c>>[1], "type", {<<i, c>>[2]}) \in ConversionIssues(contract, rows)
    BY <2>1 DEF ConversionIssues
  <2> QED BY <2>2 DEF Ledger
<1>2. CASE c \in Required(contract) /\ Converted(contract, c, rows[i][c]) = Blank
  <2>1. DOMAIN frame = DOMAIN rows /\ frame[i][c] = Blank
    BY <1>2 DEF Normalized
  <2> DEFINE found == {y \in Cells(frame, Required(contract)) : frame[y[1]][y[2]] = Blank}
  <2>2. <<i, c>> \in found
    BY <1>2, <2>1 DEF Cells
  <2>3. Issue(<<i, c>>[1], "missing", {<<i, c>>[2]}) \in MissingIssues(contract, frame)
    BY <2>2 DEF MissingIssues
  <2> QED BY <2>3 DEF Ledger
<1> QED BY <1>1, <1>2 DEF Wrong

\* So an admitted read has no wrong cell that matters in a row that may concern it.
LEMMA AdmittedIsRight ==
  ASSUME NEW contract, NEW rows, NEW query, Allowed(contract, rows, query),
         NEW i \in Potential(contract, Normalized(contract, rows), query),
         NEW c \in Mapped(contract) \cap Deciding(contract, query)
  PROVE  ~Wrong(contract, rows, i, c)
<1> SUFFICES ASSUME Wrong(contract, rows, i, c) PROVE FALSE
  OBVIOUS
<1>1. i \in DOMAIN rows
  BY DEF Potential, Normalized
<1>2. PICK rule \in {"type", "missing"} : Issue(i, rule, {c}) \in Ledger(contract, rows)
  BY <1>1, WrongIsEntered
<1>3. PICK issue : /\ issue = Issue(i, rule, {c}) /\ issue.row = i /\ issue.columns = {c} /\ issue.error
                   /\ issue \in Ledger(contract, rows)
  BY <1>2 DEF Issue
<1>4. Relevant(issue, Columns(contract, query))
  BY <1>3 DEF Relevant, Deciding
<1>5. issue \in ScopedIssues(contract, rows, query)
  BY <1>3, <1>4 DEF ScopedIssues
<1> QED BY <1>3, <1>5 DEF Allowed, HasErrors

\* A repaired table differs in wrong cells only.
LEMMA RepairKeeps ==
  ASSUME NEW contract, NEW rows, NEW good, NEW repaired \in Repairs(contract, rows, good)
  PROVE  /\ DOMAIN repaired = DOMAIN rows
         /\ \A i \in DOMAIN rows, c \in Mapped(contract) :
              ~Wrong(contract, rows, i, c) =>
                Normalized(contract, repaired)[i][c] = Normalized(contract, rows)[i][c]
<1> DEFINE wrong == {x \in Cells(rows, Mapped(contract)) : Wrong(contract, rows, x[1], x[2])}
<1>1. PICK f : repaired = [i \in DOMAIN rows |-> [c \in Mapped(contract) |->
                             IF <<i, c>> \in wrong THEN f[<<i, c>>] ELSE rows[i][c]]]
  BY DEF Repairs
<1>2. DOMAIN repaired = DOMAIN rows
  BY <1>1
<1>3. ASSUME NEW i \in DOMAIN rows, NEW c \in Mapped(contract), ~Wrong(contract, rows, i, c)
      PROVE  Normalized(contract, repaired)[i][c] = Normalized(contract, rows)[i][c]
  <2>1. <<i, c>> \notin wrong
    BY <1>3
  <2>2. repaired[i][c] = rows[i][c]
    BY <1>1, <2>1
  <2> QED BY <1>2, <2>2 DEF Normalized
<1> QED BY <1>2, <1>3

\* Whether a row is in the scope does not change when its wrong cells are repaired.
LEMMA ScopeIsCertain ==
  ASSUME NEW contract, NEW rows, NEW query, NEW good, NEW repaired \in Repairs(contract, rows, good),
         Allowed(contract, rows, query)
  PROVE  Selected(contract, Normalized(contract, repaired), query)
           = Selected(contract, Normalized(contract, rows), query)
<1> DEFINE frame == Normalized(contract, rows)
           other == Normalized(contract, repaired)
           day == DateColumn(contract)
<1>1. DOMAIN frame = DOMAIN rows /\ DOMAIN other = DOMAIN rows
  BY RepairKeeps DEF Normalized
<1>2. \A i \in DOMAIN rows, c \in Mapped(contract) :
        ~Wrong(contract, rows, i, c) => other[i][c] = frame[i][c]
  BY RepairKeeps
<1>3. \A i \in DOMAIN rows, c \in Mapped(contract) : Wrong(contract, rows, i, c) => frame[i][c] = Blank
  BY WrongIsBlank DEF Normalized
<1>4. query.symbols # Everything => "symbol" \in Mapped(contract)
  BY DEF Allowed, Askable
<1>5. Dated(query) => day \in Mapped(contract) /\ day \in {"date", "period_end"}
  BY DEF Allowed, Askable, DateColumn
<1>6. ASSUME NEW i \in DOMAIN rows, i \in Potential(contract, frame, query)
      PROVE  /\ query.symbols # Everything => other[i]["symbol"] = frame[i]["symbol"]
             /\ Dated(query) => other[i][day] = frame[i][day]
  <2>1. \A c \in Mapped(contract) \cap Deciding(contract, query) : ~Wrong(contract, rows, i, c)
    BY <1>6, AdmittedIsRight
  <2>2. query.symbols # Everything => other[i]["symbol"] = frame[i]["symbol"]
    BY <1>2, <1>4, <2>1 DEF Deciding
  <2>3. Dated(query) => other[i][day] = frame[i][day]
    BY <1>2, <1>5, <2>1 DEF Deciding
  <2> QED BY <2>2, <2>3
<1>7. ASSUME NEW i \in DOMAIN rows, i \notin Potential(contract, frame, query)
      PROVE  i \notin Selected(contract, frame, query) /\ i \notin Selected(contract, other, query)
  <2>1. CASE query.symbols # Everything /\ frame[i]["symbol"] \notin query.symbols \union {Blank}
    <3>1. other[i]["symbol"] = frame[i]["symbol"]
      BY <1>2, <1>3, <1>4, <2>1
    <3> QED BY <2>1, <3>1 DEF Selected
  <2>2. CASE Dated(query) /\ frame[i][day] # Blank /\ ~InDates(contract, query, frame[i][day])
    <3>1. other[i][day] = frame[i][day]
      BY <1>2, <1>3, <1>5, <2>2
    <3> QED BY <2>2, <3>1 DEF Selected
  <2> QED BY <1>1, <1>7, <2>1, <2>2 DEF Potential
<1>8. ASSUME NEW i \in DOMAIN rows
      PROVE  i \in Selected(contract, other, query) <=> i \in Selected(contract, frame, query)
  <2>1. CASE i \in Potential(contract, frame, query)
    BY <1>1, <1>6, <2>1 DEF Selected
  <2>2. CASE i \notin Potential(contract, frame, query)
    BY <1>7, <2>2
  <2> QED BY <2>1, <2>2
<1> QED BY <1>1, <1>8 DEF Selected

\* Nor does what a reader is given (_check_snapshot, read_snapshot): however the wrong
\* cells of a table are corrected, the same read returns the same rows or is refused, for
\* any contract, table and query.
THEOREM AdmittedReadsAreCertain ==
  \A contract, rows, query, good : AdmissionIsCertain(contract, rows, query, good)
<1> SUFFICES ASSUME NEW contract, NEW rows, NEW query, NEW good, ReadScope(contract, rows, query) # Refused,
                    NEW repaired \in Repairs(contract, rows, good)
             PROVE  ReadScope(contract, repaired, query) \in {Refused, ReadScope(contract, rows, query)}
  BY DEF AdmissionIsCertain
<1> DEFINE frame == Normalized(contract, rows)
           other == Normalized(contract, repaired)
           chosen == Selected(contract, frame, query)
<1>1. Allowed(contract, rows, query)
  BY DEF ReadScope
<1>2. Selected(contract, other, query) = chosen
  BY <1>1, ScopeIsCertain
<1>3. \A i \in chosen, c \in Columns(contract, query) : other[i][c] = frame[i][c]
  <2> SUFFICES ASSUME NEW i \in chosen, NEW c \in Columns(contract, query)
               PROVE  other[i][c] = frame[i][c]
    OBVIOUS
  <2>1. i \in DOMAIN rows /\ i \in Potential(contract, frame, query)
    BY DEF Selected, Potential, Normalized
  <2>2. c \in Mapped(contract) \cap Deciding(contract, query)
    BY <1>1 DEF Allowed, Askable, Deciding
  <2>3. ~Wrong(contract, rows, i, c)
    BY <1>1, <2>1, <2>2, AdmittedIsRight
  <2> QED BY <2>1, <2>2, <2>3, RepairKeeps
<1>4. Delivered(contract, repaired, query) = Delivered(contract, rows, query)
  <2>1. [i \in chosen |-> [c \in Columns(contract, query) |-> other[i][c]]]
          = [i \in chosen |-> [c \in Columns(contract, query) |-> frame[i][c]]]
    BY <1>3
  <2> QED BY <1>2, <2>1 DEF Delivered
<1> QED BY <1>1, <1>4 DEF ReadScope
===============================================================================
