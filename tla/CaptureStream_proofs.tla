------------------------- MODULE CaptureStream_proofs -------------------------
(***************************************************************************)
(* Proofs about one capture stream.                                        *)
(*                                                                         *)
(* BookSync: for any prices, quantities, feeds, number of updates and      *)
(* batch size, a kept book is the venue's, a healthy feed is admitted, and *)
(* what is published reconstructs the book that was kept.                  *)
(*                                                                         *)
(* CaptureRunner: for any limits, numbers of failures and of cancellations *)
(* no Raw segment spans two epochs, and the runner implements StreamLife,  *)
(* on which the coordinator relies.                                        *)
(***************************************************************************)
EXTENDS BookSync, CaptureRunner, FoldLemmas, FiniteSetTheorems, SequenceTheorems, TLAPS

-----------------------------------------------------------------------------
(* The venue. *)

VenueOK ==
  /\ venue \in [Ids -> Books]
  /\ \A i \in Ids : ~Crossed(venue[i])
  /\ boundaries \subseteq Ids

\* What a synchronizer knows of its place in the stream.
Place ==
  /\ connection \in {"connected", "resync", "published"}
  /\ last \in Ids \cup {Nothing} /\ providerSequence = last
  /\ bridged \in BOOLEAN
  /\ last = Nothing \/ feed = "okx" => ~bridged
  /\ feed # "okx" /\ ~bridged => last = snapshotId
  /\ feed # "okx" /\ last # Nothing => snapshotId # Nothing

BookInv == VenueOK /\ Place /\ BookIsVenueBook

\* An update number of the venue is an integer.
LEMMA IdsAreNumbers == Ids \subseteq Int /\ Nothing \notin Ids
BY SyncAssumption DEF Ids, Nothing

\* What a message says of its range.
LEMMA UpdateRange ==
  ASSUME VenueOK, NEW m \in Updates
  PROVE  /\ m.previous \in Ids /\ m.final \in Ids /\ m.first \in Int
         /\ m.previous < m.final /\ m.previous < m.first /\ m.first <= m.final
         /\ m.levels = Changes(m.previous, m.final)
<1>1. PICK ab \in Spans : m \in {UpdateOf(ab[1], ab[2], i) : i \in Firsts(ab[1], ab[2])}
  BY DEF Updates
<1>2. PICK i \in Firsts(ab[1], ab[2]) : m = UpdateOf(ab[1], ab[2], i)
  BY <1>1
<1>3. ab[1] \in Ids /\ ab[2] \in Ids /\ ab[1] < ab[2]
  BY DEF VenueOK, Spans
<1>4. i \in ab[1] + 1..ab[2]
  BY DEF Firsts
<1>5. ab[1] \in Int /\ ab[2] \in Int
  BY <1>3, IdsAreNumbers
<1>6. i \in Int /\ ab[1] < i /\ i <= ab[2]
  BY <1>4, <1>5
<1> QED
  BY <1>2, <1>3, <1>6 DEF UpdateOf

\* The levels of a message, applied to any book in its range, give its last book.
LEMMA ChangesReachTheEnd ==
  ASSUME VenueOK, NEW a \in Ids, NEW b \in Ids, NEW i \in a..b
  PROVE  SetLevels(venue[i], Changes(a, b)) = venue[b]
<1> DEFINE L == Changes(a, b)
<1>1. i \in Ids
  BY IdsAreNumbers, SyncAssumption DEF Ids
<1>2. venue[i] \in Books /\ venue[b] \in Books
  BY <1>1 DEF VenueOK
<1>3. ASSUME NEW s \in Sides, NEW p \in Prices
      PROVE  SetLevels(venue[i], L)[s][p] = venue[b][s][p]
  <2>1. ASSUME NEW l \in L, l.side = s, l.price = p
        PROVE  l.quantity = venue[b][s][p]
    BY <2>1 DEF Changes, Changed
  <2>2. CASE \E l \in L : l.side = s /\ l.price = p
    <3>1. (CHOOSE l \in L : l.side = s /\ l.price = p).quantity = venue[b][s][p]
      BY <2>1, <2>2
    <3> QED
      BY <2>2, <3>1 DEF SetLevels
  <2>3. CASE ~ \E l \in L : l.side = s /\ l.price = p
    <3>1. \A j \in a..b : venue[j][s][p] = venue[b][s][p]
      <4>1. SUFFICES ASSUME NEW j \in a..b, venue[j][s][p] # venue[b][s][p]
                     PROVE  FALSE
        OBVIOUS
      <4>2. <<s, p>> \in Changed(a, b)
        BY <4>1 DEF Changed
      <4>3. [side |-> s, price |-> p, quantity |-> venue[b][s][p]] \in L
        BY <4>2 DEF Changes
      <4> QED
        BY <4>3, <2>3
    <3>2. venue[i][s][p] = venue[b][s][p]
      BY <3>1
    <3> QED
      BY <2>3, <3>2 DEF SetLevels
  <2> QED
    BY <2>2, <2>3
<1>4. SetLevels(venue[i], L) = [s \in Sides |-> [p \in Prices |-> SetLevels(venue[i], L)[s][p]]]
  BY DEF SetLevels
<1>5. venue[b] = [s \in Sides |-> [p \in Prices |-> venue[b][s][p]]]
  BY <1>2 DEF Books
<1> QED
  BY <1>3, <1>4, <1>5

-----------------------------------------------------------------------------
(* The invariant. *)

LEMMA InitInv == SyncInit => BookInv
<1> SUFFICES ASSUME SyncInit PROVE BookInv
  OBVIOUS
<1>1. VenueOK
  BY DEF SyncInit, VenueOK
<1>2. Place
  BY DEF SyncInit, Place
<1>3. BookIsVenueBook
  BY DEF SyncInit, BookIsVenueBook
<1> QED
  BY <1>1, <1>2, <1>3 DEF BookInv

\* The venue is the same whatever the connection does.
LEMMA VenueStays ==
  ASSUME VenueOK, UNCHANGED stream
  PROVE  VenueOK'
BY DEF VenueOK, stream, Crossed

\* An update from the synchronizer's place takes the tracked book to the venue's book
\* after the update.
LEMMA AppliedUpdate ==
  ASSUME BookInv, connection = "connected", last # Nothing,
         NEW m \in Updates, m.previous <= last, last < m.final
  PROVE  SetLevels(book, m.levels) = venue[m.final]
<1>1. m.previous \in Ids /\ m.final \in Ids /\ m.levels = Changes(m.previous, m.final)
  BY UpdateRange DEF BookInv
<1>2. last \in Ids /\ book = venue[last]
  BY DEF BookInv, Place, BookIsVenueBook
<1>3. last \in Int /\ m.previous \in Int /\ m.final \in Int
  BY <1>1, <1>2, IdsAreNumbers
<1>4. last \in m.previous..m.final
  BY <1>3
<1> QED
  BY <1>1, <1>2, <1>4, ChangesReachTheEnd DEF BookInv

\* Refusing keeps everything but the connection.
LEMMA RefuseInv ==
  ASSUME BookInv, Refuse
  PROVE  BookInv'
<1>1. VenueOK'
  BY VenueStays DEF BookInv, Refuse
<1>2. Place'
  BY DEF BookInv, Place, Refuse, stream, sync, adapter
<1>3. BookIsVenueBook'
  BY DEF Refuse, BookIsVenueBook
<1> QED
  BY <1>1, <1>2, <1>3 DEF BookInv

LEMMA AdmitUpdateInv ==
  ASSUME BookInv, connection = "connected", last # Nothing,
         NEW m \in Updates, m.previous <= last, last < m.final, AdmitUpdate(m, last)
  PROVE  BookInv'
<1> DEFINE after == SetLevels(book, m.levels)
<1>1. CASE Refuse
  BY <1>1, RefuseInv
<1>2. CASE /\ EmitDelta(m.final, Kept(m.levels))
           /\ book' = after /\ last' = m.final /\ bridged' = (feed # "okx")
           /\ UNCHANGED <<stream, connection, snapshotId, result>>
  <2>1. after = venue[m.final] /\ m.final \in Ids
    BY AppliedUpdate, UpdateRange DEF BookInv
  <2>2. VenueOK'
    BY <1>2, VenueStays DEF BookInv
  <2>3. Place'
    BY <1>2, <2>1, IdsAreNumbers DEF BookInv, Place, EmitDelta, stream
  <2>4. BookIsVenueBook'
    BY <1>2, <2>1 DEF BookIsVenueBook, stream
  <2> QED
    BY <2>2, <2>3, <2>4 DEF BookInv
<1> QED
  BY <1>1, <1>2 DEF AdmitUpdate

\* A snapshot that replaced the book and was refused.
LEMMA RefuseSnapshotInv ==
  ASSUME BookInv, NEW n \in Ids, RefuseSnapshot(n)
  PROVE  BookInv'
<1>1. VenueOK'
  BY VenueStays DEF BookInv, RefuseSnapshot
<1>2. Place'
  BY DEF BookInv, Place, RefuseSnapshot, stream, adapter
<1>3. BookIsVenueBook'
  BY DEF RefuseSnapshot, BookIsVenueBook
<1> QED
  BY <1>1, <1>2, <1>3 DEF BookInv

LEMMA HttpSnapshotInv ==
  ASSUME BookInv, NEW n \in Ids, HttpSnapshot(n)
  PROVE  BookInv'
<1>1. CASE RefuseSnapshot(n)
  BY <1>1, RefuseSnapshotInv
<1>2. CASE /\ EmitSnapshot(n)
           /\ book' = venue[n] /\ snapshotId' = n /\ last' = n /\ bridged' = FALSE
           /\ UNCHANGED <<stream, connection, result>>
  <2>1. VenueOK'
    BY <1>2, VenueStays DEF BookInv
  <2>2. Place'
    BY <1>2, IdsAreNumbers DEF BookInv, Place, EmitSnapshot, stream
  <2>3. BookIsVenueBook'
    BY <1>2 DEF BookIsVenueBook, stream
  <2> QED
    BY <2>1, <2>2, <2>3 DEF BookInv
<1> QED
  BY <1>1, <1>2 DEF HttpSnapshot

LEMMA OkxSnapshotInv ==
  ASSUME BookInv, NEW n \in Ids, OkxSnapshot(n)
  PROVE  BookInv'
<1>1. CASE RefuseSnapshot(n)
  BY <1>1, RefuseSnapshotInv
<1>2. CASE /\ EmitSnapshot(n)
           /\ book' = venue[n] /\ last' = n
           /\ UNCHANGED <<stream, connection, snapshotId, bridged, result>>
  <2>1. VenueOK'
    BY <1>2, VenueStays DEF BookInv
  <2>2. Place'
    BY <1>2, IdsAreNumbers DEF BookInv, Place, EmitSnapshot, stream, OkxSnapshot
  <2>3. BookIsVenueBook'
    BY <1>2 DEF BookIsVenueBook, stream
  <2> QED
    BY <2>1, <2>2, <2>3 DEF BookInv
<1> QED
  BY <1>1, <1>2 DEF OkxSnapshot

LEMMA BinanceUpdateInv ==
  ASSUME BookInv, NEW m \in Updates, BinanceUpdate(m)
  PROVE  BookInv'
<1>1. CASE Ignore
  BY <1>1 DEF Ignore, syncVars, stream, sync, adapter, BookInv, VenueOK, Crossed, Place,
              BookIsVenueBook
<1>2. CASE Refuse
  BY <1>2, RefuseInv
<1>3. CASE m.final > last /\ InRange(m, last) /\ AdmitUpdate(m, last)
  <2>1. connection = "connected" /\ last # Nothing /\ last \in Ids
    BY DEF BinanceUpdate, BookInv, Place
  <2>2. m.previous \in Int /\ m.final \in Int /\ m.first \in Int /\ m.previous < m.first
    BY UpdateRange, IdsAreNumbers DEF BookInv
  <2>3. last \in Int /\ m.first <= last + 1
    BY <1>3, <2>1, IdsAreNumbers DEF InRange
  <2>4. m.previous <= last /\ last < m.final
    BY <1>3, <2>2, <2>3
  <2> QED
    BY <1>3, <2>1, <2>4, AdmitUpdateInv
<1> QED
  BY <1>1, <1>2, <1>3 DEF BinanceUpdate

LEMMA OkxUpdateInv ==
  ASSUME BookInv, NEW m \in Updates, OkxUpdate(m)
  PROVE  BookInv'
<1>1. CASE Refuse
  BY <1>1, RefuseInv
<1>2. CASE last # Nothing /\ m.previous = last /\ AdmitUpdate(m, m.previous)
  <2>1. m.previous \in Int /\ m.previous < m.final
    BY UpdateRange, IdsAreNumbers DEF BookInv
  <2>2. m.previous <= last /\ last < m.final
    BY <1>2, <2>1
  <2> QED
    BY <1>2, <2>2, AdmitUpdateInv DEF OkxUpdate
<1> QED
  BY <1>1, <1>2 DEF OkxUpdate

LEMMA StepInv == BookInv /\ [SyncNext]_syncVars => BookInv'
<1> SUFFICES ASSUME BookInv, [SyncNext]_syncVars PROVE BookInv'
  OBVIOUS
<1>1. ASSUME UNCHANGED syncVars PROVE BookInv'
  BY <1>1 DEF syncVars, stream, sync, adapter, BookInv, VenueOK, Crossed, Place, BookIsVenueBook
<1>2. ASSUME NEW n \in Ids, HttpSnapshot(n) PROVE BookInv'
  BY <1>2, HttpSnapshotInv
<1>3. ASSUME NEW n \in Ids, OkxSnapshot(n) PROVE BookInv'
  BY <1>3, OkxSnapshotInv
<1>4. ASSUME NEW n \in Ids, Heartbeat(n) PROVE BookInv'
  BY <1>1, <1>4, RefuseInv DEF Heartbeat, Ignore
<1>5. ASSUME NEW m \in Updates, UpdateArrives(m) PROVE BookInv'
  BY <1>5, BinanceUpdateInv, OkxUpdateInv DEF UpdateArrives
<1>6. CASE MaintenanceReset
  <2>1. VenueOK'
    BY <1>6, VenueStays DEF BookInv, MaintenanceReset
  <2>2. Place'
    BY <1>6 DEF BookInv, Place, MaintenanceReset, stream
  <2>3. BookIsVenueBook'
    BY <1>6 DEF MaintenanceReset, BookIsVenueBook
  <2> QED
    BY <2>1, <2>2, <2>3 DEF BookInv
<1>7. CASE Malformed
  BY <1>7, RefuseInv DEF Malformed
<1>8. CASE Reconnect
  <2>1. VenueOK'
    BY <1>8, VenueStays DEF BookInv, Reconnect
  <2>2. Place'
    BY <1>8 DEF BookInv, Place, Reconnect, stream
  <2>3. BookIsVenueBook'
    BY <1>8 DEF Reconnect, BookIsVenueBook
  <2> QED
    BY <2>1, <2>2, <2>3 DEF BookInv
<1>9. ASSUME NEW n \in 1..MaxRows, PublishEpoch(n) PROVE BookInv'
  <2>1. VenueOK'
    BY <1>9, VenueStays DEF BookInv, PublishEpoch
  <2>2. Place'
    BY <1>9 DEF BookInv, Place, PublishEpoch, stream, sync, adapter
  <2>3. BookIsVenueBook'
    BY <1>9 DEF PublishEpoch, BookInv, BookIsVenueBook, stream, sync
  <2> QED
    BY <2>1, <2>2, <2>3 DEF BookInv
<1>10. CASE Finished
  BY <1>1, <1>10 DEF Finished
<1> QED
  BY <1>1, <1>2, <1>3, <1>4, <1>5, <1>6, <1>7, <1>8, <1>9, <1>10 DEF SyncNext

LEMMA Invariant == SyncSpec => []BookInv
BY InitInv, StepInv, PTL DEF SyncSpec

\* Whatever is lost, repeated, reordered or stale, a book that is kept is the venue's
\* book after the last update number that was admitted.
THEOREM TrackedBookIsVenueBook == SyncSpec => []BookIsVenueBook
<1>1. BookInv => BookIsVenueBook
  BY DEF BookInv
<1> QED
  BY <1>1, Invariant, PTL

-----------------------------------------------------------------------------
(* A feed that loses nothing. *)

\* An update has too few levels to run out of positions.
LEMMA FewLevels ==
  ASSUME NEW a, NEW b
  PROVE  /\ IsFiniteSet(Kept(Changes(a, b))) /\ Cardinality(Kept(Changes(a, b))) \in Nat
         /\ Cardinality(Kept(Changes(a, b))) < Factor
<1> DEFINE f == [sp \in Changed(a, b) |->
                   [side |-> sp[1], price |-> sp[2], quantity |-> venue[b][sp[1]][sp[2]]]]
<1>1. IsFiniteSet(Sides \X Prices) /\ Cardinality(Sides \X Prices) = 2 * Cardinality(Prices)
  <2>1. IsFiniteSet(Sides) /\ Cardinality(Sides) = 2
    <3>1. IsFiniteSet({"bid"}) /\ Cardinality({"bid"}) = 1
      BY FS_Singleton
    <3>2. Sides = {"bid"} \cup {"ask"} /\ "ask" \notin {"bid"}
      BY DEF Sides
    <3> QED
      BY <3>1, <3>2, FS_AddElement
  <2> QED
    BY <2>1, FS_Product, BookAssumption
<1>2. Changed(a, b) \in SUBSET (Sides \X Prices)
  BY DEF Changed
<1>3. /\ IsFiniteSet(Changed(a, b)) /\ Cardinality(Changed(a, b)) \in Nat
      /\ Cardinality(Changed(a, b)) <= 2 * Cardinality(Prices)
  BY <1>1, <1>2, FS_Subset, FS_CardinalityType
<1>4. f \in Surjection(Changed(a, b), Changes(a, b))
  BY DEF Surjection, Changes
<1>5. /\ IsFiniteSet(Changes(a, b))
      /\ Cardinality(Changes(a, b)) <= Cardinality(Changed(a, b))
  BY <1>3, <1>4, FS_Surjection
<1>6. Kept(Changes(a, b)) \in SUBSET Changes(a, b)
  BY DEF Kept
<1>7. Cardinality(Kept(Changes(a, b))) <= Cardinality(Changes(a, b))
  BY <1>5, <1>6, FS_Subset
<1>8. /\ Cardinality(Kept(Changes(a, b))) \in Nat /\ Cardinality(Changes(a, b)) \in Nat
      /\ Cardinality(Prices) \in Nat
  BY <1>5, <1>6, FS_Subset, FS_CardinalityType, BookAssumption
<1>9. IsFiniteSet(Kept(Changes(a, b)))
  BY <1>5, <1>6, FS_Subset
<1> QED
  BY <1>3, <1>5, <1>7, <1>8, <1>9, BookAssumption

\* An update in the synchronizer's place is never refused once its range is accepted.
LEMMA AdmitAccepts ==
  ASSUME BookInv, connection = "connected", last # Nothing,
         NEW m \in Updates, m.previous <= last, last < m.final, AdmitUpdate(m, last)
  PROVE  connection' = "connected"
<1>1. /\ SetLevels(book, m.levels) = venue[m.final] /\ m.final \in Ids
      /\ m.levels = Changes(m.previous, m.final)
  BY AppliedUpdate, UpdateRange DEF BookInv
<1>2. ~Crossed(SetLevels(book, m.levels))
  BY <1>1 DEF BookInv, VenueOK
<1>3. last \in Int /\ m.final \in Int
  BY <1>1, IdsAreNumbers DEF BookInv, Place
<1>4. DeltaContinues(last, m.final, Kept(m.levels))
  BY <1>1, <1>3, FewLevels DEF DeltaContinues, BookInv, Place
<1> QED
  BY <1>2, <1>4 DEF AdmitUpdate

\* In a feed that loses nothing the update that bridges the snapshot and every update
\* that starts right after the last one are admitted.
THEOREM HealthyFeedIsAdmittedHolds == SyncSpec => HealthyFeedIsAdmitted
<1> DEFINE A == \A m \in Updates : Expected(m) /\ UpdateArrives(m) => connection' = "connected"
<1>1. BookInv => A
  <2> SUFFICES ASSUME BookInv, NEW m \in Updates, Expected(m), UpdateArrives(m)
               PROVE  connection' = "connected"
    OBVIOUS
  <2>1. /\ m.previous \in Int /\ m.final \in Int /\ m.first \in Int
        /\ m.previous < m.first /\ m.first <= m.final /\ m.previous < m.final
    BY UpdateRange, IdsAreNumbers DEF BookInv
  <2>2. last # Nothing => last \in Int
    BY IdsAreNumbers DEF BookInv, Place
  <2>3. CASE OkxUpdate(m)
    <3>1. feed = "okx" /\ m.previous = last /\ connection = "connected"
      BY <2>3 DEF Expected, OkxUpdate
    <3>2. last # Nothing
      BY <3>1, UpdateRange, IdsAreNumbers DEF BookInv
    <3> QED
      BY <2>1, <2>3, <3>1, <3>2, AdmitAccepts DEF OkxUpdate
  <2>4. CASE BinanceUpdate(m)
    <3>1. /\ connection = "connected" /\ feed # "okx" /\ snapshotId # Nothing
          /\ last # Nothing
      BY <2>4 DEF BinanceUpdate, BookInv, Place
    <3>2. CASE Ignore
      BY <3>1, <3>2 DEF Ignore, syncVars
    <3>3. CASE m.final > last
      <4>1. CASE bridged
        <5>1. m.previous = last /\ m.first = last + 1
          BY <4>1 DEF Expected
        <5>2. FollowsSpot(m) /\ FollowsChain(m) /\ InRange(m, last)
          BY <2>1, <2>2, <3>1, <3>3, <5>1 DEF FollowsSpot, FollowsChain, InRange
        <5> QED
          BY <2>1, <2>2, <2>4, <3>1, <3>3, <4>1, <5>1, <5>2, AdmitAccepts DEF BinanceUpdate
      <4>2. CASE ~bridged
        <5>1. Bridges(m) /\ last = snapshotId
          BY <3>1, <4>2 DEF Expected, BookInv, Place
        <5>2. InRange(m, last) /\ m.previous <= last
          BY <2>1, <2>2, <3>1, <3>3, <5>1 DEF Bridges, InRange
        <5> QED
          BY <2>1, <2>2, <2>4, <3>1, <3>3, <4>2, <5>1, <5>2, AdmitAccepts DEF BinanceUpdate
      <4> QED
        BY <4>1, <4>2
    <3> QED
      BY <2>4, <3>2, <3>3 DEF BinanceUpdate
  <2> QED
    BY <2>3, <2>4 DEF UpdateArrives
<1> QED
  BY <1>1, Invariant, PTL DEF HealthyFeedIsAdmitted

-----------------------------------------------------------------------------
(***************************************************************************)
(* The reconstructor.                                                      *)
(***************************************************************************)
SnapshotRecords == [kind : {"snapshot"}, sequence : Nat, book : Books]
DeltaRecords == [kind : {"delta"}, sequence : Nat, previous : Nat, level : Levels]
Records == SnapshotRecords \union DeltaRecords
Replays == [ok : BOOLEAN, sequence : Int, book : Books]

LEMMA FirstReplays == EmptyBook \in Books /\ Uninitialized \in Replays /\ Refused \in Replays
  <1>1. EmptyBook \in Books
    BY BookAssumption DEF EmptyBook, Books, Quantities
  <1> QED BY <1>1 DEF Uninitialized, Refused, Replays

LEMMA LevelIsSet ==
  ASSUME NEW b \in Books, NEW l \in Levels
  PROVE  /\ SetLevel(b, l) \in Books
         /\ \A s \in Sides, p \in Prices :
              SetLevel(b, l)[s][p] = IF s = l.side /\ p = l.price THEN l.quantity ELSE b[s][p]
  <1>1. l.side \in Sides /\ l.price \in Prices /\ l.quantity \in Quantities
    BY DEF Levels
  <1>2. b[l.side] \in [Prices -> Quantities]
    BY <1>1 DEF Books
  <1>3. [b[l.side] EXCEPT ![l.price] = l.quantity] \in [Prices -> Quantities]
    BY <1>1, <1>2
  <1>4. SetLevel(b, l) = [b EXCEPT ![l.side] = [b[l.side] EXCEPT ![l.price] = l.quantity]]
    BY DEF SetLevel
  <1>5. SetLevel(b, l) \in Books
    BY <1>1, <1>3, <1>4 DEF Books
  <1>6. ASSUME NEW s \in Sides, NEW p \in Prices
        PROVE  SetLevel(b, l)[s][p] = IF s = l.side /\ p = l.price THEN l.quantity ELSE b[s][p]
    <2>1. CASE s = l.side
      BY <1>1, <1>2, <1>4, <2>1 DEF Books
    <2>2. CASE s # l.side
      BY <1>1, <1>4, <2>2 DEF Books
    <2> QED BY <2>1, <2>2
  <1> QED BY <1>5, <1>6

LEMMA StageType ==
  ASSUME NEW r \in Replays, NEW e \in DeltaRecords PROVE StageDelta(r, e) \in Replays
  <1>1. SetLevel(r.book, e.level) \in Books
    BY LevelIsSet DEF Replays, DeltaRecords
  <1>2. e.sequence \in Int
    BY DEF DeltaRecords
  <1> QED BY <1>1, <1>2, FirstReplays DEF StageDelta, Replays

LEMMA SnapshotType ==
  ASSUME NEW r \in Replays, NEW e \in SnapshotRecords
  PROVE  Apply(r, e) \in Replays /\ (r.ok => Apply(r, e) = ApplySnapshot(r, e))
  <1>1. e.kind = "snapshot" /\ e.sequence \in Int /\ e.book \in Books
    BY DEF SnapshotRecords
  <1>2. ApplySnapshot(r, e) \in Replays
    BY <1>1, FirstReplays DEF ApplySnapshot, Replays
  <1> QED BY <1>1, <1>2, FirstReplays DEF Apply

\* The levels of a group, none of which makes the book valid by itself.
StageAll(r, group) == FoldLeft(StageDelta, r, group)

\* The levels of a group, one by one.
LEMMA StageSteps ==
  ASSUME NEW r \in Replays, NEW rows, rows \in Seq(DeltaRecords)
  PROVE  /\ StageAll(r, rows) \in Replays
         /\ StageAll(r, <<>>) = r
         /\ \A e \in DeltaRecords : StageAll(r, Append(rows, e)) = StageDelta(StageAll(r, rows), e)
  <1> DEFINE V == Replays
             E == DeltaRecords
             Op(v, e) == StageDelta(v, e)
             step == [p \in V \X E |-> Op(p[1], p[2])]
             base == r
  <1>1. base \in V /\ \A v \in V, e \in E : Op(v, e) \in V
    BY StageType
  <1>2. ASSUME NEW q \in Seq(E) PROVE StageAll(r, q) = Run(V, step, base, q)
    <2> DEFINE N == Len(q)
               Body(h) == [s \in SUBSET (1..N) |-> IF s = {} THEN base ELSE Op(h[s \ {Max(s)}], q[Max(s)])]
               fold == CHOOSE h : h = Body(h)
    <2>1. N \in Nat /\ DOMAIN q = 1..N /\ \A i \in 1..N : q[i] \in E
      OBVIOUS
    <2>2. StageAll(r, q) = fold[1..N]
      BY <2>1 DEF StageAll, FoldLeft, MapThenFoldSet
    <2> HIDE DEF N, V, E, Op, base
    <2>3. step \in [V \X E -> V] /\ \A v \in V, e \in E : step[<<v, e>>] = Op(v, e)
      BY <1>1
    <2> HIDE DEF step
    <2>4. PICK g \in [SUBSET (1..N) -> V] : FoldsTo(g, base, step, q)
      <3>1. Stepper(V, E, step, base, q)
        BY <1>1, <2>3 DEF Stepper
      <3> QED BY <3>1, FoldExists DEF N
    <2>5. g = Body(g)
      <3>1. \A s \in SUBSET (1..N) : g[s] = Body(g)[s]
        BY <2>1, <2>3, <2>4, Prefix DEF FoldsTo, N
      <3> QED BY <2>4, <3>1
    <2>6. fold = Body(fold)
      BY <2>5
    <2> HIDE DEF fold
    <2>7. fold[{}] = base
      BY <2>1, <2>6, Prefix
    <2>8. ASSUME NEW i \in 1..N, fold[1..(i - 1)] \in V PROVE fold[1..i] = step[<<fold[1..(i - 1)], q[i]>>]
      <3>1. 1..i \in SUBSET (1..N) /\ 1..i # {} /\ Max(1..i) = i /\ (1..i) \ {i} = 1..(i - 1)
        BY <2>1, Prefix
      <3>2. fold[1..i] = Op(fold[1..(i - 1)], q[i])
        BY <2>6, <3>1
      <3> QED BY <2>1, <2>3, <2>8, <3>2
    <2>9. Unfolds(fold, V, step, base, q)
      BY <2>7, <2>8 DEF Unfolds, N
    <2>10. Stepper(V, E, step, base, q)
      BY <1>1, <2>3 DEF Stepper
    <2>11. fold[1..N] = Run(V, step, base, q)
      BY <2>9, <2>10, FoldIsRun DEF N
    <2> QED BY <2>2, <2>11
  <1>3. rows \in Seq(E) /\ <<>> \in Seq(E) /\ \A e \in E : Append(rows, e) \in Seq(E)
    OBVIOUS
  <1>4. step \in [V \X E -> V] /\ \A v \in V, e \in E : step[<<v, e>>] = Op(v, e)
    BY <1>1
  <1>5. StageAll(r, rows) = Run(V, step, base, rows) /\ StageAll(r, <<>>) = Run(V, step, base, <<>>)
    BY <1>2, <1>3
  <1>6. ASSUME NEW e \in E PROVE StageAll(r, Append(rows, e)) = Run(V, step, base, Append(rows, e))
    BY <1>2, <1>3
  <1> HIDE DEF V, E, Op, step, base
  <1>7. Stepper(V, E, step, base, rows)
    BY <1>1, <1>3, <1>4 DEF Stepper
  <1>8. Run(V, step, base, rows) \in V /\ Run(V, step, base, <<>>) = base
    BY <1>1, <1>7, RunType, RunEmpty
  <1>9. ASSUME NEW e \in E PROVE Run(V, step, base, Append(rows, e)) = Op(Run(V, step, base, rows), e)
    <2>1. Run(V, step, base, Append(rows, e)) = step[<<Run(V, step, base, rows), e>>]
      BY <1>7, RunAppend
    <2> QED BY <1>4, <1>8, <2>1
  <1> QED BY <1>5, <1>6, <1>8, <1>9 DEF V, E, Op, base

\* Snapshots, one by one.
LEMMA SnapshotSteps ==
  ASSUME NEW r \in Replays, NEW rows, rows \in Seq(SnapshotRecords)
  PROVE  /\ Replay(r, rows) \in Replays
         /\ Replay(r, <<>>) = r
         /\ \A e \in SnapshotRecords : Replay(r, Append(rows, e)) = Apply(Replay(r, rows), e)
  <1> DEFINE V == Replays
             E == SnapshotRecords
             Op(v, e) == Apply(v, e)
             step == [p \in V \X E |-> Op(p[1], p[2])]
             base == r
  <1>1. base \in V /\ \A v \in V, e \in E : Op(v, e) \in V
    BY SnapshotType
  <1>2. ASSUME NEW q \in Seq(E) PROVE Replay(r, q) = Run(V, step, base, q)
    <2> DEFINE N == Len(q)
               Body(h) == [s \in SUBSET (1..N) |-> IF s = {} THEN base ELSE Op(h[s \ {Max(s)}], q[Max(s)])]
               fold == CHOOSE h : h = Body(h)
    <2>1. N \in Nat /\ DOMAIN q = 1..N /\ \A i \in 1..N : q[i] \in E
      OBVIOUS
    <2>2. Replay(r, q) = fold[1..N]
      BY <2>1 DEF Replay, FoldLeft, MapThenFoldSet
    <2> HIDE DEF N, V, E, Op, base
    <2>3. step \in [V \X E -> V] /\ \A v \in V, e \in E : step[<<v, e>>] = Op(v, e)
      BY <1>1
    <2> HIDE DEF step
    <2>4. PICK g \in [SUBSET (1..N) -> V] : FoldsTo(g, base, step, q)
      <3>1. Stepper(V, E, step, base, q)
        BY <1>1, <2>3 DEF Stepper
      <3> QED BY <3>1, FoldExists DEF N
    <2>5. g = Body(g)
      <3>1. \A s \in SUBSET (1..N) : g[s] = Body(g)[s]
        BY <2>1, <2>3, <2>4, Prefix DEF FoldsTo, N
      <3> QED BY <2>4, <3>1
    <2>6. fold = Body(fold)
      BY <2>5
    <2> HIDE DEF fold
    <2>7. fold[{}] = base
      BY <2>1, <2>6, Prefix
    <2>8. ASSUME NEW i \in 1..N, fold[1..(i - 1)] \in V PROVE fold[1..i] = step[<<fold[1..(i - 1)], q[i]>>]
      <3>1. 1..i \in SUBSET (1..N) /\ 1..i # {} /\ Max(1..i) = i /\ (1..i) \ {i} = 1..(i - 1)
        BY <2>1, Prefix
      <3>2. fold[1..i] = Op(fold[1..(i - 1)], q[i])
        BY <2>6, <3>1
      <3> QED BY <2>1, <2>3, <2>8, <3>2
    <2>9. Unfolds(fold, V, step, base, q)
      BY <2>7, <2>8 DEF Unfolds, N
    <2>10. Stepper(V, E, step, base, q)
      BY <1>1, <2>3 DEF Stepper
    <2>11. fold[1..N] = Run(V, step, base, q)
      BY <2>9, <2>10, FoldIsRun DEF N
    <2> QED BY <2>2, <2>11
  <1>3. rows \in Seq(E) /\ <<>> \in Seq(E) /\ \A e \in E : Append(rows, e) \in Seq(E)
    OBVIOUS
  <1>4. step \in [V \X E -> V] /\ \A v \in V, e \in E : step[<<v, e>>] = Op(v, e)
    BY <1>1
  <1>5. Replay(r, rows) = Run(V, step, base, rows) /\ Replay(r, <<>>) = Run(V, step, base, <<>>)
    BY <1>2, <1>3
  <1>6. ASSUME NEW e \in E PROVE Replay(r, Append(rows, e)) = Run(V, step, base, Append(rows, e))
    BY <1>2, <1>3
  <1> HIDE DEF V, E, Op, step, base
  <1>7. Stepper(V, E, step, base, rows)
    BY <1>1, <1>3, <1>4 DEF Stepper
  <1>8. Run(V, step, base, rows) \in V /\ Run(V, step, base, <<>>) = base
    BY <1>1, <1>7, RunType, RunEmpty
  <1>9. ASSUME NEW e \in E PROVE Run(V, step, base, Append(rows, e)) = Op(Run(V, step, base, rows), e)
    <2>1. Run(V, step, base, Append(rows, e)) = step[<<Run(V, step, base, rows), e>>]
      BY <1>7, RunAppend
    <2> QED BY <1>4, <1>8, <2>1
  <1> QED BY <1>5, <1>6, <1>8, <1>9 DEF V, E, Op, base

LEMMA GroupType ==
  ASSUME NEW r \in Replays, NEW g \in Seq(DeltaRecords) PROVE ApplyGroup(r, g) \in Replays
  <1>1. StageAll(r, g) \in Replays
    BY StageSteps
  <1> QED BY <1>1, FirstReplays DEF ApplyGroup, StageAll

\* The group that ends at a record of a batch.
LEMMA GroupIs ==
  ASSUME NEW E, NEW b \in Seq(E), NEW i \in DOMAIN b
  PROVE  LET start == Max({j \in GroupStarts(b) : j <= i}) IN
         start \in 1..i /\ start \in GroupStarts(b) /\ GroupEndingAt(b, i) \in Seq(E)
  <1> DEFINE s == {j \in GroupStarts(b) : j <= i}
  <1>1. DOMAIN b = 1..Len(b) /\ Len(b) \in Nat /\ i \in 1..Len(b)
    OBVIOUS
  <1>2. s \in SUBSET (1..i) /\ 1 \in s /\ i \in Nat
    BY <1>1 DEF GroupStarts
  <1> HIDE DEF s
  <1>3. Max(s) \in s
    BY <1>2, MaxIn
  <1>4. Max(s) \in 1..i /\ Max(s) \in GroupStarts(b)
    BY <1>2, <1>3 DEF s
  <1>5. SubSeq(b, Max(s), i) \in Seq(E)
    <2>1. PICK m : m = Max(s)
      OBVIOUS
    <2>2. m \in Nat /\ m >= 1 /\ m <= i
      BY <1>1, <1>4, <2>1
    <2>3. SubSeq(b, m, i) \in Seq(E)
      BY <1>1, <2>2
    <2> QED BY <2>1, <2>3
  <1> QED BY <1>4, <1>5 DEF s, GroupEndingAt

LEMMA GroupStepType ==
  ASSUME NEW b \in Seq(DeltaRecords), NEW r \in Replays, NEW i \in DOMAIN b
  PROVE  GroupStep(b, r, i) \in Replays
  <1>1. GroupEndingAt(b, i) \in Seq(DeltaRecords)
    BY GroupIs
  <1> QED BY <1>1, GroupType DEF GroupStep

GroupsUpTo(r, b, is) == FoldLeft(LAMBDA acc, i : GroupStep(b, acc, i), r, is)

\* The groups of a batch, record by record.
LEMMA GroupSteps ==
  ASSUME NEW b, NEW r, NEW rows, b \in Seq(DeltaRecords), r \in Replays, rows \in Seq(DOMAIN b)
  PROVE  /\ GroupsUpTo(r, b, rows) \in Replays
         /\ GroupsUpTo(r, b, <<>>) = r
         /\ \A e \in DOMAIN b : GroupsUpTo(r, b, Append(rows, e)) = GroupStep(b, GroupsUpTo(r, b, rows), e)
  <1> DEFINE V == Replays
             E == DOMAIN b
             Op(v, e) == GroupStep(b, v, e)
             step == [p \in V \X E |-> Op(p[1], p[2])]
             base == r
  <1>1. base \in V /\ \A v \in V, e \in E : Op(v, e) \in V
    BY GroupStepType
  <1>2. ASSUME NEW q \in Seq(E) PROVE GroupsUpTo(r, b, q) = Run(V, step, base, q)
    <2> DEFINE N == Len(q)
               Body(h) == [s \in SUBSET (1..N) |-> IF s = {} THEN base ELSE Op(h[s \ {Max(s)}], q[Max(s)])]
               fold == CHOOSE h : h = Body(h)
    <2>1. N \in Nat /\ DOMAIN q = 1..N /\ \A i \in 1..N : q[i] \in E
      OBVIOUS
    <2>2. GroupsUpTo(r, b, q) = fold[1..N]
      BY <2>1 DEF GroupsUpTo, FoldLeft, MapThenFoldSet
    <2> HIDE DEF N, V, E, Op, base
    <2>3. step \in [V \X E -> V] /\ \A v \in V, e \in E : step[<<v, e>>] = Op(v, e)
      BY <1>1
    <2> HIDE DEF step
    <2>4. PICK g \in [SUBSET (1..N) -> V] : FoldsTo(g, base, step, q)
      <3>1. Stepper(V, E, step, base, q)
        BY <1>1, <2>3 DEF Stepper
      <3> QED BY <3>1, FoldExists DEF N
    <2>5. g = Body(g)
      <3>1. \A s \in SUBSET (1..N) : g[s] = Body(g)[s]
        BY <2>1, <2>3, <2>4, Prefix DEF FoldsTo, N
      <3> QED BY <2>4, <3>1
    <2>6. fold = Body(fold)
      BY <2>5
    <2> HIDE DEF fold
    <2>7. fold[{}] = base
      BY <2>1, <2>6, Prefix
    <2>8. ASSUME NEW i \in 1..N, fold[1..(i - 1)] \in V PROVE fold[1..i] = step[<<fold[1..(i - 1)], q[i]>>]
      <3>1. 1..i \in SUBSET (1..N) /\ 1..i # {} /\ Max(1..i) = i /\ (1..i) \ {i} = 1..(i - 1)
        BY <2>1, Prefix
      <3>2. fold[1..i] = Op(fold[1..(i - 1)], q[i])
        BY <2>6, <3>1
      <3> QED BY <2>1, <2>3, <2>8, <3>2
    <2>9. Unfolds(fold, V, step, base, q)
      BY <2>7, <2>8 DEF Unfolds, N
    <2>10. Stepper(V, E, step, base, q)
      BY <1>1, <2>3 DEF Stepper
    <2>11. fold[1..N] = Run(V, step, base, q)
      BY <2>9, <2>10, FoldIsRun DEF N
    <2> QED BY <2>2, <2>11
  <1>3. rows \in Seq(E) /\ <<>> \in Seq(E) /\ \A e \in E : Append(rows, e) \in Seq(E)
    OBVIOUS
  <1>4. step \in [V \X E -> V] /\ \A v \in V, e \in E : step[<<v, e>>] = Op(v, e)
    BY <1>1
  <1>5. GroupsUpTo(r, b, rows) = Run(V, step, base, rows) /\ GroupsUpTo(r, b, <<>>) = Run(V, step, base, <<>>)
    BY <1>2, <1>3
  <1>6. ASSUME NEW e \in E PROVE GroupsUpTo(r, b, Append(rows, e)) = Run(V, step, base, Append(rows, e))
    BY <1>2, <1>3
  <1> HIDE DEF V, E, Op, step, base
  <1>7. Stepper(V, E, step, base, rows)
    BY <1>1, <1>3, <1>4 DEF Stepper
  <1>8. Run(V, step, base, rows) \in V /\ Run(V, step, base, <<>>) = base
    BY <1>1, <1>7, RunType, RunEmpty
  <1>9. ASSUME NEW e \in E PROVE Run(V, step, base, Append(rows, e)) = Op(Run(V, step, base, rows), e)
    <2>1. Run(V, step, base, Append(rows, e)) = step[<<Run(V, step, base, rows), e>>]
      BY <1>7, RunAppend
    <2> QED BY <1>4, <1>8, <2>1
  <1> QED BY <1>5, <1>6, <1>8, <1>9 DEF V, E, Op, base


(***************************************************************************)
(* A trace of an epoch: what was reconstructed after each record, the      *)
(* groups as a whole.                                                      *)
(***************************************************************************)
TraceStep(r, e) == IF e.kind = "snapshot" THEN ApplySnapshot(r, e) ELSE StageDelta(r, e)

\* The last record of an update, and a record that goes on with the one before it.
EndsUpdate(events, i) ==
  i = Len(events) \/ events[i + 1].kind = "snapshot" \/ Provider(events[i + 1]) # Provider(events[i])
Follows(d, e) ==
  /\ Provider(e) > 0 /\ Position(e) \in Nat \ {0} /\ e.previous = d.sequence
  /\ IF Provider(e) = Provider(d)
     THEN Position(e) = Position(d) + 1 /\ e.sequence = d.sequence + 1
     ELSE Position(e) = 1
  /\ d.kind = "snapshot" => Position(e) = 1

Traced(c, events) ==
  /\ events \in Seq(Records)
  /\ c \in [0..Len(events) -> Replays] /\ c[0] = Uninitialized
  /\ \A i \in 1..Len(events) :
       /\ c[i] = TraceStep(c[i - 1], events[i]) /\ c[i].ok /\ c[i].sequence \in Nat
       /\ EndsUpdate(events, i) => ~Crossed(c[i].book)
       /\ events[i].kind = "delta" => i > 1 /\ Follows(events[i - 1], events[i])

\* The records after a up to b.
Piece(events, a, b) == SubSeq(events, a + 1, b)

IsPiece(p, E, s, a, b) ==
  /\ p \in Seq(E) /\ Len(p) = b - a /\ DOMAIN p = 1..(b - a)
  /\ \A i \in 1..(b - a) : p[i] = s[a + i] /\ a + i \in 1..Len(s)
  /\ a = b => p = <<>>

LEMMA PieceIs ==
  ASSUME NEW E, NEW s \in Seq(E), NEW b \in 0..Len(s), NEW a \in 0..b
  PROVE  IsPiece(Piece(s, a, b), E, s, a, b)
  <1>1. a \in Nat /\ b \in Nat /\ a + 1 >= 1 /\ b <= Len(s) /\ a <= b
    OBVIOUS
  <1>2. \A i \in (a + 1)..b : s[i] \in E
    BY <1>1
  <1>3. Piece(s, a, b) \in Seq(E) /\ Len(Piece(s, a, b)) = b - a
    BY <1>1, <1>2 DEF Piece
  <1>4. \A i \in 1..(b - a) : Piece(s, a, b)[i] = s[a + i] /\ a + i \in 1..Len(s)
    BY <1>1 DEF Piece
  <1> QED BY <1>3, <1>4 DEF IsPiece

LEMMA PieceGrows ==
  ASSUME NEW E, NEW s \in Seq(E), NEW b \in 0..Len(s), NEW a \in 0..b, b < Len(s)
  PROVE  Piece(s, a, b + 1) = Append(Piece(s, a, b), s[b + 1])
  <1> DEFINE p == Piece(s, a, b + 1)
             q == Append(Piece(s, a, b), s[b + 1])
  <1>1. b + 1 \in 0..Len(s) /\ a \in 0..(b + 1) /\ s[b + 1] \in E /\ a \in Int /\ b \in Int
    OBVIOUS
  <1>2. p \in Seq(E) /\ Len(p) = b + 1 - a /\ \A i \in 1..(b + 1 - a) : p[i] = s[a + i]
    <2>1. IsPiece(Piece(s, a, b + 1), E, s, a, b + 1)
      BY ONLY <1>1, PieceIs, s \in Seq(E)
    <2> QED BY <2>1 DEF IsPiece
  <1>3. /\ Piece(s, a, b) \in Seq(E) /\ Len(Piece(s, a, b)) = b - a
        /\ \A i \in 1..(b - a) : Piece(s, a, b)[i] = s[a + i]
    <2>1. IsPiece(Piece(s, a, b), E, s, a, b)
      BY PieceIs
    <2> QED BY <2>1 DEF IsPiece
  <1>4. q \in Seq(E) /\ Len(q) = b + 1 - a
    BY <1>1, <1>3
  <1>5. ASSUME NEW i \in 1..Len(p) PROVE p[i] = q[i]
    <2>1. CASE i <= b - a
      <3>1. i \in 1..(b - a)
        BY <1>1, <1>2, <2>1
      <3>2. q[i] = Piece(s, a, b)[i]
        BY <1>1, <1>3, <3>1
      <3> HIDE DEF p, q
      <3> QED BY <1>2, <1>3, <3>1, <3>2
    <2>2. CASE i = b + 1 - a
      <3>1. PICK r \in Seq(E) : r = Piece(s, a, b)
        BY <1>3
      <3>2. Len(r) = b - a /\ i = Len(r) + 1 /\ a + i = b + 1
        BY <1>1, <1>3, <2>2, <3>1
      <3>3. PICK x \in E : x = s[b + 1]
        BY <1>1
      <3>4. Append(r, x)[Len(r) + 1] = x
        BY ONLY r \in Seq(E), x \in E
      <3>5. q[i] = s[b + 1]
        BY <3>1, <3>2, <3>3, <3>4
      <3> QED BY <1>1, <1>2, <2>2, <3>2, <3>5
    <2>3. i <= b - a \/ i = b + 1 - a
      BY ONLY <1>1, <1>2, i \in 1..Len(p), a \in Int, b \in Int
    <2> QED BY <2>1, <2>2, <2>3
  <1> HIDE DEF p, q
  <1>6. p = q
    BY <1>2, <1>4, <1>5, SameSeq
  <1> QED BY <1>6 DEF p, q

LEMMA PieceOfPiece ==
  ASSUME NEW E, NEW s \in Seq(E), NEW b \in 0..Len(s), NEW a \in 0..b, NEW j \in 0..(b - a), NEW i \in 0..j
  PROVE  Piece(Piece(s, a, b), i, j) = Piece(s, a + i, a + j)
  <1> DEFINE p == Piece(s, a, b)
             q == Piece(s, a + i, a + j)
             r == Piece(p, i, j)
  <1>1. a \in Int /\ b \in Int /\ i \in Int /\ j \in Int /\ a + j \in 0..Len(s) /\ a + i \in 0..(a + j)
    OBVIOUS
  <1>2. p \in Seq(E) /\ Len(p) = b - a /\ \A k \in 1..(b - a) : p[k] = s[a + k]
    <2>1. IsPiece(Piece(s, a, b), E, s, a, b)
      BY PieceIs
    <2> QED BY <2>1 DEF IsPiece
  <1>3. q \in Seq(E) /\ Len(q) = (a + j) - (a + i) /\ \A k \in 1..((a + j) - (a + i)) : q[k] = s[(a + i) + k]
    <2>1. IsPiece(Piece(s, a + i, a + j), E, s, a + i, a + j)
      BY ONLY <1>1, PieceIs, s \in Seq(E)
    <2> QED BY <2>1 DEF IsPiece
  <1> HIDE DEF p, q
  <1>4. j \in 0..Len(p) /\ i \in 0..j
    BY <1>2
  <1>5. r \in Seq(E) /\ Len(r) = j - i /\ \A k \in 1..(j - i) : r[k] = p[i + k]
    <2>1. IsPiece(Piece(p, i, j), E, p, i, j)
      BY ONLY <1>2, <1>4, PieceIs
    <2> QED BY <2>1 DEF IsPiece
  <1> HIDE DEF r
  <1>6. Len(r) = Len(q) /\ \A k \in 1..Len(r) : r[k] = q[k]
    <2>1. Len(r) = Len(q)
      BY <1>1, <1>3, <1>5
    <2>2. ASSUME NEW k \in 1..Len(r) PROVE r[k] = q[k]
      <3>1. k \in 1..(j - i) /\ k \in Int
        BY <1>5
      <3>2. i + k \in 1..(b - a) /\ k \in 1..((a + j) - (a + i)) /\ a + (i + k) = (a + i) + k
        BY <1>1, <3>1
      <3> QED BY <1>2, <1>3, <1>5, <3>1, <3>2
    <2> QED BY <2>1, <2>2
  <1>7. r = q
    BY <1>3, <1>5, <1>6, SameSeq
  <1> QED BY <1>7 DEF p, q, r

LEMMA PiecesJoin ==
  ASSUME NEW E, NEW s \in Seq(E), NEW b \in 0..Len(s), NEW a \in 0..b, NEW m \in a..b
  PROVE  Piece(s, a, m) \o Piece(s, m, b) = Piece(s, a, b)
  <1> DEFINE p == Piece(s, a, m)
             q == Piece(s, m, b)
             r == Piece(s, a, b)
             t == p \o q
             M == m - a
             N == b - m
  <1>1. a \in Int /\ b \in Int /\ m \in Int /\ m \in 0..Len(s) /\ a \in 0..m /\ m \in 0..b /\ M \in Nat /\ N \in Nat
    OBVIOUS
  <1>2. p \in Seq(E) /\ Len(p) = M /\ \A k \in 1..M : p[k] = s[a + k]
    <2>1. IsPiece(Piece(s, a, m), E, s, a, m)
      BY ONLY <1>1, PieceIs, s \in Seq(E)
    <2> QED BY <2>1 DEF IsPiece
  <1>3. q \in Seq(E) /\ Len(q) = N /\ \A k \in 1..N : q[k] = s[m + k]
    <2>1. IsPiece(Piece(s, m, b), E, s, m, b)
      BY ONLY <1>1, PieceIs, s \in Seq(E), b \in 0..Len(s)
    <2> QED BY <2>1 DEF IsPiece
  <1>4. r \in Seq(E) /\ Len(r) = b - a /\ \A k \in 1..(b - a) : r[k] = s[a + k]
    <2>1. IsPiece(Piece(s, a, b), E, s, a, b)
      BY PieceIs
    <2> QED BY <2>1 DEF IsPiece
  <1> HIDE DEF p, q, r, M, N
  <1>5. /\ t \in Seq(E) /\ Len(t) = M + N
        /\ \A i \in 1..M : t[i] = p[i]
        /\ \A i \in (M + 1)..(M + N) : t[i] = q[i - M]
    BY <1>2, <1>3, Joined
  <1> HIDE DEF t
  <1>6. M + N = b - a
    BY <1>1 DEF M, N
  <1>7. ASSUME NEW i \in 1..Len(t) PROVE t[i] = r[i]
    <2>1. CASE i <= M
      <3>1. i \in 1..M /\ i \in 1..(b - a)
        BY <1>1, <1>5, <1>6, <2>1
      <3> QED BY <1>2, <1>4, <1>5, <3>1
    <2>2. CASE i > M
      <3>1. i \in (M + 1)..(M + N) /\ i - M \in 1..N /\ m + (i - M) = a + i /\ i \in 1..(b - a)
        BY <1>1, <1>5, <1>6, <2>2 DEF M
      <3> QED BY <1>3, <1>4, <1>5, <3>1
    <2> QED BY <1>1, <1>5, <2>1, <2>2
  <1>8. t = r
    BY <1>4, <1>5, <1>6, <1>7, SameSeq
  <1> QED BY <1>8 DEF p, q, r, t

(***************************************************************************)
(* A piece of a trace, judged in the ways a batch is judged, ends where    *)
(* the trace says.                                                         *)
(***************************************************************************)
OfKind(events, kind, a, b) == \A i \in (a + 1)..b : events[i].kind = kind

LEMMA TraceTypes ==
  ASSUME NEW c, NEW events, Traced(c, events)
  PROVE  /\ \A i \in 0..Len(events) : c[i] \in Replays /\ c[i].ok
         /\ \A i \in 1..Len(events) :
              /\ events[i].kind = "delta" => events[i] \in DeltaRecords
              /\ events[i].kind = "snapshot" => events[i] \in SnapshotRecords
              /\ events[i].kind # "delta" => events[i].kind = "snapshot"
              /\ c[i] = TraceStep(c[i - 1], events[i]) /\ i - 1 \in 0..Len(events)
  <1>1. Uninitialized.ok
    BY DEF Uninitialized
  <1>2. \A i \in 0..Len(events) : c[i] \in Replays /\ (i # 0 => i \in 1..Len(events))
    BY DEF Traced
  <1>3. \A i \in 1..Len(events) : events[i] \in Records
    BY DEF Traced
  <1>4. \A e \in Records : /\ e.kind = "delta" => e \in DeltaRecords
                           /\ e.kind = "snapshot" => e \in SnapshotRecords
                           /\ e.kind # "delta" => e.kind = "snapshot"
    BY DEF Records, DeltaRecords, SnapshotRecords
  <1>5. \A i \in 1..Len(events) : c[i].ok /\ c[i] = TraceStep(c[i - 1], events[i]) /\ i - 1 \in 0..Len(events)
    BY DEF Traced
  <1> QED BY <1>1, <1>2, <1>3, <1>4, <1>5 DEF Traced

LEMMA GroupRuns ==
  ASSUME NEW c, NEW events, Traced(c, events), NEW b \in 0..Len(events), NEW a \in 0..b,
         OfKind(events, "delta", a, b)
  PROVE  Piece(events, a, b) \in Seq(DeltaRecords) /\ StageAll(c[a], Piece(events, a, b)) = c[b]
  <1> DEFINE P(i) == Piece(events, a, i)
             T == {k \in Nat : a + k <= b => P(a + k) \in Seq(DeltaRecords) /\ StageAll(c[a], P(a + k)) = c[a + k]}
  <1>0. a \in Nat /\ b \in Nat /\ a <= b /\ b <= Len(events) /\ Len(events) \in Nat /\ events \in Seq(Records) /\ c[a] \in Replays
    BY TraceTypes DEF Traced
  <1>1. 0 \in T
    <2>1. IsPiece(Piece(events, a, a), Records, events, a, a)
      BY <1>0, PieceIs
    <2>2. P(a + 0) = <<>> /\ a + 0 = a
      BY <1>0, <2>1 DEF IsPiece
    <2>3. <<>> \in Seq(DeltaRecords) /\ StageAll(c[a], <<>>) = c[a]
      <3>1. <<>> \in Seq(DeltaRecords)
        OBVIOUS
      <3>2. PICK r \in Replays : r = c[a]
        BY <1>0
      <3>3. StageAll(r, <<>>) = r
        BY ONLY <1>0, <3>1, <3>2, StageSteps
      <3> QED BY <3>1, <3>2, <3>3
    <2> QED BY <2>2, <2>3
  <1>2. ASSUME NEW k \in Nat, k \in T PROVE k + 1 \in T
    <2> SUFFICES ASSUME a + (k + 1) <= b
                 PROVE  P(a + (k + 1)) \in Seq(DeltaRecords) /\ StageAll(c[a], P(a + (k + 1))) = c[a + (k + 1)]
      OBVIOUS
    <2>1. /\ a + k \in 0..Len(events) /\ a \in 0..(a + k) /\ a + k < Len(events) /\ a + (k + 1) = (a + k) + 1
          /\ (a + k) + 1 \in (a + 1)..b /\ (a + k) + 1 \in 1..Len(events) /\ ((a + k) + 1) - 1 = a + k /\ a + k <= b
      BY <1>0
    <2>2. P(a + k) \in Seq(DeltaRecords) /\ StageAll(c[a], P(a + k)) = c[a + k]
      BY <1>2, <2>1
    <2>3. P((a + k) + 1) = Append(P(a + k), events[(a + k) + 1])
      BY <1>0, <2>1, PieceGrows
    <2>4. events[(a + k) + 1] \in DeltaRecords /\ events[(a + k) + 1].kind = "delta"
      BY <2>1, TraceTypes DEF OfKind
    <2>5. c[(a + k) + 1] = StageDelta(c[a + k], events[(a + k) + 1])
      <3>1. PICK i \in 1..Len(events) : i = (a + k) + 1 /\ i - 1 = a + k
        BY <2>1
      <3>2. c[i] = TraceStep(c[i - 1], events[i])
        BY TraceTypes
      <3>3. c[i] = StageDelta(c[i - 1], events[i])
        BY <2>4, <3>1, <3>2 DEF TraceStep
      <3> QED BY <3>1, <3>3
    <2> HIDE DEF P
    <2>6. StageAll(c[a], Append(P(a + k), events[(a + k) + 1])) = StageDelta(c[a + k], events[(a + k) + 1])
      BY <1>0, <2>2, <2>4, StageSteps
    <2>7. Append(P(a + k), events[(a + k) + 1]) \in Seq(DeltaRecords)
      BY <2>2, <2>4
    <2>8. P((a + k) + 1) \in Seq(DeltaRecords) /\ StageAll(c[a], P((a + k) + 1)) = c[(a + k) + 1]
      BY <2>3, <2>5, <2>6, <2>7
    <2>9. a + (k + 1) = (a + k) + 1
      BY <2>1
    <2> QED BY ONLY <2>8, <2>9
  <1>3. Nat \subseteq T
    <2> HIDE DEF T
    <2> QED BY <1>1, <1>2, NatSetInduction
  <1>4. b - a \in Nat /\ a + (b - a) = b
    BY <1>0
  <1> QED BY <1>3, <1>4

LEMMA SnapshotsRun ==
  ASSUME NEW c, NEW events, Traced(c, events), NEW b \in 0..Len(events), NEW a \in 0..b,
         OfKind(events, "snapshot", a, b)
  PROVE  Piece(events, a, b) \in Seq(SnapshotRecords) /\ Replay(c[a], Piece(events, a, b)) = c[b]
  <1> DEFINE P(i) == Piece(events, a, i)
             T == {k \in Nat : a + k <= b => P(a + k) \in Seq(SnapshotRecords) /\ Replay(c[a], P(a + k)) = c[a + k]}
  <1>0. a \in Nat /\ b \in Nat /\ a <= b /\ b <= Len(events) /\ Len(events) \in Nat /\ events \in Seq(Records) /\ c[a] \in Replays
    BY TraceTypes DEF Traced
  <1>1. 0 \in T
    <2>1. IsPiece(Piece(events, a, a), Records, events, a, a)
      BY <1>0, PieceIs
    <2>2. P(a + 0) = <<>> /\ a + 0 = a
      BY <1>0, <2>1 DEF IsPiece
    <2>3. <<>> \in Seq(SnapshotRecords) /\ Replay(c[a], <<>>) = c[a]
      <3>1. <<>> \in Seq(SnapshotRecords)
        OBVIOUS
      <3>2. PICK r \in Replays : r = c[a]
        BY <1>0
      <3>3. Replay(r, <<>>) = r
        BY ONLY <1>0, <3>1, <3>2, SnapshotSteps
      <3> QED BY <3>1, <3>2, <3>3
    <2> QED BY <2>2, <2>3
  <1>2. ASSUME NEW k \in Nat, k \in T PROVE k + 1 \in T
    <2> SUFFICES ASSUME a + (k + 1) <= b
                 PROVE  P(a + (k + 1)) \in Seq(SnapshotRecords) /\ Replay(c[a], P(a + (k + 1))) = c[a + (k + 1)]
      OBVIOUS
    <2>1. /\ a + k \in 0..Len(events) /\ a \in 0..(a + k) /\ a + k < Len(events) /\ a + (k + 1) = (a + k) + 1
          /\ (a + k) + 1 \in (a + 1)..b /\ (a + k) + 1 \in 1..Len(events) /\ ((a + k) + 1) - 1 = a + k /\ a + k <= b
      BY <1>0
    <2>2. P(a + k) \in Seq(SnapshotRecords) /\ Replay(c[a], P(a + k)) = c[a + k]
      BY <1>2, <2>1
    <2>3. P((a + k) + 1) = Append(P(a + k), events[(a + k) + 1])
      BY <1>0, <2>1, PieceGrows
    <2>4. events[(a + k) + 1] \in SnapshotRecords /\ events[(a + k) + 1].kind = "snapshot"
      BY <2>1, TraceTypes DEF OfKind
    <2>5. c[(a + k) + 1] = Apply(c[a + k], events[(a + k) + 1])
      <3>1. PICK i \in 1..Len(events) : i = (a + k) + 1 /\ i - 1 = a + k
        BY <2>1
      <3>2. c[i] = TraceStep(c[i - 1], events[i])
        BY TraceTypes
      <3>3. c[i - 1] \in Replays /\ c[i - 1].ok
        BY <2>1, <3>1, TraceTypes
      <3>4. events[i] \in SnapshotRecords /\ events[i].kind = "snapshot"
        BY <2>4, <3>1
      <3>5. c[i] = ApplySnapshot(c[i - 1], events[i])
        BY <3>2, <3>4 DEF TraceStep
      <3>6. Apply(c[i - 1], events[i]) = ApplySnapshot(c[i - 1], events[i])
        BY <3>3, <3>4, SnapshotType
      <3> QED BY <3>1, <3>5, <3>6
    <2> HIDE DEF P
    <2>6. Replay(c[a], Append(P(a + k), events[(a + k) + 1])) = Apply(c[a + k], events[(a + k) + 1])
      BY <1>0, <2>2, <2>4, SnapshotSteps
    <2>7. Append(P(a + k), events[(a + k) + 1]) \in Seq(SnapshotRecords)
      BY <2>2, <2>4
    <2>8. P((a + k) + 1) \in Seq(SnapshotRecords) /\ Replay(c[a], P((a + k) + 1)) = c[(a + k) + 1]
      BY <2>3, <2>5, <2>6, <2>7
    <2>9. a + (k + 1) = (a + k) + 1
      BY <2>1
    <2> QED BY ONLY <2>8, <2>9
  <1>3. Nat \subseteq T
    <2> HIDE DEF T
    <2> QED BY <1>1, <1>2, NatSetInduction
  <1>4. b - a \in Nat /\ a + (b - a) = b
    BY <1>0
  <1> QED BY <1>3, <1>4

\* The group after the last end is all that follows it.
LEMMA GroupAfterEnd ==
  ASSUME NEW E, NEW q \in Seq(E), NEW k \in DOMAIN q, NEW m \in 0..(k - 1),
         m = 0 \/ m \in GroupEnds(q), \A i \in (m + 1)..(k - 1) : i \notin GroupEnds(q)
  PROVE  GroupEndingAt(q, k) = Piece(q, m, k)
  <1> DEFINE s == {j \in GroupStarts(q) : j <= k}
  <1>1. DOMAIN q = 1..Len(q) /\ Len(q) \in Nat /\ k \in Nat /\ k <= Len(q) /\ m \in Nat /\ m + 1 \in 1..k
    OBVIOUS
  <1>2. m + 1 \in s
    <2>1. CASE m = 0
      BY <1>1, <2>1 DEF GroupStarts
    <2>2. CASE m # 0 /\ m \in GroupEnds(q)
      <3>0. m # Len(q)
        OBVIOUS
      <3>1. Provider(q[m + 1]) # Provider(q[m])
        BY <2>2, <3>0 DEF GroupEnds
      <3>2. (m + 1) - 1 = m /\ m + 1 \in DOMAIN q /\ m + 1 <= k
        BY <1>1
      <3> QED BY <3>1, <3>2 DEF GroupStarts
    <2> QED BY <2>1, <2>2
  <1>3. ASSUME NEW j \in s PROVE m + 1 >= j
    <2> SUFFICES ASSUME j > m + 1 PROVE FALSE
      BY <1>1 DEF GroupStarts
    <2>1. j \in Nat /\ j <= k /\ j - 1 \in (m + 1)..(k - 1) /\ j - 1 \in DOMAIN q /\ (j - 1) + 1 = j
      BY <1>1 DEF GroupStarts
    <2>2. Provider(q[j - 1]) # Provider(q[j])
      BY <1>1, <2>1 DEF GroupStarts
    <2>3. j - 1 \in GroupEnds(q)
      BY <2>1, <2>2 DEF GroupEnds
    <2> QED BY <2>1, <2>3
  <1>4. s \in SUBSET (1..k)
    BY <1>1 DEF GroupStarts
  <1> HIDE DEF s
  <1>5. Max(s) = m + 1
    BY <1>1, <1>2, <1>3, <1>4, MaxIs
  <1> QED BY <1>5 DEF GroupEndingAt, Piece, s

Counted(k) == [i \in 1..k |-> i]

LEMMA CountedGrows ==
  ASSUME NEW N \in Nat, NEW k \in 0..N
  PROVE  /\ Counted(k) \in Seq(1..N)
         /\ k < N => Counted(k + 1) = Append(Counted(k), k + 1) /\ k + 1 \in 1..N
         /\ k = 0 => Counted(k) = <<>>
  BY DEF Counted

\* Applied group by group, deltas that end an update reach the end of their piece.
LEMMA GroupsRun ==
  ASSUME NEW c, NEW events, Traced(c, events), NEW b \in 0..Len(events), NEW a \in 0..b,
         a < b, OfKind(events, "delta", a, b), EndsUpdate(events, b)
  PROVE  ApplyGroups(c[a], Piece(events, a, b)) = c[b]
  <1> DEFINE q == Piece(events, a, b)
             N == b - a
             G(k) == GroupsUpTo(c[a], q, Counted(k))
             AppliedTo(m, k) == /\ G(k) = c[a + m] /\ (m = 0 \/ m \in GroupEnds(q))
                           /\ \A i \in (m + 1)..k : i \notin GroupEnds(q)
             T == {k \in Nat : k <= N => \E m \in 0..k : AppliedTo(m, k)}
  <1>0. a \in Nat /\ b \in Nat /\ b <= Len(events) /\ Len(events) \in Nat /\ events \in Seq(Records) /\ c[a] \in Replays
        /\ N \in Nat /\ N > 0
    <2>1. events \in Seq(Records)
      BY DEF Traced
    <2>2. a \in Nat /\ b \in Nat /\ b <= Len(events) /\ Len(events) \in Nat /\ N \in Nat /\ N > 0
      BY <2>1
    <2>3. a \in 0..Len(events)
      BY <2>2
    <2>4. c[a] \in Replays
      BY <2>3, TraceTypes
    <2> QED BY <2>1, <2>2, <2>4
  <1>1. q \in Seq(DeltaRecords) /\ Len(q) = N /\ DOMAIN q = 1..N
        /\ \A i \in 1..N : q[i] = events[a + i] /\ a + i \in 1..Len(events)
    <2>1. IsPiece(Piece(events, a, b), Records, events, a, b)
      BY <1>0, PieceIs
    <2>2. q \in Seq(DeltaRecords)
      BY GroupRuns
    <2> QED BY <2>1, <2>2 DEF IsPiece
  <1>2. \A m \in 0..N : c[a + m].ok /\ Initialized(c[a + m])
    <2>1. a # 0
      <3>1. a + 1 \in (a + 1)..b /\ a + 1 \in 1..Len(events)
        BY <1>0
      <3>2. a + 1 > 1
        BY <3>1 DEF OfKind, Traced
      <3> QED BY <3>2
    <2>2. \A m \in 0..N : a + m \in 1..Len(events)
      BY <1>0, <2>1
    <2> QED BY <2>2 DEF Traced, Initialized
  <1>3. ASSUME NEW i \in GroupEnds(q) PROVE EndsUpdate(events, a + i)
    <2>1. CASE i = Len(q)
      BY <1>0, <1>1, <2>1
    <2>2. CASE i # Len(q)
      <3>1. Provider(q[i + 1]) # Provider(q[i]) /\ i \in 1..N
        BY <1>1, <2>2 DEF GroupEnds
      <3>2. i + 1 \in 1..N /\ a + (i + 1) = (a + i) + 1
        BY <1>0, <1>1, <2>2, <3>1
      <3> QED BY <1>1, <3>1, <3>2 DEF EndsUpdate
    <2> QED BY <2>1, <2>2
  <1>4. 0 \in T
    <2>1. Counted(0) = <<>>
      BY <1>0, CountedGrows
    <2>2. <<>> \in Seq(DOMAIN q)
      OBVIOUS
    <2>3. PICK r \in Replays : r = c[a]
      BY <1>0
    <2>4. GroupsUpTo(r, q, <<>>) = r
      BY ONLY <1>1, <2>2, GroupSteps
    <2>5. AppliedTo(0, 0)
      BY <1>0, <2>1, <2>3, <2>4
    <2> QED BY <2>5
  <1>5. ASSUME NEW k \in Nat, k \in T PROVE k + 1 \in T
    <2> SUFFICES ASSUME k + 1 <= N PROVE \E m \in 0..(k + 1) : AppliedTo(m, k + 1)
      OBVIOUS
    <2>1. PICK m \in 0..k : AppliedTo(m, k)
      BY <1>0, <1>5
    <2>2. Counted(k) \in Seq(DOMAIN q) /\ Counted(k + 1) = Append(Counted(k), k + 1) /\ k + 1 \in DOMAIN q
      <3>1. PICK n \in Nat : n = N
        BY <1>0
      <3>2. k \in 0..n /\ k < n
        BY <1>0, <3>1
      <3>3. Counted(k) \in Seq(1..n) /\ Counted(k + 1) = Append(Counted(k), k + 1) /\ k + 1 \in 1..n
        BY ONLY n \in Nat, <3>2, CountedGrows
      <3> QED BY <1>1, <3>1, <3>3
    <2>3. G(k + 1) = GroupStep(q, G(k), k + 1)
      <3>1. PICK r \in Replays : r = c[a]
        BY <1>0
      <3>2. GroupsUpTo(r, q, Append(Counted(k), k + 1)) = GroupStep(q, GroupsUpTo(r, q, Counted(k)), k + 1)
        BY ONLY <1>1, <2>2, GroupSteps
      <3> QED BY <2>2, <3>1, <3>2
    <2>4. CASE k + 1 \notin GroupEnds(q)
      <3>1. G(k + 1) = G(k)
        BY <2>3, <2>4 DEF GroupStep
      <3>2. \A i \in (m + 1)..(k + 1) : i \notin GroupEnds(q)
        BY <2>1, <2>4
      <3>3. AppliedTo(m, k + 1)
        <4> HIDE DEF G
        <4> QED BY <2>1, <3>1, <3>2
      <3> HIDE DEF AppliedTo
      <3> QED BY <3>3
    <2>5. CASE k + 1 \in GroupEnds(q)
      <3>1. GroupEndingAt(q, k + 1) = Piece(q, m, k + 1)
        <4>1. m \in 0..((k + 1) - 1) /\ \A i \in (m + 1)..((k + 1) - 1) : i \notin GroupEnds(q)
          BY <2>1
        <4>2. m = 0 \/ m \in GroupEnds(q)
          BY <2>1
        <4> HIDE DEF q
        <4> QED BY ONLY <1>1, <2>2, <4>1, <4>2, GroupAfterEnd
      <3>2. Piece(q, m, k + 1) = Piece(events, a + m, a + (k + 1))
        <4>1. k + 1 \in 0..(b - a) /\ m \in 0..(k + 1)
          BY <1>0
        <4>2. b \in 0..Len(events) /\ a \in 0..b /\ events \in Seq(Records)
          BY <1>0
        <4> QED BY ONLY <4>1, <4>2, PieceOfPiece DEF q
      <3>3. StageAll(c[a + m], Piece(events, a + m, a + (k + 1))) = c[a + (k + 1)]
        <4>1. a + (k + 1) \in 0..Len(events) /\ a + m \in 0..(a + (k + 1))
          BY <1>0
        <4>2. OfKind(events, "delta", a + m, a + (k + 1))
          BY <1>0 DEF OfKind
        <4> QED BY <4>1, <4>2, GroupRuns
      <3>4. ~Crossed(c[a + (k + 1)].book)
        <4>1. EndsUpdate(events, a + (k + 1)) /\ a + (k + 1) \in 1..Len(events)
          BY <1>1, <1>3, <2>2, <2>5
        <4> QED BY <4>1 DEF Traced
      <3>5. c[a + m].ok /\ Initialized(c[a + m])
        BY <1>0, <1>2
      <3>6. ApplyGroup(c[a + m], GroupEndingAt(q, k + 1)) = c[a + (k + 1)]
        BY <3>1, <3>2, <3>3, <3>4, <3>5 DEF ApplyGroup, StageAll
      <3>7. G(k + 1) = c[a + (k + 1)]
        <4> HIDE DEF G
        <4> QED BY <2>1, <2>3, <2>5, <3>6 DEF GroupStep
      <3>8. AppliedTo(k + 1, k + 1)
        <4> HIDE DEF G
        <4> QED BY <2>5, <3>7
      <3> HIDE DEF AppliedTo
      <3> QED BY <3>8
    <2> QED BY <2>4, <2>5
  <1>6. N \in T
    <2> HIDE DEF T
    <2> QED BY <1>0, <1>4, <1>5, NatSetInduction
  <1>7. PICK m \in 0..N : AppliedTo(m, N)
    BY <1>0, <1>6
  <1>8. m = N
    <2>1. N \in GroupEnds(q)
      BY <1>0, <1>1 DEF GroupEnds
    <2>2. m < N => N \in (m + 1)..N
      BY <1>0
    <2> HIDE DEF q
    <2> QED BY <1>0, <1>7, <2>1, <2>2
  <1>9. ApplyGroups(c[a], q) = G(N)
    BY <1>1 DEF ApplyGroups, GroupsUpTo, Counted
  <1>10. a + N = b
    BY <1>0
  <1> HIDE DEF G, N
  <1> QED BY <1>7, <1>8, <1>9, <1>10

(***************************************************************************)
(* What a batch that is a piece of a trace is found to be.                 *)
(***************************************************************************)
\* A piece of deltas is chained and encoded; it is complete if it starts an update.
LEMMA DeltaPiece ==
  ASSUME NEW c, NEW events, Traced(c, events), NEW b \in 0..Len(events), NEW a \in 0..b,
         a < b, OfKind(events, "delta", a, b)
  PROVE  /\ Encoded(Piece(events, a, b)) /\ Chained(Piece(events, a, b))
         /\ Position(events[a + 1]) = 1 => Complete(Piece(events, a, b))
  <1> DEFINE q == Piece(events, a, b)
             N == b - a
  <1>0. a \in Nat /\ b \in Nat /\ b <= Len(events) /\ Len(events) \in Nat /\ events \in Seq(Records)
        /\ N \in Nat /\ N > 0
    BY DEF Traced
  <1>1. Len(q) = N /\ DOMAIN q = 1..N /\ \A i \in 1..N : q[i] = events[a + i] /\ a + i \in 1..Len(events)
    <2>1. IsPiece(Piece(events, a, b), Records, events, a, b)
      BY <1>0, PieceIs
    <2> QED BY <2>1 DEF IsPiece
  <1>2. ASSUME NEW i \in 1..N
        PROVE  /\ q[i].kind = "delta" /\ Follows(events[a + i - 1], q[i])
               /\ i > 1 => i - 1 \in 1..N /\ q[i - 1] = events[a + i - 1]
    <2>1. a + i \in (a + 1)..b
      BY <1>0
    <2>2. events[a + i].kind = "delta" /\ a + i \in 1..Len(events)
      BY <1>1, <2>1 DEF OfKind
    <2>3. Follows(events[(a + i) - 1], events[a + i])
      BY <2>2 DEF Traced
    <2>4. i > 1 => i - 1 \in 1..N /\ a + (i - 1) = a + i - 1
      BY <1>0
    <2>5. q[i] = events[a + i] /\ (a + i) - 1 = a + i - 1
      BY <1>0, <1>1
    <2>6. ASSUME i > 1 PROVE i - 1 \in 1..N /\ q[i - 1] = events[a + i - 1]
      <3>1. i - 1 \in 1..N /\ a + (i - 1) = a + i - 1
        BY <2>4, <2>6
      <3>2. q[i - 1] = events[a + (i - 1)]
        BY <1>1, <3>1
      <3> QED BY <3>1, <3>2
    <2>7. q[i].kind = "delta" /\ Follows(events[a + i - 1], q[i])
      BY <2>2, <2>3, <2>5
    <2> HIDE DEF q, N
    <2> QED BY <2>6, <2>7
  <1>3. \A i \in 2..N : i \in 1..N /\ i > 1
    BY <1>0
  <1>4. 1 \in 1..N /\ q[1] = events[a + 1]
    BY <1>0, <1>1
  <1> HIDE DEF q, N
  <1>5. Position(q[1]) > 0
    BY <1>2, <1>4 DEF Follows
  <1>6. \A i \in 2..N : Position(q[i]) = IF Provider(q[i]) = Provider(q[i - 1]) THEN Position(q[i - 1]) + 1 ELSE 1
    BY <1>2, <1>3 DEF Follows
  <1>7. \A i \in 2..N : q[i].previous = q[i - 1].sequence
    BY <1>2, <1>3 DEF Follows
  <1>8. \A i \in 1..N : q[i].kind = "delta" /\ Provider(q[i]) > 0
    BY <1>2 DEF Follows
  <1>9. Encoded(q) /\ Chained(q)
    BY <1>1, <1>5, <1>6, <1>7, <1>8 DEF Encoded, Chained
  <1> QED BY <1>4, <1>9 DEF Complete, q

\* A batch of one kind that starts and ends with whole updates.
Whole(events, a, b) ==
  \/ OfKind(events, "snapshot", a, b)
  \/ OfKind(events, "delta", a, b) /\ Position(events[a + 1]) = 1 /\ EndsUpdate(events, b)

LEMMA WholePieceRuns ==
  ASSUME NEW c, NEW events, Traced(c, events), NEW b \in 0..Len(events), NEW a \in 0..b,
         a < b, Whole(events, a, b)
  PROVE  ValidateBatch(c[a], Piece(events, a, b)) = c[b]
  <1> DEFINE q == Piece(events, a, b)
  <1>1. q[1] = events[a + 1] /\ a + 1 \in (a + 1)..b
    <2>1. events \in Seq(Records) /\ 1 \in 1..(b - a) /\ a + 1 \in (a + 1)..b
      BY DEF Traced
    <2>2. IsPiece(Piece(events, a, b), Records, events, a, b)
      BY <2>1, PieceIs
    <2> QED BY <2>1, <2>2 DEF IsPiece
  <1>2. CASE OfKind(events, "snapshot", a, b)
    <2>1. q[1].kind = "snapshot"
      BY <1>1, <1>2 DEF OfKind
    <2>2. Replay(c[a], q) = c[b]
      BY <1>2, SnapshotsRun
    <2> QED BY <2>1, <2>2 DEF ValidateBatch
  <1>3. CASE OfKind(events, "delta", a, b) /\ Position(events[a + 1]) = 1 /\ EndsUpdate(events, b)
    <2>1. q[1].kind = "delta"
      BY <1>1, <1>3 DEF OfKind
    <2>2. Chained(q) /\ Complete(q)
      BY <1>3, DeltaPiece
    <2>3. ApplyGroups(c[a], q) = c[b]
      BY <1>3, GroupsRun
    <2> QED BY <2>1, <2>2, <2>3 DEF ValidateBatch
  <1> QED BY <1>2, <1>3 DEF Whole

\* Such batches: what is published is made of these alone.
Pieces ==
  {q \in Seq(SnapshotRecords) : q # <<>>} \union
  {q \in Seq(DeltaRecords) : q # <<>> /\ Chained(q) /\ Complete(q)}

LEMMA WholePieceIs ==
  ASSUME NEW c, NEW events, Traced(c, events), NEW b \in 0..Len(events), NEW a \in 0..b,
         a < b, Whole(events, a, b)
  PROVE  Piece(events, a, b) \in Pieces
  <1>1. Piece(events, a, b) # <<>>
    <2>1. events \in Seq(Records) /\ b - a # 0
      BY DEF Traced
    <2>2. IsPiece(Piece(events, a, b), Records, events, a, b)
      BY <2>1, PieceIs
    <2> QED BY <2>1, <2>2 DEF IsPiece
  <1>2. CASE OfKind(events, "snapshot", a, b)
    BY <1>1, <1>2, SnapshotsRun DEF Pieces
  <1>3. CASE OfKind(events, "delta", a, b) /\ Position(events[a + 1]) = 1
    BY <1>1, <1>3, GroupRuns, DeltaPiece DEF Pieces
  <1> QED BY <1>2, <1>3 DEF Whole

LEMMA ValidateType ==
  ASSUME NEW r \in Replays, NEW q \in Pieces PROVE ValidateBatch(r, q) \in Replays
  <1>1. CASE q \in Seq(SnapshotRecords) /\ q # <<>>
    <2>1. q[1].kind = "snapshot"
      <3>1. q[1] \in SnapshotRecords
        BY <1>1
      <3> QED BY <3>1 DEF SnapshotRecords
    <2>2. Replay(r, q) \in Replays
      BY <1>1, SnapshotSteps
    <2> QED BY <2>1, <2>2 DEF ValidateBatch
  <1>2. CASE q \in Seq(DeltaRecords) /\ q # <<>> /\ Chained(q) /\ Complete(q)
    <2>1. q[1].kind = "delta"
      <3>1. q[1] \in DeltaRecords
        BY <1>2
      <3> QED BY <3>1 DEF DeltaRecords
    <2>2. ApplyGroups(r, q) \in Replays
      <3>1. [i \in DOMAIN q |-> i] \in Seq(DOMAIN q)
        <4>1. DOMAIN q = 1..Len(q) /\ Len(q) \in Nat
          BY <1>2
        <4> QED BY <4>1
      <3>2. PICK is \in Seq(DOMAIN q) : is = [i \in DOMAIN q |-> i]
        BY <3>1
      <3>3. GroupsUpTo(r, q, is) \in Replays
        BY <1>2, GroupSteps
      <3> QED BY <3>2, <3>3 DEF ApplyGroups, GroupsUpTo
    <2> QED BY <1>2, <2>1, <2>2 DEF ValidateBatch
  <1> QED BY <1>1, <1>2 DEF Pieces

Validated(bs) == FoldLeft(ValidateBatch, Uninitialized, bs)

\* The batches of an epoch, one by one.
LEMMA ValidateSteps ==
  ASSUME NEW rows, rows \in Seq(Pieces)
  PROVE  /\ Validated(rows) \in Replays
         /\ Validated(<<>>) = Uninitialized
         /\ \A e \in Pieces : Validated(Append(rows, e)) = ValidateBatch(Validated(rows), e)
  <1> DEFINE V == Replays
             E == Pieces
             Op(v, e) == ValidateBatch(v, e)
             step == [p \in V \X E |-> Op(p[1], p[2])]
             base == Uninitialized
  <1>1. base \in V /\ \A v \in V, e \in E : Op(v, e) \in V
    BY FirstReplays, ValidateType
  <1>2. ASSUME NEW q \in Seq(E) PROVE Validated(q) = Run(V, step, base, q)
    <2> DEFINE N == Len(q)
               Body(h) == [s \in SUBSET (1..N) |-> IF s = {} THEN base ELSE Op(h[s \ {Max(s)}], q[Max(s)])]
               fold == CHOOSE h : h = Body(h)
    <2>1. N \in Nat /\ DOMAIN q = 1..N /\ \A i \in 1..N : q[i] \in E
      OBVIOUS
    <2>2. Validated(q) = fold[1..N]
      BY <2>1 DEF Validated, FoldLeft, MapThenFoldSet
    <2> HIDE DEF N, V, E, Op, base
    <2>3. step \in [V \X E -> V] /\ \A v \in V, e \in E : step[<<v, e>>] = Op(v, e)
      BY <1>1
    <2> HIDE DEF step
    <2>4. PICK g \in [SUBSET (1..N) -> V] : FoldsTo(g, base, step, q)
      <3>1. Stepper(V, E, step, base, q)
        BY <1>1, <2>3 DEF Stepper
      <3> QED BY <3>1, FoldExists DEF N
    <2>5. g = Body(g)
      <3>1. \A s \in SUBSET (1..N) : g[s] = Body(g)[s]
        BY <2>1, <2>3, <2>4, Prefix DEF FoldsTo, N
      <3> QED BY <2>4, <3>1
    <2>6. fold = Body(fold)
      BY <2>5
    <2> HIDE DEF fold
    <2>7. fold[{}] = base
      BY <2>1, <2>6, Prefix
    <2>8. ASSUME NEW i \in 1..N, fold[1..(i - 1)] \in V PROVE fold[1..i] = step[<<fold[1..(i - 1)], q[i]>>]
      <3>1. 1..i \in SUBSET (1..N) /\ 1..i # {} /\ Max(1..i) = i /\ (1..i) \ {i} = 1..(i - 1)
        BY <2>1, Prefix
      <3>2. fold[1..i] = Op(fold[1..(i - 1)], q[i])
        BY <2>6, <3>1
      <3> QED BY <2>1, <2>3, <2>8, <3>2
    <2>9. Unfolds(fold, V, step, base, q)
      BY <2>7, <2>8 DEF Unfolds, N
    <2>10. Stepper(V, E, step, base, q)
      BY <1>1, <2>3 DEF Stepper
    <2>11. fold[1..N] = Run(V, step, base, q)
      BY <2>9, <2>10, FoldIsRun DEF N
    <2> QED BY <2>2, <2>11
  <1>3. rows \in Seq(E) /\ <<>> \in Seq(E) /\ \A e \in E : Append(rows, e) \in Seq(E)
    OBVIOUS
  <1>4. step \in [V \X E -> V] /\ \A v \in V, e \in E : step[<<v, e>>] = Op(v, e)
    BY <1>1
  <1>5. Validated(rows) = Run(V, step, base, rows) /\ Validated(<<>>) = Run(V, step, base, <<>>)
    BY <1>2, <1>3
  <1>6. ASSUME NEW e \in E PROVE Validated(Append(rows, e)) = Run(V, step, base, Append(rows, e))
    BY <1>2, <1>3
  <1> HIDE DEF V, E, Op, step, base
  <1>7. Stepper(V, E, step, base, rows)
    BY <1>1, <1>3, <1>4 DEF Stepper
  <1>8. Run(V, step, base, rows) \in V /\ Run(V, step, base, <<>>) = base
    BY <1>1, <1>7, RunType, RunEmpty
  <1>9. ASSUME NEW e \in E PROVE Run(V, step, base, Append(rows, e)) = Op(Run(V, step, base, rows), e)
    <2>1. Run(V, step, base, Append(rows, e)) = step[<<Run(V, step, base, rows), e>>]
      BY <1>7, RunAppend
    <2> QED BY <1>4, <1>8, <2>1
  <1> QED BY <1>5, <1>6, <1>8, <1>9 DEF V, E, Op, base


(***************************************************************************)
(* The input batches: pieces of one kind, cut anywhere.                    *)
(***************************************************************************)
Replaces(t, S, s, x) ==
  /\ t \in Seq(S) /\ Len(t) = Len(s) /\ t[Len(s)] = x
  /\ \A i \in 1..(Len(s) - 1) : t[i] = s[i]

LEMMA LastReplaced ==
  ASSUME NEW S, NEW s \in Seq(S), s # <<>>, NEW x \in S
  PROVE  /\ Len(s) \in Nat \ {0} /\ Last(s) = s[Len(s)] /\ Last(s) \in S
         /\ Replaces(Append(Front(s), x), S, s, x)
  <1>1. Len(s) \in Nat \ {0} /\ Last(s) = s[Len(s)] /\ Last(s) \in S
    BY DEF Last
  <1>2. PICK N \in Nat : N = Len(s) - 1
    BY <1>1
  <1>3. Front(s) \in Seq(S) /\ Len(Front(s)) = N /\ \A i \in 1..N : Front(s)[i] = s[i]
    BY <1>1, <1>2 DEF Front
  <1>4. PICK p \in Seq(S) : p = Front(s)
    BY <1>3
  <1>5. Append(p, x) \in Seq(S) /\ Len(Append(p, x)) = N + 1 /\ Append(p, x)[N + 1] = x
        /\ \A i \in 1..N : Append(p, x)[i] = p[i]
    BY <1>3, <1>4
  <1> QED BY <1>1, <1>2, <1>3, <1>4, <1>5 DEF Replaces

LEMMA CutType ==
  ASSUME NEW bs \in Seq(Seq(Records)), NEW e \in Records, NEW n
  PROVE  Cut(bs, e, n) \in Seq(Seq(Records))
  <1>1. <<e>> \in Seq(Records)
    OBVIOUS
  <1>2. Append(bs, <<e>>) \in Seq(Seq(Records))
    BY <1>1
  <1>3. ASSUME bs # <<>> PROVE Append(Front(bs), Append(Last(bs), e)) \in Seq(Seq(Records))
    <2>1. PICK final \in Seq(Records) : final = Last(bs)
      BY <1>1, <1>3, LastReplaced
    <2>2. Append(final, e) \in Seq(Records)
      BY <2>1
    <2> QED BY <1>3, <2>1, <2>2, LastReplaced DEF Replaces
  <1> QED BY <1>2, <1>3 DEF Cut

\* The records of an epoch, cut into batches one by one.
LEMMA CutSteps ==
  ASSUME NEW n, NEW rows, n \in Nat \ {0}, rows \in Seq(Records)
  PROVE  /\ Batches(rows, n) \in Seq(Seq(Records))
         /\ Batches(<<>>, n) = <<>>
         /\ \A e \in Records : Batches(Append(rows, e), n) = Cut(Batches(rows, n), e, n)
  <1> DEFINE V == Seq(Seq(Records))
             E == Records
             Op(v, e) == Cut(v, e, n)
             step == [p \in V \X E |-> Op(p[1], p[2])]
             base == <<>>
  <1>1. base \in V /\ \A v \in V, e \in E : Op(v, e) \in V
    BY CutType
  <1>2. ASSUME NEW q \in Seq(E) PROVE Batches(q, n) = Run(V, step, base, q)
    <2> DEFINE N == Len(q)
               Body(h) == [s \in SUBSET (1..N) |-> IF s = {} THEN base ELSE Op(h[s \ {Max(s)}], q[Max(s)])]
               fold == CHOOSE h : h = Body(h)
    <2>1. N \in Nat /\ DOMAIN q = 1..N /\ \A i \in 1..N : q[i] \in E
      OBVIOUS
    <2>2. Batches(q, n) = fold[1..N]
      BY <2>1 DEF Batches, FoldLeft, MapThenFoldSet
    <2> HIDE DEF N, V, E, Op, base
    <2>3. step \in [V \X E -> V] /\ \A v \in V, e \in E : step[<<v, e>>] = Op(v, e)
      BY <1>1
    <2> HIDE DEF step
    <2>4. PICK g \in [SUBSET (1..N) -> V] : FoldsTo(g, base, step, q)
      <3>1. Stepper(V, E, step, base, q)
        BY <1>1, <2>3 DEF Stepper
      <3> QED BY <3>1, FoldExists DEF N
    <2>5. g = Body(g)
      <3>1. \A s \in SUBSET (1..N) : g[s] = Body(g)[s]
        BY <2>1, <2>3, <2>4, Prefix DEF FoldsTo, N
      <3> QED BY <2>4, <3>1
    <2>6. fold = Body(fold)
      BY <2>5
    <2> HIDE DEF fold
    <2>7. fold[{}] = base
      BY <2>1, <2>6, Prefix
    <2>8. ASSUME NEW i \in 1..N, fold[1..(i - 1)] \in V PROVE fold[1..i] = step[<<fold[1..(i - 1)], q[i]>>]
      <3>1. 1..i \in SUBSET (1..N) /\ 1..i # {} /\ Max(1..i) = i /\ (1..i) \ {i} = 1..(i - 1)
        BY <2>1, Prefix
      <3>2. fold[1..i] = Op(fold[1..(i - 1)], q[i])
        BY <2>6, <3>1
      <3> QED BY <2>1, <2>3, <2>8, <3>2
    <2>9. Unfolds(fold, V, step, base, q)
      BY <2>7, <2>8 DEF Unfolds, N
    <2>10. Stepper(V, E, step, base, q)
      BY <1>1, <2>3 DEF Stepper
    <2>11. fold[1..N] = Run(V, step, base, q)
      BY <2>9, <2>10, FoldIsRun DEF N
    <2> QED BY <2>2, <2>11
  <1>3. rows \in Seq(E) /\ <<>> \in Seq(E) /\ \A e \in E : Append(rows, e) \in Seq(E)
    OBVIOUS
  <1>4. step \in [V \X E -> V] /\ \A v \in V, e \in E : step[<<v, e>>] = Op(v, e)
    BY <1>1
  <1>5. Batches(rows, n) = Run(V, step, base, rows) /\ Batches(<<>>, n) = Run(V, step, base, <<>>)
    BY <1>2, <1>3
  <1>6. ASSUME NEW e \in E PROVE Batches(Append(rows, e), n) = Run(V, step, base, Append(rows, e))
    BY <1>2, <1>3
  <1> HIDE DEF V, E, Op, step, base
  <1>7. Stepper(V, E, step, base, rows)
    BY <1>1, <1>3, <1>4 DEF Stepper
  <1>8. Run(V, step, base, rows) \in V /\ Run(V, step, base, <<>>) = base
    BY <1>1, <1>7, RunType, RunEmpty
  <1>9. ASSUME NEW e \in E PROVE Run(V, step, base, Append(rows, e)) = Op(Run(V, step, base, rows), e)
    <2>1. Run(V, step, base, Append(rows, e)) = step[<<Run(V, step, base, rows), e>>]
      BY <1>7, RunAppend
    <2> QED BY <1>4, <1>8, <2>1
  <1> QED BY <1>5, <1>6, <1>8, <1>9 DEF V, E, Op, base

\* The batches of the first k records, cut at some of their positions.
CutInto(f, bs, events, k) ==
  /\ bs \in Seq(Seq(Records)) /\ f \in [0..Len(bs) -> 0..k] /\ f[0] = 0 /\ f[Len(bs)] = k
  /\ \A i \in 1..Len(bs) :
       /\ f[i - 1] < f[i] /\ bs[i] = Piece(events, f[i - 1], f[i])
       /\ \E kind \in {"snapshot", "delta"} : OfKind(events, kind, f[i - 1], f[i])

LEMMA CutGrows ==
  ASSUME NEW events \in Seq(Records), NEW k \in 0..Len(events), k < Len(events), NEW n,
         NEW bs, NEW f, CutInto(f, bs, events, k)
  PROVE  \E g : CutInto(g, Cut(bs, events[k + 1], n), events, k + 1)
  <1> DEFINE e == events[k + 1]
             m == Len(bs)
  <1>0. k \in Nat /\ Len(events) \in Nat /\ e \in Records /\ e.kind \in {"snapshot", "delta"}
    BY DEF Records, SnapshotRecords, DeltaRecords
  <1>1. bs \in Seq(Seq(Records)) /\ m \in Nat /\ f \in [0..m -> 0..k] /\ f[0] = 0 /\ f[m] = k
    BY DEF CutInto
  <1>2. \A i \in 1..m : /\ f[i - 1] < f[i] /\ bs[i] = Piece(events, f[i - 1], f[i])
                        /\ \E kind \in {"snapshot", "delta"} : OfKind(events, kind, f[i - 1], f[i])
                        /\ i - 1 \in 0..m /\ i \in 0..m /\ f[i - 1] \in 0..k /\ f[i] \in 0..k
    <2>1. \A i \in 1..m : i - 1 \in 0..m /\ i \in 0..m
      BY <1>1
    <2>2. \A i \in 1..m : f[i - 1] \in 0..k /\ f[i] \in 0..k
      BY <1>1, <2>1
    <2>3. \A i \in 1..m : /\ f[i - 1] < f[i] /\ bs[i] = Piece(events, f[i - 1], f[i])
                          /\ \E kind \in {"snapshot", "delta"} : OfKind(events, kind, f[i - 1], f[i])
      BY DEF CutInto
    <2> HIDE DEF m
    <2> QED BY <2>1, <2>2, <2>3
  <1> HIDE DEF e, m
  <1>3. CASE bs # <<>> /\ Last(bs)[1].kind = e.kind /\ Len(Last(bs)) < n
    <2> DEFINE t == Append(Front(bs), Append(Last(bs), e))
               g == [i \in 0..m |-> IF i = m THEN k + 1 ELSE f[i]]
               a == f[m - 1]
    <2>1. /\ m \in Nat \ {0} /\ Last(bs) = bs[m] /\ Last(bs) \in Seq(Records)
          /\ t \in Seq(Seq(Records)) /\ Len(t) = m /\ t[m] = Append(Last(bs), e) /\ \A i \in 1..(m - 1) : t[i] = bs[i]
      <3>1. PICK final \in Seq(Records) : final = Last(bs) /\ final = bs[Len(bs)] /\ Len(bs) # 0
        BY <1>0, <1>1, <1>3, LastReplaced
      <3>2. Append(final, e) \in Seq(Records)
        BY <1>0, <3>1
      <3>3. PICK x \in Seq(Records) : x = Append(final, e)
        BY <3>2
      <3>4. Replaces(Append(Front(bs), x), Seq(Records), bs, x)
        BY ONLY <1>1, <1>3, LastReplaced
      <3>5. /\ Append(Front(bs), x) \in Seq(Seq(Records)) /\ Len(Append(Front(bs), x)) = Len(bs)
            /\ Append(Front(bs), x)[Len(bs)] = x
            /\ \A i \in 1..(Len(bs) - 1) : Append(Front(bs), x)[i] = bs[i]
        BY <3>4 DEF Replaces
      <3>6. t = Append(Front(bs), x)
        BY <3>1, <3>3
      <3> HIDE DEF t
      <3> QED BY <1>1, <3>1, <3>3, <3>5, <3>6 DEF m
    <2>2. m \in 1..m /\ a \in Nat /\ a < k /\ a \in 0..k /\ bs[m] = Piece(events, a, k)
      <3>1. m \in 1..m
        BY <2>1
      <3> QED BY <1>0, <1>1, <1>2, <3>1
    <2>3. t[m] = Piece(events, a, k + 1)
      BY <2>1, <2>2, PieceGrows DEF e
    <2>4. OfKind(events, e.kind, a, k + 1)
      <3>1. PICK kind \in {"snapshot", "delta"} : OfKind(events, kind, a, k)
        BY <1>1, <1>2, <2>2
      <3>2. bs[m][1] = events[a + 1]
        <4>1. IsPiece(Piece(events, a, k), Records, events, a, k)
          BY <2>2, PieceIs
        <4>2. 1 \in 1..(k - a)
          BY <1>0, <2>2
        <4> QED BY <2>2, <4>1, <4>2 DEF IsPiece
      <3>3. a + 1 \in (a + 1)..k
        BY <1>0, <2>2
      <3>4. kind = e.kind
        BY <1>3, <2>1, <3>1, <3>2, <3>3 DEF OfKind
      <3>5. \A i \in (a + 1)..(k + 1) : i \in (a + 1)..k \/ i = k + 1
        BY <1>0, <2>2
      <3> HIDE DEF a
      <3> QED BY <3>1, <3>4, <3>5 DEF OfKind, e
    <2> HIDE DEF t, a
    <2>5. g \in [0..m -> 0..(k + 1)] /\ g[0] = 0 /\ g[m] = k + 1
      BY <1>0, <1>1, <2>1
    <2>6. ASSUME NEW i \in 1..m
          PROVE  /\ g[i - 1] < g[i] /\ t[i] = Piece(events, g[i - 1], g[i])
                 /\ \E kind \in {"snapshot", "delta"} : OfKind(events, kind, g[i - 1], g[i])
      <3>1. i - 1 \in 0..m /\ i \in 0..m /\ i - 1 # m
        BY <2>1
      <3>2. CASE i = m
        <4>1. g[i - 1] = a /\ g[i] = k + 1
          BY <3>1, <3>2 DEF a
        <4> HIDE DEF g
        <4> QED BY <1>0, <2>2, <2>3, <2>4, <3>2, <4>1
      <3>3. CASE i # m
        <4>1. g[i - 1] = f[i - 1] /\ g[i] = f[i] /\ i \in 1..(m - 1)
          BY <2>1, <3>1, <3>3
        <4> HIDE DEF g
        <4> QED BY <1>2, <2>1, <4>1
      <3> QED BY <3>2, <3>3
    <2> HIDE DEF g
    <2>7. CutInto(g, t, events, k + 1)
      BY <2>1, <2>5, <2>6 DEF CutInto
    <2>8. Cut(bs, e, n) = t
      BY <1>3 DEF Cut, t
    <2> QED BY <2>7, <2>8 DEF e
  <1>4. CASE ~(bs # <<>> /\ Last(bs)[1].kind = e.kind /\ Len(Last(bs)) < n)
    <2> DEFINE t == Append(bs, <<e>>)
               g == [i \in 0..(m + 1) |-> IF i = m + 1 THEN k + 1 ELSE f[i]]
    <2>1. t \in Seq(Seq(Records)) /\ Len(t) = m + 1 /\ t[m + 1] = <<e>> /\ \A i \in 1..m : t[i] = bs[i]
      <3>1. <<e>> \in Seq(Records)
        BY <1>0
      <3> QED BY <1>1, <3>1 DEF m
    <2>2. Piece(events, k, k + 1) = <<e>>
      <3>1. IsPiece(Piece(events, k, k), Records, events, k, k)
        BY <1>0, PieceIs
      <3>2. Piece(events, k, k) = <<>>
        BY <3>1 DEF IsPiece
      <3>3. Piece(events, k, k + 1) = Append(<<>>, e)
        <4>1. k \in 0..k
          BY <1>0
        <4> QED BY <3>2, <4>1, PieceGrows DEF e
      <3> QED BY <3>3
    <2>3. OfKind(events, e.kind, k, k + 1)
      BY <1>0 DEF OfKind, e
    <2> HIDE DEF t
    <2>4. g \in [0..(m + 1) -> 0..(k + 1)] /\ g[0] = 0 /\ g[m + 1] = k + 1
      BY <1>0, <1>1
    <2>5. ASSUME NEW i \in 1..(m + 1)
          PROVE  /\ g[i - 1] < g[i] /\ t[i] = Piece(events, g[i - 1], g[i])
                 /\ \E kind \in {"snapshot", "delta"} : OfKind(events, kind, g[i - 1], g[i])
      <3>1. i - 1 \in 0..(m + 1) /\ i \in 0..(m + 1) /\ i - 1 # m + 1
        BY <1>1
      <3>2. CASE i = m + 1
        <4>1. g[i - 1] = k /\ g[i] = k + 1
          BY <1>1, <3>1, <3>2
        <4> HIDE DEF g
        <4> QED BY <1>0, <2>1, <2>2, <2>3, <3>2, <4>1
      <3>3. CASE i # m + 1
        <4>1. g[i - 1] = f[i - 1] /\ g[i] = f[i] /\ i \in 1..m
          BY <1>1, <3>1, <3>3
        <4> HIDE DEF g
        <4> QED BY <1>2, <2>1, <4>1
      <3> QED BY <3>2, <3>3
    <2> HIDE DEF g
    <2>6. CutInto(g, t, events, k + 1)
      BY <2>1, <2>4, <2>5 DEF CutInto
    <2>7. Cut(bs, e, n) = t
      BY <1>4 DEF Cut, t
    <2> QED BY <2>6, <2>7 DEF e
  <1> QED BY <1>3, <1>4

LEMMA BatchesAreCuts ==
  ASSUME NEW events \in Seq(Records), NEW n \in Nat \ {0}
  PROVE  \E f : CutInto(f, Batches(events, n), events, Len(events))
  <1> DEFINE P(k) == Piece(events, 0, k)
             T == {k \in Nat : k <= Len(events) => \E f : CutInto(f, Batches(P(k), n), events, k)}
  <1>0. Len(events) \in Nat
    OBVIOUS
  <1>1. 0 \in T
    <2>1. IsPiece(P(0), Records, events, 0, 0)
      BY <1>0, PieceIs
    <2>2. P(0) = <<>> /\ <<>> \in Seq(Records)
      BY <2>1 DEF IsPiece
    <2>3. Batches(<<>>, n) = <<>>
      BY <2>2, CutSteps
    <2> DEFINE f == [i \in 0..0 |-> 0]
    <2>4. CutInto(f, <<>>, events, 0)
      <3>1. <<>> \in Seq(Seq(Records)) /\ Len(<<>>) = 0 /\ 1..0 = {}
        OBVIOUS
      <3>2. f \in [0..0 -> 0..0] /\ f[0] = 0
        OBVIOUS
      <3> HIDE DEF f
      <3> QED BY <3>1, <3>2 DEF CutInto
    <2> HIDE DEF f, P
    <2> QED BY <2>2, <2>3, <2>4
  <1>2. ASSUME NEW k \in Nat, k \in T PROVE k + 1 \in T
    <2> SUFFICES ASSUME k + 1 <= Len(events) PROVE \E g : CutInto(g, Batches(P(k + 1), n), events, k + 1)
      OBVIOUS
    <2>1. k \in 0..Len(events) /\ k < Len(events) /\ k <= Len(events) /\ 0 \in 0..k /\ events[k + 1] \in Records
      BY <1>0
    <2>2. PICK f : CutInto(f, Batches(P(k), n), events, k)
      BY <1>2, <2>1
    <2>3. P(k + 1) = Append(P(k), events[k + 1])
      BY <2>1, PieceGrows
    <2>4. P(k) \in Seq(Records)
      <3>1. IsPiece(P(k), Records, events, 0, k)
        BY <2>1, PieceIs
      <3> QED BY <3>1 DEF IsPiece
    <2> HIDE DEF P
    <2>5. Batches(P(k + 1), n) = Cut(Batches(P(k), n), events[k + 1], n)
      <3>1. PICK p \in Seq(Records) : p = P(k)
        BY <2>4
      <3>2. Batches(Append(p, events[k + 1]), n) = Cut(Batches(p, n), events[k + 1], n)
        BY ONLY <2>1, CutSteps, n \in Nat \ {0}
      <3> QED BY <2>3, <3>1, <3>2
    <2> QED BY <2>1, <2>2, <2>5, CutGrows
  <1>3. Nat \subseteq T
    <2> HIDE DEF T
    <2> QED BY <1>1, <1>2, NatSetInduction
  <1>4. P(Len(events)) = events
    <2>1. IsPiece(P(Len(events)), Records, events, 0, Len(events))
      BY <1>0, PieceIs
    <2>2. P(Len(events)) \in Seq(Records) /\ Len(P(Len(events))) = Len(events)
          /\ \A i \in 1..Len(events) : P(Len(events))[i] = events[i]
      BY <2>1 DEF IsPiece
    <2> HIDE DEF P
    <2> QED BY <2>2, SameSeq
  <1> QED BY <1>0, <1>3, <1>4

(***************************************************************************)
(* The batches that are joined: out in whole updates, and a last group     *)
(* that is held back.                                                      *)
(***************************************************************************)
Joinings == [out : Seq(Seq(Records)), pending : Seq(Records)]
NoneJoined == [out |-> <<>>, pending |-> <<>>]
Joins(bs) == FoldLeft(Join, NoneJoined, bs)

LEMMA Ends ==
  ASSUME NEW S, NEW s \in Seq(S), NEW x \in S PROVE s \o <<>> = s /\ s \o <<x>> = Append(s, x)
  <1>1. /\ <<>> \in Seq(S) /\ Len(<<>>) = 0 /\ <<x>> \in Seq(S) /\ Len(<<x>>) = 1 /\ <<x>>[1] = x
        /\ Len(s) \in Nat
    OBVIOUS
  <1>2. s \o <<>> = s
    <2>1. PICK e \in Seq(S) : e = <<>> /\ Len(e) = 0
      BY <1>1
    <2>2. s \o e \in Seq(S) /\ Len(s \o e) = Len(s) /\ \A i \in 1..Len(s) : (s \o e)[i] = s[i]
      BY <1>1, <2>1
    <2>3. s \o e = s
      BY <2>2, SameSeq
    <2> QED BY <2>1, <2>3
  <1>3. s \o <<x>> = Append(s, x)
    <2>1. PICK e \in Seq(S) : e = <<x>> /\ Len(e) = 1 /\ e[1] = x
      BY <1>1
    <2>2. /\ s \o e \in Seq(S) /\ Len(s \o e) = Len(s) + 1 /\ (s \o e)[Len(s) + 1] = x
          /\ \A i \in 1..Len(s) : (s \o e)[i] = s[i]
      BY <1>1, <2>1
    <2>3. /\ Append(s, x) \in Seq(S) /\ Len(Append(s, x)) = Len(s) + 1 /\ Append(s, x)[Len(s) + 1] = x
          /\ \A i \in 1..Len(s) : Append(s, x)[i] = s[i]
      BY <1>1
    <2>4. \A i \in 1..(Len(s) + 1) : i \in 1..Len(s) \/ i = Len(s) + 1
      BY <1>1
    <2>5. \A i \in 1..(Len(s) + 1) : (s \o e)[i] = Append(s, x)[i]
      BY <2>2, <2>3, <2>4
    <2>6. s \o e = Append(s, x)
      BY ONLY <2>2, <2>3, <2>5, SameSeq
    <2> QED BY <2>1, <2>6
  <1> QED BY <1>2, <1>3

LEMMA HeldIs ==
  ASSUME NEW E, NEW q \in Seq(E), q # <<>>
  PROVE  \E s \in 0..(Len(q) - 1) :
           /\ s + 1 \in GroupStarts(q)
           /\ GroupEndingAt(q, Len(q)) = Piece(q, s, Len(q))
           /\ Len(GroupEndingAt(q, Len(q))) = Len(q) - s
           /\ SubSeq(q, 1, Len(q) - Len(GroupEndingAt(q, Len(q)))) = Piece(q, 0, s)
  <1>1. Len(q) \in Nat /\ Len(q) > 0 /\ DOMAIN q = 1..Len(q) /\ Len(q) \in DOMAIN q
    OBVIOUS
  <1>2. PICK m : m = Max({j \in GroupStarts(q) : j <= Len(q)})
    OBVIOUS
  <1>3. m \in 1..Len(q) /\ m \in GroupStarts(q)
    BY <1>1, <1>2, GroupIs
  <1>4. PICK s \in 0..(Len(q) - 1) : s + 1 = m
    <2>1. m - 1 \in 0..(Len(q) - 1) /\ (m - 1) + 1 = m
      BY <1>1, <1>3
    <2> QED BY <2>1
  <1>5. GroupEndingAt(q, Len(q)) = Piece(q, s, Len(q))
    BY <1>2, <1>4 DEF GroupEndingAt, Piece
  <1>6. Len(Piece(q, s, Len(q))) = Len(q) - s
    <2>1. IsPiece(Piece(q, s, Len(q)), E, q, s, Len(q))
      <3>1. Len(q) \in 0..Len(q) /\ s \in 0..Len(q)
        BY <1>1
      <3> QED BY <3>1, PieceIs
    <2> QED BY <2>1 DEF IsPiece
  <1>7. Len(q) - (Len(q) - s) = s
    BY <1>1
  <1> QED BY <1>3, <1>4, <1>5, <1>6, <1>7 DEF Piece

LEMMA JoinType ==
  /\ NoneJoined \in Joinings
  /\ \A acc \in Joinings, q \in Seq(Records) \ {<<>>} : Join(acc, q) \in Joinings
  <1>1. NoneJoined \in Joinings
    <2>1. <<>> \in Seq(Seq(Records)) /\ <<>> \in Seq(Records)
      OBVIOUS
    <2> QED BY <2>1 DEF NoneJoined, Joinings
  <1>2. ASSUME NEW r \in Seq(Records) PROVE NonEmpty(r) \in Seq(Seq(Records)) /\ <<r>> \in Seq(Seq(Records))
    BY DEF NonEmpty
  <1>3. ASSUME NEW a \in Seq(Seq(Records)), NEW b \in Seq(Seq(Records)) PROVE a \o b \in Seq(Seq(Records))
    OBVIOUS
  <1>4. ASSUME NEW acc \in Joinings, NEW q \in Seq(Records) \ {<<>>} PROVE Join(acc, q) \in Joinings
    <2> DEFINE joined == Continues(acc.pending, q)
               all == IF joined THEN acc.pending \o q ELSE q
               out == IF joined THEN acc.out ELSE acc.out \o NonEmpty(acc.pending)
               held == GroupEndingAt(all, Len(all))
               rest == SubSeq(all, 1, Len(all) - Len(held))
    <2>1. acc.out \in Seq(Seq(Records)) /\ acc.pending \in Seq(Records)
      BY DEF Joinings
    <2>2. NonEmpty(acc.pending) \in Seq(Seq(Records)) /\ acc.out \o NonEmpty(acc.pending) \in Seq(Seq(Records))
      BY <1>2, <1>3, <2>1
    <2>3. all \in Seq(Records) /\ all # <<>>
      <3>1. acc.pending \o q \in Seq(Records) /\ Len(acc.pending \o q) = Len(acc.pending) + Len(q)
            /\ Len(q) > 0 /\ Len(acc.pending) \in Nat /\ Len(q) \in Nat
        BY <2>1
      <3>2. acc.pending \o q # <<>>
        BY <3>1
      <3> QED BY <3>1, <3>2
    <2>4. out \in Seq(Seq(Records))
      BY <2>1, <2>2
    <2> HIDE DEF all, out
    <2>5. held \in Seq(Records) /\ rest \in Seq(Records)
      <3>1. PICK s \in 0..(Len(all) - 1) : held = Piece(all, s, Len(all)) /\ rest = Piece(all, 0, s)
        BY <2>3, HeldIs
      <3>2. Len(all) \in 0..Len(all) /\ s \in 0..Len(all) /\ 0 \in 0..s
        BY <2>3
      <3>3. IsPiece(Piece(all, s, Len(all)), Records, all, s, Len(all)) /\ IsPiece(Piece(all, 0, s), Records, all, 0, s)
        BY ONLY <2>3, <3>2, PieceIs
      <3> HIDE DEF held, rest
      <3> QED BY <3>1, <3>3 DEF IsPiece
    <2> HIDE DEF held, rest
    <2>6. [out |-> out \o NonEmpty(rest), pending |-> held] \in Joinings
      BY <1>2, <1>3, <2>4, <2>5 DEF Joinings
    <2>7. [out |-> acc.out \o NonEmpty(acc.pending) \o <<q>>, pending |-> <<>>] \in Joinings
      <3>1. <<q>> \in Seq(Seq(Records)) /\ <<>> \in Seq(Records)
        BY <1>2
      <3> QED BY <1>3, <2>2, <3>1 DEF Joinings
    <2> QED BY <2>6, <2>7 DEF Join, all, out, held, rest, joined
  <1> QED BY <1>1, <1>4

\* The batches that are joined, one by one.
LEMMA JoinSteps ==
  ASSUME NEW rows, rows \in Seq(Seq(Records) \ {<<>>})
  PROVE  /\ Joins(rows) \in Joinings
         /\ Joins(<<>>) = NoneJoined
         /\ \A e \in Seq(Records) \ {<<>>} : Joins(Append(rows, e)) = Join(Joins(rows), e)
  <1> DEFINE V == Joinings
             E == Seq(Records) \ {<<>>}
             Op(v, e) == Join(v, e)
             step == [p \in V \X E |-> Op(p[1], p[2])]
             base == NoneJoined
  <1>1. base \in V /\ \A v \in V, e \in E : Op(v, e) \in V
    BY JoinType
  <1>2. ASSUME NEW q \in Seq(E) PROVE Joins(q) = Run(V, step, base, q)
    <2> DEFINE N == Len(q)
               Body(h) == [s \in SUBSET (1..N) |-> IF s = {} THEN base ELSE Op(h[s \ {Max(s)}], q[Max(s)])]
               fold == CHOOSE h : h = Body(h)
    <2>1. N \in Nat /\ DOMAIN q = 1..N /\ \A i \in 1..N : q[i] \in E
      OBVIOUS
    <2>2. Joins(q) = fold[1..N]
      BY <2>1 DEF Joins, NoneJoined, FoldLeft, MapThenFoldSet
    <2> HIDE DEF N, V, E, Op, base
    <2>3. step \in [V \X E -> V] /\ \A v \in V, e \in E : step[<<v, e>>] = Op(v, e)
      BY <1>1
    <2> HIDE DEF step
    <2>4. PICK g \in [SUBSET (1..N) -> V] : FoldsTo(g, base, step, q)
      <3>1. Stepper(V, E, step, base, q)
        BY <1>1, <2>3 DEF Stepper
      <3> QED BY <3>1, FoldExists DEF N
    <2>5. g = Body(g)
      <3>1. \A s \in SUBSET (1..N) : g[s] = Body(g)[s]
        BY <2>1, <2>3, <2>4, Prefix DEF FoldsTo, N
      <3> QED BY <2>4, <3>1
    <2>6. fold = Body(fold)
      BY <2>5
    <2> HIDE DEF fold
    <2>7. fold[{}] = base
      BY <2>1, <2>6, Prefix
    <2>8. ASSUME NEW i \in 1..N, fold[1..(i - 1)] \in V PROVE fold[1..i] = step[<<fold[1..(i - 1)], q[i]>>]
      <3>1. 1..i \in SUBSET (1..N) /\ 1..i # {} /\ Max(1..i) = i /\ (1..i) \ {i} = 1..(i - 1)
        BY <2>1, Prefix
      <3>2. fold[1..i] = Op(fold[1..(i - 1)], q[i])
        BY <2>6, <3>1
      <3> QED BY <2>1, <2>3, <2>8, <3>2
    <2>9. Unfolds(fold, V, step, base, q)
      BY <2>7, <2>8 DEF Unfolds, N
    <2>10. Stepper(V, E, step, base, q)
      BY <1>1, <2>3 DEF Stepper
    <2>11. fold[1..N] = Run(V, step, base, q)
      BY <2>9, <2>10, FoldIsRun DEF N
    <2> QED BY <2>2, <2>11
  <1>3. rows \in Seq(E) /\ <<>> \in Seq(E) /\ \A e \in E : Append(rows, e) \in Seq(E)
    OBVIOUS
  <1>4. step \in [V \X E -> V] /\ \A v \in V, e \in E : step[<<v, e>>] = Op(v, e)
    BY <1>1
  <1>5. Joins(rows) = Run(V, step, base, rows) /\ Joins(<<>>) = Run(V, step, base, <<>>)
    BY <1>2, <1>3
  <1>6. ASSUME NEW e \in E PROVE Joins(Append(rows, e)) = Run(V, step, base, Append(rows, e))
    BY <1>2, <1>3
  <1> HIDE DEF V, E, Op, step, base
  <1>7. Stepper(V, E, step, base, rows)
    BY <1>1, <1>3, <1>4 DEF Stepper
  <1>8. Run(V, step, base, rows) \in V /\ Run(V, step, base, <<>>) = base
    BY <1>1, <1>7, RunType, RunEmpty
  <1>9. ASSUME NEW e \in E PROVE Run(V, step, base, Append(rows, e)) = Op(Run(V, step, base, rows), e)
    <2>1. Run(V, step, base, Append(rows, e)) = step[<<Run(V, step, base, rows), e>>]
      BY <1>7, RunAppend
    <2> QED BY <1>4, <1>8, <2>1
  <1> QED BY <1>5, <1>6, <1>8, <1>9 DEF V, E, Op, base

\* One more whole piece reaches the end of the piece.
LEMMA OutGrows ==
  ASSUME NEW c, NEW events, Traced(c, events), NEW b \in 0..Len(events), NEW a \in 0..b,
         a < b => Whole(events, a, b), NEW out \in Seq(Pieces), Validated(out) = c[a]
  PROVE  /\ out \o NonEmpty(Piece(events, a, b)) \in Seq(Pieces)
         /\ Validated(out \o NonEmpty(Piece(events, a, b))) = c[b]
  <1>1. IsPiece(Piece(events, a, b), Records, events, a, b) /\ a \in Nat /\ b \in Nat
    BY PieceIs DEF Traced
  <1>2. CASE a = b
    <2>1. Piece(events, a, b) = <<>>
      BY <1>1, <1>2 DEF IsPiece
    <2>2. out \o <<>> = out
      OBVIOUS
    <2> QED BY <1>2, <2>1, <2>2 DEF NonEmpty
  <1>3. CASE a < b
    <2>1. PICK q \in Pieces : q = Piece(events, a, b)
      BY <1>3, WholePieceIs
    <2>2. q # <<>>
      BY DEF Pieces
    <2>3. NonEmpty(q) = <<q>> /\ out \o <<q>> = Append(out, q) /\ Append(out, q) \in Seq(Pieces)
      BY <2>2, Ends DEF NonEmpty
    <2>4. Validated(Append(out, q)) = ValidateBatch(Validated(out), q)
      BY ValidateSteps
    <2>5. ValidateBatch(c[a], q) = c[b]
      BY <1>3, <2>1, WholePieceRuns
    <2> QED BY <2>1, <2>3, <2>4, <2>5
  <1> QED BY <1>1, <1>2, <1>3

\* Where the batches that are joined stand after the first k records.
JoinedUpTo(acc, c, events, d, k) ==
  /\ d \in 0..k /\ acc.pending = Piece(events, d, k)
  /\ acc.out \in Seq(Pieces) /\ Validated(acc.out) = c[d]
  /\ d < k => OfKind(events, "delta", d, k) /\ Position(events[d + 1]) = 1
  /\ d = k => k = 0 \/ events[k].kind = "snapshot"

LEMMA SnapshotsJoin ==
  ASSUME NEW c, NEW events, Traced(c, events), NEW l \in 0..Len(events), NEW k \in 0..l, k < l,
         OfKind(events, "snapshot", k, l), NEW acc, NEW d, JoinedUpTo(acc, c, events, d, k)
  PROVE  JoinedUpTo(Join(acc, Piece(events, k, l)), c, events, l, l)
  <1> DEFINE q == Piece(events, k, l)
             once == acc.out \o NonEmpty(acc.pending)
             twice == once \o NonEmpty(q)
  <1>0. /\ k \in Nat /\ l \in Nat /\ d \in Nat /\ d <= k /\ k + 1 \in (k + 1)..l /\ l \in (k + 1)..l
        /\ k \in 0..Len(events) /\ d \in 0..k /\ events \in Seq(Records) /\ l \in 0..l
    BY DEF JoinedUpTo, Traced
  <1>1. IsPiece(Piece(events, k, l), Records, events, k, l) /\ Piece(events, l, l) = <<>>
    <2>1. IsPiece(Piece(events, l, l), Records, events, l, l)
      BY <1>0, PieceIs
    <2>2. IsPiece(Piece(events, k, l), Records, events, k, l)
      BY <1>0, PieceIs
    <2> QED BY <2>1, <2>2 DEF IsPiece
  <1>2. q # <<>> /\ 1 \in DOMAIN q /\ q[1].kind = "snapshot"
    <2>1. 1 \in 1..(l - k) /\ l - k # 0
      BY <1>0
    <2>2. 1 \in DOMAIN q /\ q[1] = events[k + 1] /\ Len(q) # 0
      BY <1>1, <2>1 DEF IsPiece
    <2> HIDE DEF q
    <2> QED BY <1>0, <2>2 DEF OfKind
  <1>3. ~Encoded(q)
    BY <1>2 DEF Encoded
  <1>4. once \in Seq(Pieces) /\ Validated(once) = c[k]
    <2>1. d < k => Whole(events, d, k)
      BY <1>0 DEF JoinedUpTo, Whole, EndsUpdate, OfKind
    <2>2. acc.out \in Seq(Pieces) /\ Validated(acc.out) = c[d] /\ acc.pending = Piece(events, d, k)
      BY DEF JoinedUpTo
    <2> QED BY <1>0, <2>1, <2>2, OutGrows
  <1> HIDE DEF once
  <1>5. twice \in Seq(Pieces) /\ Validated(twice) = c[l]
    <2>1. Whole(events, k, l)
      BY DEF Whole
    <2> QED BY <1>0, <1>4, <2>1, OutGrows
  <1>6. Join(acc, q) = [out |-> twice, pending |-> <<>>]
    BY <1>2, <1>3 DEF Join, once, NonEmpty
  <1>7. events[l].kind = "snapshot"
    BY <1>0 DEF OfKind
  <1> HIDE DEF q, twice
  <1>8. JoinedUpTo([out |-> twice, pending |-> <<>>], c, events, l, l)
    BY <1>0, <1>1, <1>5, <1>7 DEF JoinedUpTo
  <1> QED BY <1>6, <1>8 DEF q

\* The first record of an update does not go on with the record before it.
LEMMA Breaks ==
  ASSUME NEW c, NEW events, Traced(c, events), NEW k \in 0..Len(events), k < Len(events),
         events[k + 1].kind = "delta"
  PROVE  /\ k > 0 /\ k \in 1..Len(events) /\ Follows(events[k], events[k + 1])
         /\ events[k].kind = "snapshot" \/ Provider(events[k + 1]) # Provider(events[k])
              => EndsUpdate(events, k) \/ events[k].kind = "snapshot"
         /\ events[k].kind = "snapshot" \/ Provider(events[k + 1]) # Provider(events[k])
              => Position(events[k + 1]) = 1
  <1>1. k + 1 \in 1..Len(events) /\ (k + 1) - 1 = k /\ k \in Nat
    BY DEF Traced
  <1>2. k + 1 > 1 /\ Follows(events[(k + 1) - 1], events[k + 1])
    BY <1>1 DEF Traced
  <1>3. k > 0 /\ k \in 1..Len(events) /\ Follows(events[k], events[k + 1])
    BY <1>1, <1>2
  <1> QED BY <1>3 DEF Follows, EndsUpdate

\* What is held back and what is not, of all that has been joined.
LEMMA HeldBack ==
  ASSUME NEW c, NEW events, Traced(c, events), NEW l \in 0..Len(events), NEW s \in 0..l, s < l,
         OfKind(events, "delta", s, l), Position(events[s + 1]) = 1
  PROVE  LET all == Piece(events, s, l)
             held == GroupEndingAt(all, Len(all))
         IN \E h \in s..l : /\ h < l /\ held = Piece(events, h, l)
                            /\ SubSeq(all, 1, Len(all) - Len(held)) = Piece(events, s, h)
                            /\ s < h => Whole(events, s, h)
                            /\ Position(events[h + 1]) = 1
  <1> DEFINE all == Piece(events, s, l)
             held == GroupEndingAt(all, Len(all))
  <1>0. s \in Nat /\ l \in Nat /\ l <= Len(events) /\ Len(events) \in Nat /\ events \in Seq(Records)
    BY DEF Traced
  <1>1. /\ all \in Seq(Records) /\ Len(all) = l - s /\ DOMAIN all = 1..(l - s)
        /\ \A i \in 1..(l - s) : all[i] = events[s + i]
    <2>1. IsPiece(Piece(events, s, l), Records, events, s, l)
      BY <1>0, PieceIs
    <2> QED BY <2>1 DEF IsPiece
  <1>2. all # <<>>
    BY <1>0, <1>1
  <1> HIDE DEF all, held
  <1>3. PICK j \in 0..(Len(all) - 1) :
          /\ j + 1 \in GroupStarts(all) /\ held = Piece(all, j, Len(all))
          /\ SubSeq(all, 1, Len(all) - Len(held)) = Piece(all, 0, j)
    BY <1>1, <1>2, HeldIs DEF held
  <1>4. PICK h \in s..l : h = s + j /\ h < l /\ j \in 0..(l - s) /\ l - s \in 0..(l - s)
                        /\ s + (l - s) = l /\ 0 \in 0..j /\ s + 0 = s
    <2>1. s + j \in s..l /\ s + j < l /\ j \in 0..(l - s) /\ l - s \in 0..(l - s) /\ s + (l - s) = l
          /\ 0 \in 0..j /\ s + 0 = s
      BY <1>0, <1>1
    <2> QED BY <2>1
  <1>5. Piece(all, j, Len(all)) = Piece(events, h, l) /\ Piece(all, 0, j) = Piece(events, s, h)
    <2>1. Piece(Piece(events, s, l), j, l - s) = Piece(events, s + j, s + (l - s))
      BY ONLY <1>0, <1>4, PieceOfPiece, l \in 0..Len(events), s \in 0..l
    <2>2. Piece(Piece(events, s, l), 0, j) = Piece(events, s + 0, s + j)
      BY ONLY <1>0, <1>4, PieceOfPiece, l \in 0..Len(events), s \in 0..l
    <2> QED BY <1>1, <1>4, <2>1, <2>2 DEF all
  <1>6. ASSUME s < h PROVE Provider(events[h + 1]) # Provider(events[h])
    <2>1. j + 1 # 1 /\ (j + 1) - 1 = j /\ j \in 1..(l - s) /\ j + 1 \in 1..(l - s) /\ s + (j + 1) = h + 1
      BY <1>0, <1>1, <1>4, <1>6
    <2>2. Provider(all[j]) # Provider(all[j + 1])
      BY <1>3, <2>1 DEF GroupStarts
    <2> QED BY <1>1, <1>4, <2>1, <2>2
  <1>7. ASSUME s < h PROVE EndsUpdate(events, h) /\ Position(events[h + 1]) = 1
    <2>1. h \in 0..Len(events) /\ h < Len(events) /\ h + 1 \in (s + 1)..l
      BY <1>0, <1>4, <1>7
    <2>2. events[h + 1].kind = "delta"
      BY <2>1 DEF OfKind
    <2> QED BY <1>6, <1>7, <2>1, <2>2, Breaks DEF EndsUpdate
  <1>8. OfKind(events, "delta", s, h)
    BY <1>0, <1>4 DEF OfKind
  <1>9. s < h => Whole(events, s, h)
    BY <1>7, <1>8 DEF Whole
  <1>10. Position(events[h + 1]) = 1
    <2>1. h = s \/ s < h
      BY <1>0, <1>4
    <2> QED BY <1>7, <2>1
  <1> QED BY <1>3, <1>4, <1>5, <1>9, <1>10 DEF all, held

LEMMA DeltasJoin ==
  ASSUME NEW c, NEW events, Traced(c, events), NEW l \in 0..Len(events), NEW k \in 0..l, k < l,
         OfKind(events, "delta", k, l), NEW acc, NEW d, JoinedUpTo(acc, c, events, d, k)
  PROVE  \E h \in 0..l : JoinedUpTo(Join(acc, Piece(events, k, l)), c, events, h, l)
  <1> DEFINE q == Piece(events, k, l)
             joined == Continues(acc.pending, q)
             s == IF joined THEN d ELSE k
             all == IF joined THEN acc.pending \o q ELSE q
             out == IF joined THEN acc.out ELSE acc.out \o NonEmpty(acc.pending)
             held == GroupEndingAt(all, Len(all))
             rest == SubSeq(all, 1, Len(all) - Len(held))
  <1>0. /\ k \in Nat /\ l \in Nat /\ d \in Nat /\ d <= k /\ k + 1 \in (k + 1)..l
        /\ k \in 0..Len(events) /\ d \in 0..k /\ k < Len(events) /\ d \in 0..l /\ k \in d..l
        /\ events \in Seq(Records) /\ l \in 0..Len(events) /\ k \in 0..l
    BY DEF JoinedUpTo, Traced
  <1>1. /\ acc.pending = Piece(events, d, k) /\ acc.out \in Seq(Pieces) /\ Validated(acc.out) = c[d]
        /\ d < k => OfKind(events, "delta", d, k) /\ Position(events[d + 1]) = 1
        /\ d = k => k = 0 \/ events[k].kind = "snapshot"
    BY DEF JoinedUpTo
  <1>2. Encoded(q)
    BY DeltaPiece
  <1>3. events[k + 1].kind = "delta" /\ q[1] = events[k + 1]
    <2>1. IsPiece(Piece(events, k, l), Records, events, k, l)
      BY <1>0, PieceIs
    <2>2. 1 \in 1..(l - k)
      BY <1>0
    <2> QED BY <1>0, <2>1, <2>2 DEF OfKind, IsPiece
  <1>4. k > 0 /\ k \in 1..Len(events) /\ Follows(events[k], events[k + 1])
    BY <1>0, <1>3, Breaks
  <1>5. IF d = k THEN acc.pending = <<>> ELSE acc.pending # <<>> /\ Last(acc.pending) = events[k]
    <2>1. IsPiece(acc.pending, Records, events, d, k)
      BY <1>0, <1>1, PieceIs
    <2>2. CASE d # k
      <3>1. k - d \in 1..(k - d) /\ k - d # 0 /\ d + (k - d) = k
        BY <1>0, <2>2
      <3>2. Len(acc.pending) = k - d /\ acc.pending[k - d] = events[k]
        BY <2>1, <3>1 DEF IsPiece
      <3>3. acc.pending # <<>>
        BY <3>1, <3>2
      <3> QED BY <2>2, <3>2, <3>3 DEF Last
    <2> QED BY <2>1, <2>2 DEF IsPiece
  <1> HIDE DEF q
  <1>6. joined => d < k
    BY <1>0, <1>5 DEF Continues
  <1>7. ~joined => events[k].kind = "snapshot" \/ Provider(events[k + 1]) # Provider(events[k])
    BY <1>1, <1>3, <1>4, <1>5 DEF Continues, Follows
  <1>8. ~joined => /\ Position(events[k + 1]) = 1
                   /\ d < k => Whole(events, d, k)
    <2>1. ASSUME ~joined, d < k PROVE EndsUpdate(events, k)
      <3>1. events[k].kind = "delta"
        <4>1. k \in (d + 1)..k
          BY <1>0, <2>1
        <4> QED BY <1>1, <2>1, <4>1 DEF OfKind
      <3> QED BY <1>7, <2>1, <3>1 DEF EndsUpdate
    <2>2. ~joined => Position(events[k + 1]) = 1
      BY <1>0, <1>3, <1>7, Breaks
    <2> HIDE DEF joined
    <2> QED BY <1>1, <2>1, <2>2 DEF Whole
  <1>9. all = Piece(events, s, l)
    BY <1>0, <1>1, PiecesJoin DEF q
  <1>10. out \in Seq(Pieces) /\ Validated(out) = c[s]
    BY <1>0, <1>1, <1>8, OutGrows
  <1>11. /\ s \in 0..l /\ s < l /\ OfKind(events, "delta", s, l) /\ Position(events[s + 1]) = 1
    <2>1. s \in 0..l /\ s < l
      BY <1>0
    <2>2. Position(events[s + 1]) = 1
      BY <1>1, <1>6, <1>8
    <2>3. ASSUME d < k PROVE OfKind(events, "delta", d, l)
      BY <1>0, <1>1, <2>3 DEF OfKind
    <2> QED BY <1>6, <2>1, <2>2, <2>3
  <1>12. Join(acc, q) = [out |-> out \o NonEmpty(rest), pending |-> held]
    BY <1>2 DEF Join
  <1> HIDE DEF joined, all, out, held, rest
  <1>13. PICK s0 \in 0..l : s0 = s
    BY <1>11
  <1> HIDE DEF s
  <1>14. PICK h \in s0..l : /\ h < l /\ held = Piece(events, h, l) /\ rest = Piece(events, s0, h)
                            /\ s0 < h => Whole(events, s0, h)
                            /\ Position(events[h + 1]) = 1
    BY <1>0, <1>9, <1>11, <1>13, HeldBack DEF held, rest
  <1>15. h \in 0..Len(events) /\ s0 \in 0..h /\ h \in 0..l /\ h # l
    BY <1>0, <1>14
  <1>16. out \o NonEmpty(rest) \in Seq(Pieces) /\ Validated(out \o NonEmpty(rest)) = c[h]
    BY <1>10, <1>13, <1>14, <1>15, OutGrows
  <1>17. OfKind(events, "delta", h, l)
    <2>1. \A i \in (h + 1)..l : i \in (s0 + 1)..l
      BY <1>15
    <2> QED BY <1>11, <1>13, <2>1 DEF OfKind
  <1>18. JoinedUpTo([out |-> out \o NonEmpty(rest), pending |-> held], c, events, h, l)
    BY <1>14, <1>15, <1>16, <1>17 DEF JoinedUpTo
  <1> QED BY <1>12, <1>15, <1>18 DEF q

\* However the records of a traced epoch are cut into batches, the publication
\* reconstructs what the trace ends with.
LEMMA PublishIsTrace ==
  ASSUME NEW c, NEW events, Traced(c, events), NEW n \in Nat \ {0}
  PROVE  Publish(events, n) = c[Len(events)]
  <1> DEFINE bs == Batches(events, n)
             N == Len(bs)
             J(i) == Joins(Piece(bs, 0, i))
  <1>0. events \in Seq(Records) /\ Len(events) \in Nat
    BY DEF Traced
  <1>1. PICK f : CutInto(f, bs, events, Len(events))
    BY <1>0, BatchesAreCuts
  <1>2. /\ bs \in Seq(Seq(Records)) /\ N \in Nat /\ f[0] = 0 /\ f[N] = Len(events)
        /\ \A i \in 0..N : f[i] \in 0..Len(events)
    BY <1>1 DEF CutInto
  <1>3. ASSUME NEW i \in 1..N
        PROVE  /\ i - 1 \in 0..N /\ i \in 0..N /\ f[i] \in 0..Len(events) /\ f[i - 1] \in 0..f[i] /\ f[i - 1] < f[i]
               /\ bs[i] = Piece(events, f[i - 1], f[i]) /\ bs[i] \in Seq(Records) \ {<<>>}
               /\ OfKind(events, "snapshot", f[i - 1], f[i]) \/ OfKind(events, "delta", f[i - 1], f[i])
    <2>1. i - 1 \in 0..N /\ i \in 0..N
      BY <1>2
    <2>2. f[i - 1] < f[i] /\ bs[i] = Piece(events, f[i - 1], f[i])
          /\ (OfKind(events, "snapshot", f[i - 1], f[i]) \/ OfKind(events, "delta", f[i - 1], f[i]))
      BY <1>1 DEF CutInto
    <2>3. PICK x \in 0..Len(events), y \in 0..Len(events) : x = f[i - 1] /\ y = f[i] /\ x < y
      BY <1>2, <2>1, <2>2
    <2>4. x \in 0..y /\ y - x # 0
      BY <1>0, <2>3
    <2>5. IsPiece(Piece(events, x, y), Records, events, x, y)
      BY <1>0, <2>4, PieceIs
    <2>6. Piece(events, x, y) \in Seq(Records) \ {<<>>}
      BY <2>4, <2>5 DEF IsPiece
    <2> QED BY <2>1, <2>2, <2>3, <2>4, <2>6
  <1>4. bs \in Seq(Seq(Records) \ {<<>>})
    <2>1. \A i \in 1..N : bs[i] \in Seq(Records) \ {<<>>}
      BY <1>3
    <2>2. PICK S, E : S = Seq(Records) /\ E = Seq(Records) \ {<<>>}
      OBVIOUS
    <2>3. bs \in Seq(S) /\ \A i \in 1..Len(bs) : bs[i] \in E
      BY <1>2, <2>1, <2>2
    <2> HIDE DEF bs
    <2>4. bs \in Seq(E)
      BY ONLY <2>3
    <2> QED BY <2>2, <2>4
  <1> HIDE DEF bs, N, J
  <1> DEFINE T == {i \in Nat : i <= N => \E d \in 0..f[i] : JoinedUpTo(J(i), c, events, d, f[i])}
  <1>5. 0 \in T
    <2>1. IsPiece(Piece(bs, 0, 0), Seq(Records), bs, 0, 0) /\ IsPiece(Piece(events, 0, 0), Records, events, 0, 0)
      <3>1. 0 \in 0..Len(bs) /\ 0 \in 0..Len(events) /\ 0 \in 0..0
        BY <1>0, <1>2 DEF N
      <3> QED BY ONLY <1>0, <1>2, <3>1, PieceIs
    <2>2. Piece(bs, 0, 0) = <<>> /\ Piece(events, 0, 0) = <<>>
      BY <2>1 DEF IsPiece
    <2>3. J(0) = NoneJoined
      <3>1. <<>> \in Seq(Seq(Records) \ {<<>>})
        OBVIOUS
      <3> QED BY <2>2, <3>1, JoinSteps DEF J
    <2>4. Validated(<<>>) = Uninitialized /\ <<>> \in Seq(Pieces)
      <3>1. <<>> \in Seq(Pieces)
        OBVIOUS
      <3> QED BY <3>1, ValidateSteps
    <2>5. JoinedUpTo(J(0), c, events, 0, 0)
      <3>1. c[0] = Uninitialized /\ 0 \in 0..0
        BY DEF Traced
      <3>2. J(0).out = <<>> /\ J(0).pending = <<>>
        BY <2>3 DEF NoneJoined
      <3>3. PICK acc : acc = J(0)
        OBVIOUS
      <3>4. acc.out \in Seq(Pieces) /\ Validated(acc.out) = c[0] /\ acc.pending = Piece(events, 0, 0)
        BY ONLY <2>2, <2>4, <3>1, <3>2, <3>3
      <3>5. ~(0 < 0)
        OBVIOUS
      <3>6. JoinedUpTo(acc, c, events, 0, 0)
        BY ONLY <3>1, <3>4, <3>5, Zenon DEF JoinedUpTo
      <3> QED BY ONLY <3>3, <3>6
    <2>6. 0 \in 0..f[0] /\ f[0] = 0
      BY <1>2
    <2> QED BY <2>5, <2>6
  <1>6. ASSUME NEW i \in Nat, i \in T PROVE i + 1 \in T
    <2> SUFFICES ASSUME i + 1 <= N PROVE \E d \in 0..f[i + 1] : JoinedUpTo(J(i + 1), c, events, d, f[i + 1])
      OBVIOUS
    <2>1. i + 1 \in 1..N /\ (i + 1) - 1 = i /\ i <= N /\ i \in 0..Len(bs) /\ i < Len(bs) /\ 0 \in 0..i
      BY <1>2 DEF N
    <2>2. PICK d : JoinedUpTo(J(i), c, events, d, f[i])
      BY <1>6, <2>1
    <2>3. J(i + 1) = Join(J(i), bs[i + 1])
      <3>1. PICK p : p = Piece(bs, 0, i)
        OBVIOUS
      <3>2. Piece(bs, 0, i + 1) = Append(p, bs[i + 1]) /\ p \in Seq(Seq(Records) \ {<<>>}) /\ bs[i + 1] \in Seq(Records) \ {<<>>}
        <4>1. IsPiece(Piece(bs, 0, i), Seq(Records) \ {<<>>}, bs, 0, i)
          BY ONLY <1>4, <2>1, PieceIs
        <4>2. Piece(bs, 0, i + 1) = Append(Piece(bs, 0, i), bs[i + 1])
          BY ONLY <1>4, <2>1, PieceGrows
        <4> QED BY <1>3, <2>1, <3>1, <4>1, <4>2 DEF IsPiece
      <3>3. Joins(Append(p, bs[i + 1])) = Join(Joins(p), bs[i + 1])
        BY ONLY <3>2, JoinSteps
      <3> QED BY <3>1, <3>2, <3>3 DEF J
    <2>4. PICK k, l : k = f[i] /\ l = f[i + 1]
      OBVIOUS
    <2>5. /\ l \in 0..Len(events) /\ k \in 0..l /\ k < l /\ bs[i + 1] = Piece(events, k, l)
          /\ OfKind(events, "snapshot", k, l) \/ OfKind(events, "delta", k, l)
      BY <1>3, <2>1, <2>4
    <2>6. l \in 0..l
      BY <1>0, <2>5
    <2>7. PICK acc : acc = J(i)
      OBVIOUS
    <2>8. JoinedUpTo(acc, c, events, d, k)
      BY <2>2, <2>4, <2>7
    <2>9. \E h \in 0..l : JoinedUpTo(Join(acc, Piece(events, k, l)), c, events, h, l)
      <3>1. CASE OfKind(events, "snapshot", k, l)
        <4>1. JoinedUpTo(Join(acc, Piece(events, k, l)), c, events, l, l)
          BY ONLY <2>5, <2>8, <3>1, SnapshotsJoin, Traced(c, events)
        <4> QED BY <2>6, <4>1
      <3>2. CASE OfKind(events, "delta", k, l)
        BY ONLY <2>5, <2>8, <3>2, DeltasJoin, Traced(c, events)
      <3> QED BY <2>5, <3>1, <3>2
    <2> QED BY <2>3, <2>4, <2>5, <2>7, <2>9
  <1>7. N \in T
    <2> HIDE DEF T
    <2> QED BY <1>2, <1>5, <1>6, NatSetInduction
  <1>8. PICK d \in 0..Len(events) : JoinedUpTo(Joins(bs), c, events, d, Len(events))
    <2>1. Piece(bs, 0, N) = bs
      <3>1. N \in 0..Len(bs) /\ 0 \in 0..N
        BY <1>2 DEF N
      <3>2. IsPiece(Piece(bs, 0, N), Seq(Records), bs, 0, N)
        BY <1>2, <3>1, PieceIs
      <3>3. Piece(bs, 0, N) \in Seq(Seq(Records)) /\ Len(Piece(bs, 0, N)) = Len(bs)
            /\ \A i \in 1..Len(bs) : Piece(bs, 0, N)[i] = bs[i]
        BY <1>2, <3>2 DEF IsPiece, N
      <3> QED BY <1>2, <3>3, SameSeq
    <2> QED BY <1>2, <1>7, <2>1 DEF J
  <1>9. Len(events) \in 0..Len(events) /\ (d < Len(events) => Whole(events, d, Len(events)))
    BY <1>0, <1>8 DEF JoinedUpTo, Whole, EndsUpdate
  <1>10. PICK acc : acc = Joins(bs)
    OBVIOUS
  <1>11. Validated(acc.out \o NonEmpty(acc.pending)) = c[Len(events)]
    <2>1. acc.out \in Seq(Pieces) /\ Validated(acc.out) = c[d] /\ acc.pending = Piece(events, d, Len(events))
      BY <1>8, <1>10 DEF JoinedUpTo
    <2> QED BY <1>9, <2>1, OutGrows
  <1> QED BY <1>10, <1>11 DEF Publish, AtomicBatches, Validated, Joins, NoneJoined, bs

(***************************************************************************)
(* The levels of an update and its records.                                *)
(***************************************************************************)
\* A sequence of all elements of a set, each once.
Lists(list, S) ==
  /\ list \in Seq(S) /\ Len(list) = Cardinality(S) /\ DOMAIN list = 1..Cardinality(S)
  /\ \A i, j \in 1..Cardinality(S) : list[i] = list[j] => i = j
  /\ \A x \in S : \E i \in 1..Cardinality(S) : list[i] = x

LEMMA Listing == ASSUME NEW S, IsFiniteSet(S) PROVE Lists(SetToSeq(S), S)
  <1>1. PICK n \in Nat : n = Cardinality(S)
    BY FS_CardinalityType
  <1>2. ExistsBijection(1..n, S)
    BY <1>1, FS_CardinalityType
  <1>3. PICK g : g \in Bijection(1..n, S)
    BY <1>2 DEF ExistsBijection
  <1>4. g \in [1..n -> S] /\ IsInjective(g)
    BY <1>3 DEF Bijection, Injection
  <1>5. PICK f : f = SetToSeq(S)
    OBVIOUS
  <1>6. f \in [1..n -> S] /\ IsInjective(f)
    BY <1>1, <1>4, <1>5 DEF SetToSeq
  <1>7. \A x \in S : \E i \in 1..n : f[i] = x
    <2>1. IsFiniteSet(1..n) /\ Cardinality(1..n) = n
      <3>1. 0 \in Int /\ 1 \in Int /\ n \in Int
        OBVIOUS
      <3>2. IsFiniteSet(1..n) /\ Cardinality(1..n) = IF 1 > n THEN 0 ELSE n - 1 + 1
        BY <3>1, FS_Interval
      <3> QED BY <3>2
    <2>2. f \in Injection(1..n, S)
      BY <1>6 DEF Injection
    <2>3. f \in Surjection(1..n, S)
      BY <1>1, <2>1, <2>2, FS_Injection
    <2> QED BY <2>3 DEF Surjection
  <1>8. f \in Seq(S) /\ Len(f) = n /\ DOMAIN f = 1..n
    BY <1>6
  <1> QED BY <1>1, <1>5, <1>6, <1>7, <1>8 DEF Lists, IsInjective

LEMMA OrderedLists ==
  ASSUME NEW S, IsFiniteSet(S), S \subseteq Levels PROVE Lists(Ordered(S), S)
  <1> DEFINE A == {l \in S : l.side = "bid"}
             B == {l \in S : l.side = "ask"}
  <1>1. A \cup B = S /\ A \cap B = {}
    BY DEF Levels, Sides
  <1>2. IsFiniteSet(A) /\ IsFiniteSet(B)
    <2>1. A \in SUBSET S /\ B \in SUBSET S
      OBVIOUS
    <2> HIDE DEF A, B
    <2> QED BY <2>1, FS_Subset
  <1> HIDE DEF A, B
  <1>3. PICK m \in Nat, n \in Nat : m = Cardinality(A) /\ n = Cardinality(B)
    BY <1>2, FS_CardinalityType
  <1>4. Cardinality(S) = m + n
    <2>1. Cardinality(A \cup B) = Cardinality(A) + Cardinality(B) - Cardinality(A \cap B)
      BY <1>2, FS_Union
    <2>2. Cardinality(A \cap B) = 0
      BY <1>1, FS_EmptySet
    <2>3. Cardinality(A \cup B) = m + n
      BY ONLY <1>3, <2>1, <2>2
    <2> QED BY ONLY <1>1, <2>3
  <1>5. PICK a, b : a = SetToSeq(A) /\ b = SetToSeq(B)
    OBVIOUS
  <1>6. Lists(a, A) /\ Lists(b, B)
    BY <1>2, <1>5, Listing
  <1>7. /\ a \in Seq(S) /\ Len(a) = m /\ b \in Seq(S) /\ Len(b) = n
        /\ \A i \in 1..m : a[i] \in A
        /\ \A i \in 1..n : b[i] \in B
    <2>1. A \subseteq S /\ B \subseteq S
      BY <1>1
    <2>2. a \in Seq(A) /\ b \in Seq(B) /\ Len(a) = m /\ Len(b) = n
      BY <1>3, <1>6 DEF Lists
    <2> QED BY <2>1, <2>2
  <1>8. PICK l : l = a \o b
    OBVIOUS
  <1>9. /\ l \in Seq(S) /\ Len(l) = m + n /\ DOMAIN l = 1..(m + n)
        /\ \A i \in 1..m : l[i] = a[i]
        /\ \A i \in (m + 1)..(m + n) : l[i] = b[i - m]
    <2>1. a \in Seq(S) /\ b \in Seq(S) /\ m = Len(a) /\ n = Len(b)
      BY <1>7
    <2>2. /\ a \o b \in Seq(S) /\ Len(a \o b) = m + n /\ DOMAIN (a \o b) = 1..(m + n)
          /\ \A i \in 1..m : (a \o b)[i] = a[i]
          /\ \A i \in (m + 1)..(m + n) : (a \o b)[i] = b[i - m]
      BY ONLY <2>1, Joined
    <2> QED BY ONLY <1>8, <2>2
  <1>10. ASSUME NEW i \in 1..(m + n), NEW j \in 1..(m + n), l[i] = l[j] PROVE i = j
    <2>1. CASE i <= m /\ j <= m
      <3>1. i \in 1..m /\ j \in 1..m
        BY <2>1
      <3> QED BY <1>3, <1>6, <1>9, <1>10, <3>1 DEF Lists
    <2>2. CASE i > m /\ j > m
      <3>1. i \in (m + 1)..(m + n) /\ j \in (m + 1)..(m + n) /\ i - m \in 1..n /\ j - m \in 1..n
        BY <2>2
      <3>2. l[i] = b[i - m] /\ l[j] = b[j - m]
        BY <1>9, <3>1
      <3>3. b[i - m] = b[j - m]
        BY <1>10, <3>2
      <3>4. i - m = j - m
        BY <1>3, <1>6, <3>1, <3>3 DEF Lists
      <3> QED BY <3>1, <3>4
    <2>3. CASE i <= m /\ j > m
      <3>1. i \in 1..m /\ j \in (m + 1)..(m + n) /\ j - m \in 1..n
        BY <2>3
      <3> QED BY <1>1, <1>7, <1>9, <1>10, <3>1
    <2>4. CASE i > m /\ j <= m
      <3>1. j \in 1..m /\ i \in (m + 1)..(m + n) /\ i - m \in 1..n
        BY <2>4
      <3> QED BY <1>1, <1>7, <1>9, <1>10, <3>1
    <2> QED BY <2>1, <2>2, <2>3, <2>4
  <1>11. ASSUME NEW x \in S PROVE \E i \in 1..(m + n) : l[i] = x
    <2>1. CASE x \in A
      <3>1. PICK i \in 1..m : a[i] = x
        BY <1>3, <1>6, <2>1 DEF Lists
      <3> QED BY <1>9, <3>1
    <2>2. CASE x \in B
      <3>1. PICK i \in 1..n : b[i] = x
        BY <1>3, <1>6, <2>2 DEF Lists
      <3>2. i + m \in (m + 1)..(m + n) /\ (i + m) - m = i /\ i + m \in 1..(m + n)
        OBVIOUS
      <3> QED BY <1>9, <3>1, <3>2
    <2> QED BY <1>1, <2>1, <2>2
  <1>12. Lists(l, S)
    BY <1>4, <1>9, <1>10, <1>11 DEF Lists
  <1>13. l = Ordered(S)
    BY <1>5, <1>8 DEF Ordered, A, B
  <1> QED BY <1>12, <1>13

\* Levels of which no two are for the same side and price.
Keyed(levels) ==
  /\ levels \subseteq Levels
  /\ \A k, l \in levels : k.side = l.side /\ k.price = l.price => k = l

LEMMA SameBook ==
  ASSUME NEW a \in Books, NEW b \in Books, \A s \in Sides, p \in Prices : a[s][p] = b[s][p] PROVE a = b
  <1>1. ASSUME NEW s \in Sides PROVE a[s] = b[s]
    <2>1. a[s] \in [Prices -> Quantities] /\ b[s] \in [Prices -> Quantities]
      BY DEF Books
    <2> QED BY <2>1
  <1> QED BY <1>1 DEF Books

LEMMA LevelsAreSet ==
  ASSUME NEW b \in Books, NEW levels, Keyed(levels)
  PROVE  /\ SetLevels(b, levels) \in Books
         /\ \A l \in levels : SetLevels(b, levels)[l.side][l.price] = l.quantity
         /\ \A s \in Sides, p \in Prices :
              (\A l \in levels : ~(l.side = s /\ l.price = p)) => SetLevels(b, levels)[s][p] = b[s][p]
  <1>1. \A l \in levels : l.side \in Sides /\ l.price \in Prices /\ l.quantity \in Quantities
    BY DEF Keyed, Levels
  <1>2. ASSUME NEW l \in levels PROVE SetLevels(b, levels)[l.side][l.price] = l.quantity
    <2>1. PICK k : k = CHOOSE x \in levels : x.side = l.side /\ x.price = l.price
      OBVIOUS
    <2>2. k \in levels /\ k.side = l.side /\ k.price = l.price
      BY <2>1
    <2>3. k = l
      BY <2>2 DEF Keyed
    <2> QED BY <1>1, <2>1, <2>3 DEF SetLevels
  <1>3. ASSUME NEW s \in Sides, NEW p \in Prices, \A l \in levels : ~(l.side = s /\ l.price = p)
        PROVE  SetLevels(b, levels)[s][p] = b[s][p]
    BY <1>3 DEF SetLevels
  <1>4. ASSUME NEW s \in Sides, NEW p \in Prices PROVE SetLevels(b, levels)[s][p] \in Quantities
    <2>1. CASE \E l \in levels : l.side = s /\ l.price = p
      BY <1>1, <1>2, <2>1
    <2>2. CASE \A l \in levels : ~(l.side = s /\ l.price = p)
      BY <1>3, <2>2 DEF Books
    <2> QED BY <2>1, <2>2
  <1>5. SetLevels(b, levels) \in Books
    <2>1. SetLevels(b, levels) = [s \in Sides |-> [p \in Prices |-> SetLevels(b, levels)[s][p]]]
      BY DEF SetLevels
    <2> QED BY <1>4, <2>1 DEF Books
  <1> QED BY <1>2, <1>3, <1>5

\* Levels are set one after the other, and a level that is absent need not be deleted.
LEMMA OneMoreLevel ==
  ASSUME NEW b \in Books, NEW levels, NEW l, l \notin levels, Keyed(levels \cup {l})
  PROVE  /\ SetLevels(b, levels \cup {l}) = SetLevel(SetLevels(b, levels), l)
         /\ SetLevels(b, levels)[l.side][l.price] = b[l.side][l.price]
         /\ SetLevels(b, {}) = b
  <1>1. Keyed(levels) /\ l \in Levels /\ Keyed({}) /\ l \in levels \cup {l}
    BY DEF Keyed
  <1>2. l.side \in Sides /\ l.price \in Prices
    BY <1>1 DEF Levels
  <1>3. \A k \in levels : ~(k.side = l.side /\ k.price = l.price)
    BY DEF Keyed
  <1>4. SetLevels(b, levels)[l.side][l.price] = b[l.side][l.price]
    BY <1>1, <1>2, <1>3, LevelsAreSet
  <1>5. PICK more : more = levels \cup {l}
    OBVIOUS
  <1>6. Keyed(more) /\ l \in more /\ levels \subseteq more /\ \A k \in more : k = l \/ k \in levels
    BY <1>1, <1>5
  <1>8. PICK x \in Books, y \in Books, z \in Books :
          /\ x = SetLevels(b, levels) /\ y = SetLevels(b, more) /\ z = SetLevel(x, l)
    <2>1. SetLevels(b, levels) \in Books /\ SetLevels(b, more) \in Books
      BY <1>1, <1>6, LevelsAreSet
    <2>2. SetLevel(SetLevels(b, levels), l) \in Books
      BY <1>1, <2>1, LevelIsSet
    <2> QED BY <2>1, <2>2
  <1>9. /\ \A k \in more : y[k.side][k.price] = k.quantity
        /\ \A k \in levels : x[k.side][k.price] = k.quantity
        /\ \A s \in Sides, p \in Prices : (\A k \in more : ~(k.side = s /\ k.price = p)) => y[s][p] = b[s][p]
        /\ \A s \in Sides, p \in Prices : (\A k \in levels : ~(k.side = s /\ k.price = p)) => x[s][p] = b[s][p]
    <2>1. /\ \A k \in more : SetLevels(b, more)[k.side][k.price] = k.quantity
          /\ \A s \in Sides, p \in Prices :
               (\A k \in more : ~(k.side = s /\ k.price = p)) => SetLevels(b, more)[s][p] = b[s][p]
      BY ONLY <1>6, LevelsAreSet, b \in Books
    <2>2. /\ \A k \in levels : SetLevels(b, levels)[k.side][k.price] = k.quantity
          /\ \A s \in Sides, p \in Prices :
               (\A k \in levels : ~(k.side = s /\ k.price = p)) => SetLevels(b, levels)[s][p] = b[s][p]
      BY ONLY <1>1, LevelsAreSet, b \in Books
    <2> QED BY ONLY <1>8, <2>1, <2>2
  <1>10. ASSUME NEW s \in Sides, NEW p \in Prices PROVE y[s][p] = z[s][p]
    <2>1. z[s][p] = IF s = l.side /\ p = l.price THEN l.quantity ELSE x[s][p]
      BY <1>1, <1>8, LevelIsSet
    <2>2. CASE s = l.side /\ p = l.price
      BY ONLY <1>6, <1>9, <2>1, <2>2
    <2>3. CASE ~(s = l.side /\ p = l.price) /\ \E k \in levels : k.side = s /\ k.price = p
      <3>1. PICK k \in levels : k.side = s /\ k.price = p
        BY <2>3
      <3>2. y[s][p] = k.quantity /\ x[s][p] = k.quantity
        BY ONLY <1>6, <1>9, <3>1
      <3> QED BY <2>1, <2>3, <3>2
    <2>4. CASE ~(s = l.side /\ p = l.price) /\ \A k \in levels : ~(k.side = s /\ k.price = p)
      <3>1. \A k \in more : ~(k.side = s /\ k.price = p)
        BY <1>6, <2>4
      <3>2. y[s][p] = b[s][p] /\ x[s][p] = b[s][p]
        BY <1>9, <2>4, <3>1
      <3> QED BY <2>1, <2>4, <3>2
    <2> QED BY <2>2, <2>3, <2>4
  <1>11. y = z
    BY <1>10, SameBook
  <1>7. SetLevels(b, {}) = b
    <2>1. SetLevels(b, {}) \in Books /\ \A s \in Sides, p \in Prices : SetLevels(b, {})[s][p] = b[s][p]
      BY <1>1, LevelsAreSet
    <2> QED BY <2>1, SameBook
  <1> QED BY <1>4, <1>5, <1>7, <1>8, <1>11

LEMMA AbsentLevels ==
  ASSUME NEW b \in Books, NEW levels, Keyed(levels)
  PROVE  SetLevels(b, {l \in levels : Applicable(b, l)}) = SetLevels(b, levels)
  <1> DEFINE kept == {l \in levels : Applicable(b, l)}
  <1>1. Keyed(kept) /\ kept \subseteq levels
    BY DEF Keyed
  <1>2. PICK x \in Books, y \in Books : x = SetLevels(b, kept) /\ y = SetLevels(b, levels)
    BY <1>1, LevelsAreSet
  <1>3. ASSUME NEW s \in Sides, NEW p \in Prices PROVE x[s][p] = y[s][p]
    <2>1. CASE \A l \in levels : ~(l.side = s /\ l.price = p)
      <3>1. \A l \in kept : ~(l.side = s /\ l.price = p)
        BY <1>1, <2>1
      <3> QED BY <1>1, <1>2, <2>1, <3>1, LevelsAreSet
    <2>2. ASSUME NEW l \in levels, l.side = s, l.price = p PROVE x[s][p] = y[s][p]
      <3>1. y[s][p] = l.quantity
        BY <1>2, <2>2, LevelsAreSet
      <3>2. CASE l \in kept
        BY <1>1, <1>2, <2>2, <3>1, <3>2, LevelsAreSet
      <3>3. CASE l \notin kept
        <4>1. \A k \in kept : ~(k.side = s /\ k.price = p)
          BY <1>1, <2>2, <3>3 DEF Keyed
        <4>2. x[s][p] = b[s][p]
          BY <1>1, <1>2, <4>1, LevelsAreSet
        <4>3. l.quantity = 0 /\ ~(b[s][p] > 0)
          BY <2>2, <3>3 DEF Applicable
        <4>4. b[s][p] \in 0..MaxQuantity /\ MaxQuantity \in Nat
          BY BookAssumption DEF Books, Quantities
        <4>5. b[s][p] = 0
          BY <4>3, <4>4
        <4> QED BY <3>1, <4>2, <4>3, <4>5
      <3> QED BY <3>2, <3>3
    <2> QED BY <2>1, <2>2
  <1> QED BY <1>2, <1>3, SameBook

LEMMA Below ==
  ASSUME NEW F \in Nat \ {0}, NEW q \in Nat, NEW n \in Nat, q < n, NEW m \in 0..(F - 1)
  PROVE  q * F + m < n * F /\ n * F \in Nat /\ q * F + m \in Nat
  <1>1. PICK d \in Nat : n = q + 1 + d
    <2>1. n - q - 1 \in Nat /\ n = q + 1 + (n - q - 1)
      OBVIOUS
    <2> QED BY <2>1
  <1>2. n * F = q * F + F + d * F
    BY <1>1, SMT
  <1>3. q * F \in Nat /\ d * F \in Nat /\ n * F \in Nat
    BY SMT
  <1> QED BY <1>2, <1>3

LEMMA DivMod ==
  ASSUME NEW F \in Nat \ {0}, NEW q \in Nat, NEW m \in 0..(F - 1)
  PROVE  (q * F + m) \div F = q /\ (q * F + m) % F = m
  <1>1. PICK x \in Nat : x = q * F + m
    <2>1. q * F + m \in Nat
      BY SMT
    <2> QED BY <2>1
  <1>2. x = F * (x \div F) + (x % F) /\ x % F \in 0..(F - 1) /\ x \div F \in Nat
    BY SMT
  <1>3. PICK p \in Nat, r \in 0..(F - 1) : p = x \div F /\ r = x % F /\ x = F * p + r
    BY <1>2
  <1>4. p = q
    <2>1. CASE p < q
      <3>1. p * F + r < q * F
        BY <2>1, Below
      <3> QED BY <1>1, <1>3, <3>1, SMT
    <2>2. CASE q < p
      <3>1. q * F + m < p * F
        BY <2>2, Below
      <3> QED BY <1>1, <1>3, <3>1, SMT
    <2> QED BY <2>1, <2>2
  <1>5. r = m
    BY <1>1, <1>3, <1>4, SMT
  <1> QED BY <1>1, <1>3, <1>4, <1>5

(***************************************************************************)
(* An epoch that has been traced up to a sequence number and a book.       *)
(***************************************************************************)
Tracked(events, e, b) ==
  events # <<>> /\ \E c : Traced(c, events) /\ c[Len(events)] = [ok |-> TRUE, sequence |-> e, book |-> b]

\* What has been reconstructed after the last of some records goes on with new ones.
Steps(new, rows, r) ==
  \A i \in 1..Len(rows) :
    /\ new[i] = TraceStep(IF i = 1 THEN r ELSE new[i - 1], rows[i])
    /\ new[i].ok /\ new[i].sequence \in Nat
    /\ EndsUpdate(rows, i) => ~Crossed(new[i].book)

Linked(rows, events) ==
  \A i \in 1..Len(rows) :
    rows[i].kind = "delta" =>
      IF i = 1 THEN events # <<>> /\ Follows(events[Len(events)], rows[1]) ELSE Follows(rows[i - 1], rows[i])

LEMMA TraceExtends ==
  ASSUME NEW c, NEW events, Traced(c, events), NEW rows \in Seq(Records), rows # <<>>,
         NEW new \in [1..Len(rows) -> Replays], Steps(new, rows, c[Len(events)]), Linked(rows, events)
  PROVE  Tracked(events \o rows, new[Len(rows)].sequence, new[Len(rows)].book)
  <1> DEFINE M == Len(events)
             N == Len(rows)
             all == events \o rows
             d == [i \in 0..(M + N) |-> IF i <= M THEN c[i] ELSE new[i - M]]
  <1>0. /\ events \in Seq(Records) /\ M \in Nat /\ N \in Nat /\ N > 0
        /\ c \in [0..M -> Replays] /\ c[0] = Uninitialized
    BY DEF Traced
  <1>1. /\ all \in Seq(Records) /\ Len(all) = M + N /\ DOMAIN all = 1..(M + N)
        /\ \A i \in 1..M : all[i] = events[i]
        /\ \A i \in (M + 1)..(M + N) : all[i] = rows[i - M]
    BY ONLY <1>0, Joined, rows \in Seq(Records)
  <1>2. \A i \in 1..M : /\ c[i] = TraceStep(c[i - 1], events[i]) /\ c[i].ok /\ c[i].sequence \in Nat
                        /\ EndsUpdate(events, i) => ~Crossed(c[i].book)
                        /\ events[i].kind = "delta" => i > 1 /\ Follows(events[i - 1], events[i])
    BY DEF Traced
  <1>3. \A i \in 1..N : /\ new[i] = TraceStep(IF i = 1 THEN c[M] ELSE new[i - 1], rows[i])
                        /\ new[i].ok /\ new[i].sequence \in Nat
                        /\ EndsUpdate(rows, i) => ~Crossed(new[i].book)
    BY DEF Steps
  <1> HIDE DEF all
  <1>4. d \in [0..(M + N) -> Replays] /\ d[0] = Uninitialized
    <2>1. ASSUME NEW i \in 0..(M + N) PROVE (IF i <= M THEN c[i] ELSE new[i - M]) \in Replays
      <3>1. CASE i <= M
        <4>1. i \in 0..M
          BY <1>0, <3>1
        <4> HIDE DEF M
        <4> QED BY <1>0, <3>1, <4>1
      <3>2. CASE ~(i <= M)
        <4>1. i - M \in 1..N
          BY <1>0, <3>2
        <4> QED BY <3>2, <4>1
      <3> QED BY <3>1, <3>2
    <2> QED BY <1>0, <2>1
  <1>5. /\ \A i \in 0..M : d[i] = c[i]
        /\ \A i \in 1..N : d[M + i] = new[i] /\ M + i \in 0..(M + N) /\ (M + i) - M = i
    <2>1. \A i \in 0..M : i \in 0..(M + N) /\ i <= M
      BY <1>0
    <2>2. \A i \in 1..N : M + i \in 0..(M + N) /\ ~(M + i <= M) /\ (M + i) - M = i
      BY <1>0
    <2> HIDE DEF M, N
    <2> QED BY <2>1, <2>2
  <1> HIDE DEF d, M, N
  <1>6. ASSUME NEW i \in 1..M
        PROVE  /\ d[i] = TraceStep(d[i - 1], all[i]) /\ d[i].ok /\ d[i].sequence \in Nat
               /\ EndsUpdate(all, i) => ~Crossed(d[i].book)
               /\ all[i].kind = "delta" => i > 1 /\ Follows(all[i - 1], all[i])
    <2>1. i \in 0..M /\ i - 1 \in 0..M /\ (i > 1 => i - 1 \in 1..M) /\ (i # M => i + 1 \in 1..M) /\ i # M + N
      BY <1>0
    <2>2. EndsUpdate(all, i) => EndsUpdate(events, i)
      BY <1>1, <2>1 DEF EndsUpdate, M
    <2> QED BY <1>1, <1>2, <1>5, <2>1, <2>2
  <1>7. ASSUME NEW i \in 1..N
        PROVE  /\ d[M + i] = TraceStep(d[M + i - 1], all[M + i]) /\ d[M + i].ok /\ d[M + i].sequence \in Nat
               /\ EndsUpdate(all, M + i) => ~Crossed(d[M + i].book)
               /\ all[M + i].kind = "delta" => M + i > 1 /\ Follows(all[M + i - 1], all[M + i])
    <2>1. all[M + i] = rows[i]
      <3>1. M + i \in (M + 1)..(M + N) /\ (M + i) - M = i
        BY <1>0
      <3> QED BY <1>1, <3>1
    <2>2. CASE i = 1
      <3>1. M + i - 1 = M /\ M \in 0..M
        BY <1>0, <2>2
      <3>2. d[M + i - 1] = c[M]
        BY <1>5, <3>1
      <3>3. EndsUpdate(all, M + i) => EndsUpdate(rows, i)
        <4>1. i # N => M + i + 1 \in (M + 1)..(M + N) /\ (M + i + 1) - M = i + 1
          BY <1>0
        <4> QED BY <1>1, <2>1, <4>1 DEF EndsUpdate, N
      <3>4. rows[i].kind = "delta" => M + i > 1 /\ Follows(events[M], rows[i]) /\ M \in 1..M
        <4>1. events # <<>> => M > 0
          BY <1>0 DEF M
        <4> QED BY <1>0, <2>2, <4>1 DEF Linked, M, N
      <3>5. d[M + i] = new[i]
        BY <1>5
      <3>6. d[M + i] = TraceStep(d[M + i - 1], all[M + i])
        BY <1>3, <2>1, <2>2, <3>2, <3>5
      <3>7. d[M + i].ok /\ d[M + i].sequence \in Nat /\ (EndsUpdate(all, M + i) => ~Crossed(d[M + i].book))
        BY <1>3, <3>3, <3>5
      <3>8. ASSUME all[M + i].kind = "delta" PROVE M + i > 1 /\ Follows(all[M + i - 1], all[M + i])
        <4>1. M + i > 1 /\ Follows(events[M], rows[i]) /\ M \in 1..M
          BY <2>1, <3>4, <3>8
        <4>2. all[M] = events[M]
          BY <1>1, <4>1
        <4> QED BY <2>1, <3>1, <4>1, <4>2
      <3> QED BY <3>6, <3>7, <3>8
    <2>3. CASE i # 1
      <3>1. i - 1 \in 1..N /\ M + i - 1 = M + (i - 1) /\ M + (i - 1) \in (M + 1)..(M + N)
            /\ (M + (i - 1)) - M = i - 1 /\ M + i > 1
        BY <1>0, <2>3
      <3>2. d[M + i - 1] = new[i - 1] /\ all[M + i - 1] = rows[i - 1]
        BY <1>1, <1>5, <3>1
      <3>3. EndsUpdate(all, M + i) => EndsUpdate(rows, i)
        <4>1. i # N => M + i + 1 \in (M + 1)..(M + N) /\ (M + i + 1) - M = i + 1
          BY <1>0
        <4> QED BY <1>1, <2>1, <4>1 DEF EndsUpdate, N
      <3>4. rows[i].kind = "delta" => Follows(rows[i - 1], rows[i])
        BY <2>3 DEF Linked, N
      <3>5. d[M + i] = new[i]
        BY <1>5
      <3>6. d[M + i] = TraceStep(d[M + i - 1], all[M + i])
        BY <1>3, <2>1, <2>3, <3>2, <3>5
      <3>7. d[M + i].ok /\ d[M + i].sequence \in Nat /\ (EndsUpdate(all, M + i) => ~Crossed(d[M + i].book))
        BY <1>3, <3>3, <3>5
      <3>8. all[M + i].kind = "delta" => M + i > 1 /\ Follows(all[M + i - 1], all[M + i])
        BY <2>1, <3>1, <3>2, <3>4
      <3> QED BY <3>6, <3>7, <3>8
    <2> QED BY <2>2, <2>3
  <1>8. Traced(d, all)
    <2>1. ASSUME NEW i \in 1..(M + N)
          PROVE  /\ d[i] = TraceStep(d[i - 1], all[i]) /\ d[i].ok /\ d[i].sequence \in Nat
                 /\ EndsUpdate(all, i) => ~Crossed(d[i].book)
                 /\ all[i].kind = "delta" => i > 1 /\ Follows(all[i - 1], all[i])
      <3>1. CASE i <= M
        <4>1. i \in 1..M
          BY <1>0, <3>1
        <4> QED BY <1>6, <4>1
      <3>2. CASE i > M
        <4>1. PICK j \in 1..N : i = M + j
          <5>1. i - M \in 1..N /\ i = M + (i - M)
            BY <1>0, <3>2
          <5> QED BY <5>1
        <4>2. /\ d[M + j] = TraceStep(d[M + j - 1], all[M + j]) /\ d[M + j].ok /\ d[M + j].sequence \in Nat
              /\ EndsUpdate(all, M + j) => ~Crossed(d[M + j].book)
              /\ all[M + j].kind = "delta" => M + j > 1 /\ Follows(all[M + j - 1], all[M + j])
          BY <1>7
        <4>3. M + j - 1 = i - 1
          BY <1>0, <4>1
        <4> QED BY ONLY <4>1, <4>2, <4>3
      <3> QED BY <1>0, <3>1, <3>2
    <2> QED BY <1>1, <1>4, <2>1 DEF Traced
  <1>9. all # <<>> /\ d[Len(all)] = new[N] /\ new[N].ok /\ new[N] \in Replays
    <2>1. N \in 1..N /\ M + N # 0
      BY <1>0
    <2>2. new[N] \in Replays
      BY <2>1 DEF N
    <2> QED BY <1>1, <1>3, <1>5, <2>1, <2>2
  <1>10. new[N] = [ok |-> TRUE, sequence |-> new[N].sequence, book |-> new[N].book]
    BY <1>9 DEF Replays
  <1> QED BY <1>8, <1>9, <1>10 DEF Tracked, all, N

\* The sequence number and the book that have been reached.
LEMMA TrackedIs ==
  ASSUME NEW c, NEW events, Traced(c, events), events # <<>>, NEW e, NEW b,
         c[Len(events)] = [ok |-> TRUE, sequence |-> e, book |-> b]
  PROVE  /\ e \in Nat /\ b \in Books /\ events[Len(events)].sequence = e
         /\ events[Len(events)].kind \in {"snapshot", "delta"}
  <1>1. PICK m \in 1..Len(events) : m = Len(events)
    <2>1. Len(events) \in 1..Len(events)
      BY DEF Traced
    <2> QED BY <2>1
  <1>2. c[m] = TraceStep(c[m - 1], events[m]) /\ c[m].ok /\ c[m].sequence \in Nat /\ c[m] \in Replays
    BY <1>1, TraceTypes DEF Traced
  <1>3. events[m] \in Records
    BY <1>1 DEF Traced
  <1>4. events[m].kind \in {"snapshot", "delta"}
    BY <1>3 DEF Records, SnapshotRecords, DeltaRecords
  <1>5. c[m].sequence = events[m].sequence
    BY <1>2 DEF TraceStep, ApplySnapshot, StageDelta, Refused
  <1> QED BY <1>1, <1>2, <1>4, <1>5 DEF Replays

LEMMA TrackedSnapshot ==
  ASSUME NEW events \in Seq(Records), NEW e, NEW b, NEW s \in Nat, NEW v \in Books, ~Crossed(v), TwoSided(v),
         events = <<>> \/ (Tracked(events, e, b) /\ e < s)
  PROVE  Tracked(Append(events, SnapshotRecord(s, v)), s, v)
  <1>1. PICK c : Traced(c, events) /\ c[Len(events)].sequence < s
    <2>1. CASE events = <<>>
      <3> DEFINE c == [i \in 0..0 |-> Uninitialized]
      <3>1. c \in [0..0 -> Replays] /\ c[0] = Uninitialized
        BY FirstReplays
      <3>2. Len(events) = 0 /\ 1..0 = {}
        BY <2>1
      <3> HIDE DEF c
      <3>3. Traced(c, events)
        BY <3>1, <3>2 DEF Traced
      <3>4. c[Len(events)].sequence < s
        BY <3>1, <3>2 DEF Uninitialized
      <3> QED BY <3>3, <3>4
    <2>2. CASE Tracked(events, e, b) /\ e < s
      BY <2>2 DEF Tracked
    <2> QED BY <2>1, <2>2
  <1> DEFINE row == SnapshotRecord(s, v)
             next == [ok |-> TRUE, sequence |-> s, book |-> v]
             new == [i \in 1..1 |-> next]
  <1>2. row \in Records /\ row.kind = "snapshot" /\ row.sequence = s /\ row.book = v
    BY DEF Records, SnapshotRecords, SnapshotRecord
  <1>3. next \in Replays
    BY DEF Replays
  <1>4. <<row>> \in Seq(Records) /\ Len(<<row>>) = 1 /\ <<row>>[1] = row /\ <<row>> # <<>>
    BY <1>2
  <1>5. TraceStep(c[Len(events)], row) = next
    BY <1>1, <1>2 DEF TraceStep, ApplySnapshot
  <1>6. new \in [1..1 -> Replays] /\ new[1] = next /\ \A i \in 1..1 : i = 1
    BY <1>3
  <1>7. next.ok /\ next.sequence = s /\ next.book = v
    OBVIOUS
  <1> HIDE DEF row, next, new
  <1>8. PICK rows : rows = <<row>>
    OBVIOUS
  <1>9. Steps(new, rows, c[Len(events)])
    BY <1>4, <1>5, <1>6, <1>7, <1>8 DEF Steps
  <1>10. Linked(rows, events)
    BY <1>2, <1>4, <1>6, <1>8 DEF Linked
  <1>11. Tracked(events \o rows, new[Len(rows)].sequence, new[Len(rows)].book)
    BY <1>1, <1>4, <1>6, <1>8, <1>9, <1>10, TraceExtends
  <1>12. events \o rows = Append(events, row)
    BY <1>2, <1>8, Ends
  <1> QED BY <1>4, <1>6, <1>7, <1>8, <1>11, <1>12 DEF row

\* The records of an update, in any order of its levels, reach the book with all of them.
LEMMA TrackedUpdate ==
  ASSUME NEW events, NEW e, NEW b, Tracked(events, e, b), NEW n \in Nat, n > 0, e < n * Factor, e \div Factor # n,
         NEW kept, Keyed(kept), NEW N \in Nat, N = Cardinality(kept), N > 0, N < Factor,
         \A l \in kept : Applicable(b, l), ~Crossed(SetLevels(b, kept)), NEW list, Lists(list, kept)
  PROVE  LET rows == [i \in DOMAIN list |->
                        DeltaRecord(IF i = 1 THEN e ELSE n * Factor + i - 1, n * Factor + i, list[i])]
         IN Tracked(events \o rows, n * Factor + N, SetLevels(b, kept))
  <1> DEFINE rows == [i \in DOMAIN list |->
                        DeltaRecord(IF i = 1 THEN e ELSE n * Factor + i - 1, n * Factor + i, list[i])]
             UpTo(i) == {list[j] : j \in 1..i}
             new == [i \in 1..N |-> [ok |-> TRUE, sequence |-> n * Factor + i, book |-> SetLevels(b, UpTo(i))]]
  <1>1. PICK c : Traced(c, events) /\ c[Len(events)] = [ok |-> TRUE, sequence |-> e, book |-> b] /\ events # <<>>
    BY DEF Tracked
  <1>2. e \in Nat /\ b \in Books /\ events[Len(events)].sequence = e /\ events \in Seq(Records)
        /\ events[Len(events)].kind \in {"snapshot", "delta"}
    <2>1. events \in Seq(Records)
      BY <1>1 DEF Traced
    <2>2. e \in Nat /\ b \in Books /\ events[Len(events)].sequence = e
          /\ events[Len(events)].kind \in {"snapshot", "delta"}
      BY ONLY <1>1, TrackedIs
    <2> QED BY <2>1, <2>2
  <1>3. PICK base \in Nat : base = n * Factor
    <2>1. Factor \in Nat
      BY BookAssumption
    <2> QED BY <2>1, SMT
  <1>4. /\ list \in Seq(kept) /\ DOMAIN list = 1..N /\ Len(list) = N
        /\ \A i \in 1..N : list[i] \in kept /\ list[i] \in Levels
        /\ \A i, j \in 1..N : list[i] = list[j] => i = j
        /\ \A l \in kept : \E i \in 1..N : list[i] = l
    BY DEF Lists, Keyed
  <1>5. /\ rows \in Seq(Records) /\ Len(rows) = N /\ DOMAIN rows = 1..N
        /\ \A i \in 1..N : /\ rows[i] = DeltaRecord(IF i = 1 THEN e ELSE base + i - 1, base + i, list[i])
                           /\ rows[i] \in DeltaRecords
    <2>1. ASSUME NEW i \in 1..N
          PROVE  DeltaRecord(IF i = 1 THEN e ELSE base + i - 1, base + i, list[i]) \in DeltaRecords
      <3>1. base + i \in Nat /\ (IF i = 1 THEN e ELSE base + i - 1) \in Nat
        BY <1>2
      <3> QED BY <1>4, <3>1 DEF DeltaRecord, DeltaRecords
    <2>2. rows = [i \in 1..N |-> DeltaRecord(IF i = 1 THEN e ELSE base + i - 1, base + i, list[i])]
      BY <1>3, <1>4
    <2> HIDE DEF rows
    <2>3. rows \in [1..N -> DeltaRecords] /\ DeltaRecords \subseteq Records
      BY <2>1, <2>2 DEF Records
    <2>4. rows \in Seq(Records) /\ Len(rows) = N
      BY <2>3
    <2> QED BY <2>1, <2>2, <2>3, <2>4
  <1>6. \A i \in 1..N : /\ rows[i].kind = "delta" /\ rows[i].sequence = base + i /\ rows[i].level = list[i]
                        /\ rows[i].previous = IF i = 1 THEN e ELSE base + i - 1
    BY <1>5 DEF DeltaRecord
  <1> HIDE DEF rows
  <1>7. ASSUME NEW i \in 1..N PROVE Provider(rows[i]) = n /\ Position(rows[i]) = i
    <2>1. Factor \in Nat \ {0} /\ i \in 0..(Factor - 1)
      BY BookAssumption
    <2>2. (n * Factor + i) \div Factor = n /\ (n * Factor + i) % Factor = i
      BY <2>1, DivMod
    <2>3. rows[i].sequence = n * Factor + i
      BY <1>3, <1>6
    <2> QED BY ONLY <2>2, <2>3 DEF Provider, Position
  <1>8. ASSUME NEW i \in 1..N
        PROVE  /\ Keyed(UpTo(i)) /\ list[i] \notin UpTo(i - 1) /\ UpTo(i) = UpTo(i - 1) \cup {list[i]}
    <2>1. \A j \in 1..i : j \in 1..N
      OBVIOUS
    <2>2. UpTo(i) \subseteq kept
      BY <1>4, <2>1
    <2>3. Keyed(UpTo(i))
      BY <2>2 DEF Keyed
    <2>4. \A j \in 1..(i - 1) : j \in 1..N /\ j # i
      OBVIOUS
    <2>5. list[i] \notin UpTo(i - 1)
      BY <1>4, <2>4
    <2>6. \A j : j \in 1..i <=> j \in 1..(i - 1) \/ j = i
      OBVIOUS
    <2>7. UpTo(i) = UpTo(i - 1) \cup {list[i]}
      BY <2>6
    <2> QED BY <2>3, <2>5, <2>7
  <1>9. UpTo(0) = {} /\ UpTo(N) = kept
    <2>1. 1..0 = {}
      OBVIOUS
    <2>2. UpTo(0) = {}
      BY <2>1
    <2>3. UpTo(N) = kept
      BY <1>4
    <2> QED BY <2>2, <2>3
  <1> HIDE DEF UpTo
  <1>10. ASSUME NEW i \in 1..N
         PROVE  /\ SetLevels(b, UpTo(i)) = SetLevel(SetLevels(b, UpTo(i - 1)), list[i])
                /\ Applicable(SetLevels(b, UpTo(i - 1)), list[i])
                /\ SetLevels(b, UpTo(i)) \in Books
                /\ SetLevels(b, {}) = b
    <2>1. PICK before, l : before = UpTo(i - 1) /\ l = list[i]
      OBVIOUS
    <2>2. l \notin before /\ Keyed(before \cup {l}) /\ UpTo(i) = before \cup {l}
      BY <1>8, <2>1
    <2>3. /\ SetLevels(b, before \cup {l}) = SetLevel(SetLevels(b, before), l)
          /\ SetLevels(b, before)[l.side][l.price] = b[l.side][l.price]
          /\ SetLevels(b, {}) = b
      BY ONLY <1>2, <2>2, OneMoreLevel
    <2>4. SetLevels(b, before \cup {l}) \in Books
      BY <1>2, <2>2, LevelsAreSet
    <2>5. Applicable(b, l)
      BY <1>4, <2>1
    <2> QED BY <2>1, <2>2, <2>3, <2>4, <2>5 DEF Applicable
  <1>11. /\ new \in [1..N -> Replays]
         /\ \A i \in 1..N : new[i] = [ok |-> TRUE, sequence |-> base + i, book |-> SetLevels(b, UpTo(i))]
    <2>1. \A i \in 1..N : [ok |-> TRUE, sequence |-> base + i, book |-> SetLevels(b, UpTo(i))] \in Replays
      BY <1>10 DEF Replays
    <2>2. new = [i \in 1..N |-> [ok |-> TRUE, sequence |-> base + i, book |-> SetLevels(b, UpTo(i))]]
      BY <1>3
    <2> HIDE DEF new
    <2> QED BY <2>1, <2>2
  <1> HIDE DEF new
  <1>12. ASSUME NEW i \in 1..N, NEW r, r = IF i = 1 THEN c[Len(events)] ELSE new[i - 1]
         PROVE  new[i] = TraceStep(r, rows[i])
    <2>1. r = [ok |-> TRUE, sequence |-> rows[i].previous, book |-> SetLevels(b, UpTo(i - 1))]
      <3>1. CASE i = 1
        <4>1. i - 1 = 0
          BY <3>1
        <4> QED BY <1>1, <1>6, <1>9, <1>10, <1>12, <3>1, <4>1
      <3>2. CASE i # 1
        <4>1. i - 1 \in 1..N /\ base + (i - 1) = base + i - 1
          BY <3>2
        <4>2. new[i - 1] = [ok |-> TRUE, sequence |-> base + (i - 1), book |-> SetLevels(b, UpTo(i - 1))]
          BY <1>11, <4>1
        <4>3. rows[i].previous = base + i - 1
          BY <1>6, <3>2
        <4> QED BY ONLY <1>12, <3>2, <4>1, <4>2, <4>3
      <3> QED BY <3>1, <3>2
    <2>2. r.ok /\ r.sequence = rows[i].previous /\ r.book = SetLevels(b, UpTo(i - 1))
      BY <2>1
    <2>3. rows[i].sequence > rows[i].previous
      BY <1>2, <1>3, <1>6
    <2>4. StageDelta(r, rows[i]) = [ok |-> TRUE, sequence |-> base + i, book |-> SetLevels(b, UpTo(i))]
      <3>1. PICK row, before, after :
              row = rows[i] /\ before = SetLevels(b, UpTo(i - 1)) /\ after = SetLevels(b, UpTo(i))
        OBVIOUS
      <3>2. row.level = list[i] /\ row.sequence = base + i /\ after = SetLevel(before, list[i]) /\ Applicable(before, list[i])
        BY <1>6, <1>10, <3>1
      <3>3. r.ok /\ r.sequence = row.previous /\ r.book = before /\ row.sequence > row.previous
        BY <2>2, <2>3, <3>1
      <3>4. StageDelta(r, row) = [ok |-> TRUE, sequence |-> base + i, book |-> after]
        BY ONLY <3>2, <3>3 DEF StageDelta
      <3> QED BY ONLY <3>1, <3>4
    <2> QED BY <1>6, <1>11, <2>4 DEF TraceStep
  <1>13. Steps(new, rows, c[Len(events)])
    <2>1. ASSUME NEW i \in 1..N, EndsUpdate(rows, i) PROVE ~Crossed(new[i].book)
      <3>1. i = N
        <4>1. i # N => i + 1 \in 1..N
          OBVIOUS
        <4> QED BY <1>5, <1>6, <1>7, <2>1, <4>1 DEF EndsUpdate
      <3> QED BY <1>9, <1>11, <3>1
    <2>2. \A i \in 1..N : new[i].ok /\ new[i].sequence \in Nat
      BY <1>11
    <2> QED BY <1>5, <1>12, <2>1, <2>2 DEF Steps
  <1>14. Linked(rows, events)
    <2>1. ASSUME NEW i \in 1..N
          PROVE  IF i = 1 THEN Follows(events[Len(events)], rows[1]) ELSE Follows(rows[i - 1], rows[i])
      <3>1. CASE i = 1
        <4>1. Provider(rows[1]) = n /\ Position(rows[1]) = 1 /\ rows[1].previous = e
          BY <1>6, <1>7, <3>1
        <4>2. Provider(events[Len(events)]) # n
          BY <1>2 DEF Provider
        <4> QED BY <1>2, <3>1, <4>1, <4>2 DEF Follows
      <3>2. CASE i # 1
        <4>1. i - 1 \in 1..N /\ base + (i - 1) = base + i - 1
          BY <3>2
        <4>2. /\ Provider(rows[i]) = n /\ Position(rows[i]) = i /\ rows[i].previous = base + i - 1
              /\ Provider(rows[i - 1]) = n /\ Position(rows[i - 1]) = i - 1 /\ rows[i - 1].sequence = base + i - 1
              /\ rows[i].sequence = base + i /\ rows[i - 1].kind = "delta"
          BY <1>6, <1>7, <3>2, <4>1
        <4> QED BY <3>2, <4>2 DEF Follows
      <3> QED BY <3>1, <3>2
    <2> QED BY <1>1, <1>5, <2>1 DEF Linked
  <1>15. Tracked(events \o rows, new[N].sequence, new[N].book)
    <2>1. rows # <<>> /\ new \in [1..Len(rows) -> Replays]
      BY <1>5, <1>11
    <2>2. Tracked(events \o rows, new[Len(rows)].sequence, new[Len(rows)].book)
      BY ONLY <1>1, <1>5, <1>13, <1>14, <2>1, TraceExtends
    <2> QED BY <1>5, <2>2
  <1>16. N \in 1..N /\ new[N].sequence = n * Factor + N /\ new[N].book = SetLevels(b, kept)
    BY <1>3, <1>9, <1>11
  <1> QED BY <1>15, <1>16 DEF rows

(***************************************************************************)
(* The epoch of a connection.                                              *)
(***************************************************************************)
\* A number that is not above any position of an update.
Reached(e, n) == \E q \in 0..n, k \in 0..(Factor - 1) : e = q * Factor + k

\* As long as the connection lives, its records lead to the tracked book.
EpochTraced ==
  connection # "resync" =>
    IF last = Nothing THEN records = <<>> ELSE Tracked(records, emitted, book) /\ Reached(emitted, last)

PublishInv == EpochTraced /\ PublishedIsTracked

LEMMA TrackedRecords == ASSUME NEW events, NEW e, NEW b, Tracked(events, e, b) PROVE events \in Seq(Records)
  BY DEF Tracked, Traced

LEMMA Numbers == Factor \in Nat \ {0} /\ Ids \subseteq Nat
  <1>1. Cardinality(Prices) \in Nat
    BY BookAssumption, FS_CardinalityType
  <1>2. Factor \in Nat \ {0}
    BY <1>1, BookAssumption
  <1>3. Ids \subseteq Nat
    BY SyncAssumption DEF Ids
  <1> QED BY <1>2, <1>3

\* A later number leaves all positions of the earlier ones behind.
LEMMA ReachedLess ==
  ASSUME NEW e, NEW p \in Ids, Reached(e, p), NEW n \in Ids, p < n
  PROVE  e < n * Factor /\ e \div Factor # n /\ Reached(e, n) /\ n * Factor \in Nat
  <1>1. PICK q \in 0..p, k \in 0..(Factor - 1) : e = q * Factor + k
    BY DEF Reached
  <1>2. p \in Nat /\ n \in Nat /\ q \in Nat /\ q < n /\ q \in 0..n /\ q # n
    BY Numbers
  <1>3. e < n * Factor /\ n * Factor \in Nat
    BY <1>1, <1>2, Numbers, Below
  <1>4. e \div Factor = q
    BY <1>1, <1>2, Numbers, DivMod
  <1> QED BY <1>1, <1>2, <1>3, <1>4 DEF Reached

LEMMA ReachedIs ==
  ASSUME NEW n \in Ids, NEW k \in 0..(Factor - 1)
  PROVE  Reached(n * Factor + k, n) /\ Reached(n * Factor, n) /\ n * Factor \in Nat
  <1>1. n \in 0..n /\ 0 \in 0..(Factor - 1)
    BY Numbers
  <1>2. n * Factor \in Nat
    BY Numbers, SMT
  <1>3. n * Factor = n * Factor + 0
    BY <1>2
  <1> QED BY <1>1, <1>2, <1>3 DEF Reached

\* The levels of a message are for different sides and prices.
LEMMA ChangesAreKeyed == ASSUME VenueOK, NEW a, NEW b \in Ids PROVE Keyed(Changes(a, b))
  <1>1. venue[b] \in Books
    BY DEF VenueOK
  <1>2. ASSUME NEW l \in Changes(a, b)
        PROVE  l \in Levels /\ l.quantity = venue[b][l.side][l.price]
               /\ l = [side |-> l.side, price |-> l.price, quantity |-> l.quantity]
    <2>1. PICK sp \in Changed(a, b) : l = [side |-> sp[1], price |-> sp[2], quantity |-> venue[b][sp[1]][sp[2]]]
      BY DEF Changes
    <2>2. sp[1] \in Sides /\ sp[2] \in Prices
      BY DEF Changed
    <2>3. venue[b][sp[1]][sp[2]] \in Quantities
      BY <1>1, <2>2 DEF Books
    <2> QED BY <2>1, <2>2, <2>3 DEF Levels
  <1>3. ASSUME NEW k \in Changes(a, b), NEW l \in Changes(a, b), k.side = l.side, k.price = l.price PROVE k = l
    BY <1>2, <1>3
  <1> QED BY <1>2, <1>3 DEF Keyed

LEMMA NoLevels == ASSUME NEW b \in Books PROVE SetLevels(b, {}) = b
  <1>1. Keyed({})
    BY DEF Keyed
  <1>2. SetLevels(b, {}) \in Books /\ \A s \in Sides, p \in Prices : SetLevels(b, {})[s][p] = b[s][p]
    BY <1>1, LevelsAreSet
  <1> QED BY <1>2, SameBook

\* An update that is admitted is traced.
LEMMA AdmitTraced ==
  ASSUME BookInv, PublishInv, connection = "connected", last # Nothing,
         NEW m \in Updates, m.previous <= last, last < m.final, AdmitUpdate(m, last)
  PROVE  PublishInv'
  <1> DEFINE kept == Kept(m.levels)
             after == SetLevels(book, m.levels)
             n == m.final
  <1>1. CASE Refuse
    BY <1>1 DEF Refuse, PublishInv, EpochTraced, PublishedIsTracked
  <1>2. CASE /\ ~Crossed(after) /\ EmitDelta(n, kept) /\ book' = after /\ last' = n /\ connection' = connection
    <2>1. Tracked(records, emitted, book) /\ Reached(emitted, last) /\ last \in Ids /\ n \in Ids /\ book \in Books
      BY UpdateRange DEF PublishInv, EpochTraced, BookInv, Place, BookIsVenueBook, VenueOK
    <2>2. n \in Nat /\ last \in Nat /\ n > 0 /\ n # Nothing
      <3>1. n \in Nat /\ last \in Nat /\ last < n
        BY <2>1, Numbers
      <3> HIDE DEF n
      <3> QED BY <3>1 DEF Nothing
    <2>3. emitted < n * Factor /\ emitted \div Factor # n /\ Reached(emitted, n)
      BY <2>1, ReachedLess
    <2>4. Keyed(m.levels) /\ m.levels = Changes(m.previous, n)
      BY <2>1, UpdateRange, ChangesAreKeyed DEF BookInv
    <2>5. IsFiniteSet(kept) /\ Cardinality(kept) < Factor /\ Cardinality(kept) \in Nat
      BY <2>4, FewLevels
    <2>6. Keyed(kept) /\ \A l \in kept : Applicable(book, l)
      BY <2>4 DEF Keyed, Kept
    <2>7. SetLevels(book, kept) = after
      BY <2>1, <2>4, AbsentLevels DEF Kept
    <2>8. PICK list : list = Ordered(kept)
      OBVIOUS
    <2>9. Lists(list, kept)
      BY <2>5, <2>6, <2>8, OrderedLists DEF Keyed
    <2> HIDE DEF kept, after, n
    <2>10. Tracked(records', emitted', book') /\ Reached(emitted', n)
      <3>1. CASE kept = {}
        <4>1. Cardinality(kept) = 0 /\ DOMAIN list = 1..0
          BY <2>9, <3>1, FS_EmptySet DEF Lists
        <4>2. Numbered(n, kept) = <<>>
          BY <2>8, <4>1 DEF Numbered
        <4>3. records \o <<>> = records
          <5>1. records \in Seq(Records)
            BY <2>1, TrackedRecords
          <5> QED BY <5>1
        <4>4. records' = records /\ emitted' = emitted
          BY <1>2, <3>1, <4>2, <4>3 DEF EmitDelta
        <4>5. book' = book
          BY <1>2, <2>1, <2>7, <3>1, NoLevels
        <4> QED BY <2>1, <2>3, <4>4, <4>5
      <3>2. CASE kept # {}
        <4>1. PICK N \in Nat : N = Cardinality(kept) /\ N > 0 /\ N < Factor
          <5>1. Cardinality(kept) # 0
            BY <2>5, <3>2, FS_EmptySet
          <5> QED BY <2>5, <5>1
        <4>2. PICK rows : rows = [i \in DOMAIN list |->
                 DeltaRecord(IF i = 1 THEN emitted ELSE n * Factor + i - 1, n * Factor + i, list[i])]
          OBVIOUS
        <4>3. ~Crossed(SetLevels(book, kept))
          BY <1>2, <2>7
        <4>4. Tracked(records \o rows, n * Factor + N, SetLevels(book, kept))
          BY ONLY <2>1, <2>2, <2>3, <2>6, <2>9, <4>1, <4>2, <4>3, TrackedUpdate
        <4>5. Numbered(n, kept) = rows
          BY <2>8, <4>2 DEF Numbered
        <4>6. records' = records \o rows /\ emitted' = n * Factor + N
          BY <1>2, <3>2, <4>1, <4>5 DEF EmitDelta
        <4>7. N \in 0..(Factor - 1)
          BY <4>1, Numbers
        <4>8. Reached(n * Factor + N, n)
          BY <2>1, <4>7, ReachedIs
        <4> QED BY <1>2, <2>7, <4>4, <4>6, <4>8
      <3> QED BY <3>1, <3>2
    <2>11. EpochTraced'
      BY <1>2, <2>2, <2>10 DEF EpochTraced
    <2> QED BY <1>2, <2>11 DEF PublishInv, PublishedIsTracked
  <1> QED BY <1>1, <1>2 DEF AdmitUpdate

\* A snapshot that is admitted is traced.
LEMMA SnapshotTraced ==
  ASSUME BookInv, PublishInv, connection = "connected", NEW n \in Ids, last = Nothing \/ n > last,
         TwoSided(venue[n]), EmitSnapshot(n), book' = venue[n], last' = n, connection' = connection
  PROVE  PublishInv'
  <1>1. venue[n] \in Books /\ ~Crossed(venue[n]) /\ n \in Nat /\ n # Nothing
    BY Numbers DEF BookInv, VenueOK, Nothing
  <1>2. PICK s \in Nat : s = n * Factor /\ Reached(s, n)
    <2>1. 0 \in 0..(Factor - 1)
      BY Numbers
    <2> QED BY <2>1, ReachedIs
  <1>3. CASE last = Nothing
    <2>1. records = <<>> /\ <<>> \in Seq(Records)
      BY <1>3 DEF PublishInv, EpochTraced
    <2>2. Tracked(Append(records, SnapshotRecord(s, venue[n])), s, venue[n])
      BY ONLY <1>1, <1>2, <2>1, TwoSided(venue[n]), TrackedSnapshot
    <2>3. EpochTraced'
      BY <1>1, <1>2, <2>2 DEF EpochTraced, EmitSnapshot
    <2> QED BY <2>3 DEF PublishInv, PublishedIsTracked
  <1>4. CASE last # Nothing /\ n > last
    <2>1. Tracked(records, emitted, book) /\ Reached(emitted, last) /\ last \in Ids
      BY <1>4 DEF PublishInv, EpochTraced, BookInv, Place
    <2>2. records \in Seq(Records)
      BY <2>1, TrackedRecords
    <2>3. emitted < s
      <3>1. last < n
        BY <1>1, <1>4, <2>1, Numbers
      <3> QED BY <1>2, <2>1, <3>1, ReachedLess
    <2>4. Tracked(Append(records, SnapshotRecord(s, venue[n])), s, venue[n])
      BY ONLY <1>1, <1>2, <2>1, <2>2, <2>3, TwoSided(venue[n]), TrackedSnapshot
    <2>5. EpochTraced'
      BY <1>1, <1>2, <2>4 DEF EpochTraced, EmitSnapshot
    <2> QED BY <2>5 DEF PublishInv, PublishedIsTracked
  <1> QED BY <1>3, <1>4

LEMMA PublishInit == SyncInit => PublishInv
  BY DEF SyncInit, PublishInv, EpochTraced, PublishedIsTracked

LEMMA UpdateTraced ==
  ASSUME BookInv, PublishInv, NEW m \in Updates, UpdateArrives(m) PROVE PublishInv'
  <1>1. m.previous \in Int /\ m.final \in Int /\ m.first \in Int /\ m.previous < m.first /\ m.previous < m.final
    BY UpdateRange, IdsAreNumbers DEF BookInv
  <1>2. ASSUME Ignore PROVE PublishInv'
    BY <1>2 DEF Ignore, syncVars, stream, sync, adapter, PublishInv, EpochTraced, PublishedIsTracked
  <1>3. ASSUME Refuse PROVE PublishInv'
    BY <1>3 DEF Refuse, PublishInv, EpochTraced, PublishedIsTracked
  <1>4. ASSUME connection = "connected", last # Nothing, m.previous <= last, last < m.final, AdmitUpdate(m, last)
        PROVE  PublishInv'
    BY <1>4, AdmitTraced
  <1>5. CASE BinanceUpdate(m)
    <2>1. connection = "connected" /\ last # Nothing /\ last \in Int
      BY <1>5, IdsAreNumbers DEF BinanceUpdate, BookInv, Place
    <2>2. CASE m.final > last /\ InRange(m, last) /\ AdmitUpdate(m, last)
      <3>1. m.previous <= last /\ last < m.final
        BY <1>1, <2>1, <2>2 DEF InRange
      <3> QED BY <1>4, <2>1, <2>2, <3>1
    <2> QED BY <1>2, <1>3, <1>5, <2>2 DEF BinanceUpdate
  <1>6. CASE OkxUpdate(m)
    <2>1. CASE last # Nothing /\ m.previous = last /\ AdmitUpdate(m, m.previous)
      <3>1. connection = "connected" /\ m.previous <= last /\ last < m.final
        BY <1>1, <1>6, <2>1 DEF OkxUpdate
      <3> QED BY <1>4, <2>1, <3>1
    <2> QED BY <1>3, <1>6, <2>1 DEF OkxUpdate
  <1> QED BY <1>5, <1>6 DEF UpdateArrives

LEMMA PublishStep == BookInv /\ PublishInv /\ [SyncNext]_syncVars => PublishInv'
  <1> SUFFICES ASSUME BookInv, PublishInv, [SyncNext]_syncVars PROVE PublishInv'
    OBVIOUS
  <1>1. ASSUME UNCHANGED syncVars PROVE PublishInv'
    BY <1>1 DEF syncVars, sync, adapter, PublishInv, EpochTraced, PublishedIsTracked
  <1>2. ASSUME connection' = "resync" PROVE PublishInv'
    BY <1>2 DEF PublishInv, EpochTraced, PublishedIsTracked
  <1>3. ASSUME NEW n \in Ids, HttpSnapshot(n) PROVE PublishInv'
    <2>1. last = Nothing
      BY <1>3 DEF HttpSnapshot, BookInv, Place
    <2> QED BY <1>2, <1>3, <2>1, SnapshotTraced DEF HttpSnapshot, RefuseSnapshot
  <1>4. ASSUME NEW n \in Ids, OkxSnapshot(n) PROVE PublishInv'
    <2>1. SnapshotAdvances(n) => last = Nothing \/ n > last
      BY DEF SnapshotAdvances, BookInv, Place
    <2> QED BY <1>2, <1>4, <2>1, SnapshotTraced DEF OkxSnapshot, RefuseSnapshot
  <1>5. ASSUME NEW n \in Ids, Heartbeat(n) PROVE PublishInv'
    BY <1>1, <1>2, <1>5 DEF Heartbeat, Ignore, Refuse
  <1>6. ASSUME NEW m \in Updates, UpdateArrives(m) PROVE PublishInv'
    BY <1>6, UpdateTraced
  <1>7. ASSUME MaintenanceReset \/ Malformed PROVE PublishInv'
    BY <1>2, <1>7 DEF MaintenanceReset, Malformed, Refuse
  <1>8. ASSUME Reconnect PROVE PublishInv'
    BY <1>8 DEF Reconnect, PublishInv, EpochTraced, PublishedIsTracked
  <1>9. ASSUME NEW n \in 1..MaxRows, PublishEpoch(n) PROVE PublishInv'
    <2>1. connection = "connected" /\ last # Nothing
      BY <1>9 DEF PublishEpoch, Live, BookInv, Place
    <2>2. Tracked(records, emitted, book) /\ Reached(emitted, last)
      BY <2>1 DEF PublishInv, EpochTraced
    <2>3. PICK c : Traced(c, records) /\ c[Len(records)] = [ok |-> TRUE, sequence |-> emitted, book |-> book]
      BY <2>2 DEF Tracked
    <2>4. n \in Nat \ {0}
      BY SyncAssumption
    <2>5. Publish(records, n) = [ok |-> TRUE, sequence |-> emitted, book |-> book]
      BY <2>3, <2>4, PublishIsTrace
    <2> QED BY <1>9, <2>1, <2>2, <2>5
            DEF PublishEpoch, PublishInv, EpochTraced, PublishedIsTracked, stream, sync, adapter
  <1>10. CASE Finished
    BY <1>1, <1>10 DEF Finished
  <1> QED
    BY <1>1, <1>3, <1>4, <1>5, <1>6, <1>7, <1>8, <1>9, <1>10 DEF SyncNext

\* Every update that a live synchronizer admitted can be published, however the
\* journal is cut into batches, even through the middle of an update, and
\* reconstructs the book the synchronizer kept.
THEOREM PublishedIsTrackedHolds == SyncSpec => []PublishedIsTracked
  <1>1. PublishInv => PublishedIsTracked
    BY DEF PublishInv
  <1>2. SyncSpec => []PublishInv
    BY Invariant, PublishInit, PublishStep, PTL DEF SyncSpec
  <1> QED BY <1>1, <1>2, PTL

-----------------------------------------------------------------------------
(***************************************************************************)
(* The Raw frames of a run.                                                *)
(***************************************************************************)

\* Where no epoch is open: before a connection has one, and once an attempt is settled.
Idle == Reconnecting \cup {"opened", "drainOpened", "newEpoch", "retry", "backoff", "raised"}

\* Where an epoch is open: from the first frame awaited to the end of the incoming.
InEpoch ==
  Receiving \cup {"subscribe", "noted", "request", "drainRequest", "fetch", "admit",
                  "drainSync", "goLive", "drainLive"}

Clear == journal = None /\ open = {} /\ completed = <<>>

Closings == [records : SUBSET Nat, segments : SUBSET (SUBSET Nat), decision : {"committed", "aborted"}]

RawTypes ==
  /\ received \in Seq(Nat) /\ open \in SUBSET Nat /\ completed \in Seq(SUBSET Nat)
  /\ journal \in Journals \cup {None} /\ closed \in Seq(Closings)

\* The frames F were received in epoch n.
ReceivedIn(F, n) == \A f \in F : f \in DOMAIN received /\ received[f] = n

\* The closed epochs hold their own frames, and so does the open one, with what is
\* still to be archived for it.
Tagged ==
  /\ \A n \in 1..Len(closed) : \A seg \in closed[n].segments : ReceivedIn(seg, n)
  /\ journal # None => /\ \A seg \in journal.segments : ReceivedIn(seg, Epoch)
                       /\ ReceivedIn(open, Epoch)
                       /\ \A i \in 1..Len(completed) : ReceivedIn(completed[i], Epoch)

RawInv == RawTypes /\ Tagged

\* Which terminal cleanup runs, and where.
Moded ==
  /\ mode \in {"none", "complete", "failed", "cancelled", "coordinator"}
  /\ mode # "none" => pc \in Cleaning \cup {"returned", "cancelled", "cleaned"}
  /\ pc \in Cleaning \cup {"returned", "cleaned"} => mode # "none"
  /\ mode = "coordinator" => pc \in Cleaning \cup {"cleaned"}
  /\ pc = "cleaned" => mode = "coordinator"

\* What the control point says of the epoch and of the frames still in memory.
Placed ==
  /\ Moded
  /\ pc \in Idle \/ mode = "coordinator" => Clear
  /\ pc \in InEpoch => journal # None
  /\ queue \in Seq(Nat) /\ (pc = "admit" => queue # <<>>)
  /\ pc \in {"drain", "abort"} => open = {}
  /\ pc = "abort" => completed = <<>>
  /\ worker => pc = "cancelled" /\ open = {} /\ completed = <<>>

FramesInv == RawInv /\ Placed

\* A step that touches no frame and no epoch.
LEMMA RawUnchanged ==
  ASSUME RawInv, UNCHANGED <<received, open, completed, journal, closed>>
  PROVE  RawInv'
BY DEF RawInv, RawTypes, Tagged, ReceivedIn, Epoch

\* A frame that is kept belongs to the open epoch, wherever a rotation puts it.
LEMMA RawKeeps ==
  ASSUME RawInv, NEW old \in MayBeOld, NEW full \in BOOLEAN, Keep(old, full),
         UNCHANGED <<journal, closed>>
  PROVE  RawInv'
<1> DEFINE e == Epoch
           s == Stored(old, full)
<1>1. e \in Nat /\ e = Epoch /\ Epoch' = e
  BY DEF RawInv, RawTypes, Epoch
<1>2. received' = Append(received, e) /\ received \in Seq(Nat) /\ open \in SUBSET Nat
      /\ completed \in Seq(SUBSET Nat)
  BY DEF RawInv, RawTypes, Keep, Epoch
<1> HIDE DEF e
<1>3. /\ received' \in Seq(Nat) /\ Len(received') = NewFrame /\ NewFrame \in Nat
      /\ DOMAIN received = 1..Len(received) /\ DOMAIN received' = 1..NewFrame
      /\ received'[NewFrame] = e
      /\ \A i \in 1..Len(received) : received'[i] = received[i]
  BY <1>1, <1>2, AppendProperties DEF NewFrame
<1>4. ASSUME NEW F, NEW n, ReceivedIn(F, n) PROVE \A f \in F : f \in DOMAIN received' /\ received'[f] = n
  BY <1>2, <1>3, <1>4 DEF ReceivedIn, NewFrame
<1>6. ASSUME NEW q \in Seq(SUBSET Nat), NEW F \in SUBSET Nat
      PROVE  /\ Append(q, F) \in Seq(SUBSET Nat)
             /\ \A i \in 1..Len(Append(q, F)) : (i \in 1..Len(q) /\ Append(q, F)[i] = q[i]) \/ Append(q, F)[i] = F
  BY AppendProperties
<1>7. {NewFrame} \in SUBSET Nat /\ open \cup {NewFrame} \in SUBSET Nat /\ {} \in SUBSET Nat
  BY <1>2, <1>3
<1> DEFINE before == IF old THEN Append(completed, open) ELSE completed
           held   == IF old THEN {NewFrame} ELSE open \cup {NewFrame}
<1>8. before \in Seq(SUBSET Nat) /\ held \in SUBSET Nat
  BY <1>2, <1>6, <1>7
<1>9. /\ open' = IF full THEN {} ELSE held
      /\ completed' = IF full THEN Append(before, held) ELSE before
  BY DEF Keep, Stored
<1> HIDE DEF before, held
<1>10. open' \in SUBSET Nat /\ completed' \in Seq(SUBSET Nat)
  BY <1>6, <1>7, <1>8, <1>9
<1>11. RawTypes'
  BY <1>3, <1>10 DEF RawInv, RawTypes
<1>12. \A n \in 1..Len(closed') : \A seg \in closed'[n].segments :
         \A f \in seg : f \in DOMAIN received' /\ received'[f] = n
  BY <1>4 DEF RawInv, Tagged
<1>13. ASSUME journal' # None
       PROVE  /\ \A seg \in journal'.segments : \A f \in seg : f \in DOMAIN received' /\ received'[f] = e
              /\ \A f \in open' : f \in DOMAIN received' /\ received'[f] = e
              /\ \A i \in 1..Len(completed') : \A f \in completed'[i] : f \in DOMAIN received' /\ received'[f] = e
  <2>1. /\ \A seg \in journal.segments : ReceivedIn(seg, e)
        /\ ReceivedIn(open, e) /\ \A i \in 1..Len(completed) : ReceivedIn(completed[i], e)
    BY <1>1, <1>13 DEF RawInv, Tagged
  <2>2. \A seg \in journal'.segments : \A f \in seg : f \in DOMAIN received' /\ received'[f] = e
    BY <1>4, <2>1
  <2>3. \A f \in open : f \in DOMAIN received' /\ received'[f] = e
    BY <1>4, <2>1
  <2>4. \A f \in held : f \in DOMAIN received' /\ received'[f] = e
    <3>1. NewFrame \in DOMAIN received' /\ received'[NewFrame] = e
      BY <1>2, <1>3 DEF NewFrame
    <3> QED BY <2>3, <3>1 DEF held
  <2>5. \A i \in 1..Len(completed) : \A f \in completed[i] : f \in DOMAIN received' /\ received'[f] = e
    BY <1>4, <2>1
  <2>6. \A i \in 1..Len(before) : \A f \in before[i] : f \in DOMAIN received' /\ received'[f] = e
    BY <2>3, <2>5, <1>6, <1>2 DEF before
  <2>7. \A i \in 1..Len(completed') : \A f \in completed'[i] : f \in DOMAIN received' /\ received'[f] = e
    BY <1>6, <1>8, <1>9, <2>4, <2>6
  <2>8. \A f \in open' : f \in DOMAIN received' /\ received'[f] = e
    BY <1>9, <2>4
  <2> QED BY <2>2, <2>7, <2>8
<1> QED BY <1>1, <1>11, <1>12, <1>13 DEF RawInv, Tagged, ReceivedIn

\* A flush moves the open segment to the completed ones.
LEMMA RawSeals ==
  ASSUME RawInv, Seal, UNCHANGED <<journal, closed>>
  PROVE  RawInv'
<1>1. completed' \in Seq(SUBSET Nat)
      /\ \A i \in 1..Len(completed') : completed'[i] = open \/ (i \in 1..Len(completed) /\ completed'[i] = completed[i])
  <2>1. completed \in Seq(SUBSET Nat) /\ open \in SUBSET Nat
    BY DEF RawInv, RawTypes
  <2>2. CASE open = {}
    BY <2>1, <2>2 DEF Seal
  <2>3. CASE open # {}
    <3>1. completed' = Append(completed, open)
      BY <2>3 DEF Seal
    <3>2. /\ Append(completed, open) \in Seq(SUBSET Nat)
          /\ \A i \in 1..Len(Append(completed, open)) :
               \/ Append(completed, open)[i] = open
               \/ i \in 1..Len(completed) /\ Append(completed, open)[i] = completed[i]
      BY ONLY <2>1
    <3> QED BY ONLY <3>1, <3>2
  <2> QED BY <2>2, <2>3
<1>2. RawTypes'
  BY <1>1 DEF RawInv, RawTypes, Seal
<1>3. open' = {} /\ received' = received /\ journal' = journal /\ closed' = closed /\ Epoch' = Epoch
  BY DEF Seal, Epoch
<1>4. ASSUME journal # None, NEW i \in 1..Len(completed') PROVE ReceivedIn(completed'[i], Epoch)
  BY <1>1, <1>4 DEF RawInv, Tagged
<1>5. Tagged'
  BY <1>3, <1>4 DEF RawInv, Tagged, ReceivedIn
<1> QED BY <1>2, <1>5 DEF RawInv

\* The segments that are archived are named by the open epoch.
LEMMA RawArchives ==
  ASSUME RawInv, NEW k \in 0..Len(completed), Archive(k)
  PROVE  /\ RawInv' /\ (journal = None <=> journal' = None)
         /\ k = Len(completed) => completed' = <<>>
<1>1. /\ completed' \in Seq(SUBSET Nat)
      /\ \A i \in 1..Len(completed') : i + k \in 1..Len(completed) /\ completed'[i] = completed[i + k]
      /\ k = Len(completed) => completed' = <<>>
  <2>1. completed \in Seq(SUBSET Nat) /\ Len(completed) \in Nat
    BY DEF RawInv, RawTypes
  <2>2. completed' = SubSeq(completed, k + 1, Len(completed))
    BY DEF Archive
  <2> QED BY <2>1, <2>2, SubSeqProperties
<1>2. First(k) \in SUBSET (SUBSET Nat) /\ \A F \in First(k) : \E i \in 1..Len(completed) : F = completed[i]
  BY DEF First, RawInv, RawTypes
<1>3. CASE journal = None
  <2>1. journal' = None /\ UNCHANGED <<received, open, closed>>
    BY <1>3 DEF Archive
  <2> QED BY <1>1, <1>3, <2>1 DEF RawInv, RawTypes, Tagged, ReceivedIn
<1>4. CASE journal # None
  <2>1. journal \in Journals
    BY <1>4 DEF RawInv, RawTypes
  <2> DEFINE j == [journal EXCEPT !.segments = @ \cup First(k)]
  <2>2. j \in Journals /\ j.segments = journal.segments \cup First(k)
    BY <1>2, <2>1 DEF Journals
  <2>3. journal' = j /\ j # None /\ UNCHANGED <<received, open, closed>>
    BY <1>4, <2>2, RunnerAssumption DEF Archive
  <2> HIDE DEF j
  <2>4. RawTypes'
    BY <1>1, <2>2, <2>3 DEF RawInv, RawTypes
  <2>5. \A seg \in journal'.segments : ReceivedIn(seg, Epoch)
    BY <1>2, <1>4, <2>2, <2>3 DEF RawInv, Tagged
  <2>6. \A i \in 1..Len(completed') : ReceivedIn(completed'[i], Epoch)
    BY <1>1, <1>4 DEF RawInv, Tagged
  <2>7. ReceivedIn(open, Epoch)
    BY <1>4 DEF RawInv, Tagged
  <2>8. RawInv'
    BY <1>1, <2>3, <2>4, <2>5, <2>6, <2>7 DEF RawInv, Tagged, ReceivedIn, Epoch
  <2> QED BY <1>1, <1>4, <2>3, <2>8
<1> QED BY <1>3, <1>4

\* A decision closes the open epoch with the segments it names.
LEMMA RawDecides ==
  ASSUME RawInv, UNCHANGED raw, NEW d \in {"committed", "aborted"}, Decide(d) \/ DecideFails(d)
  PROVE  /\ RawInv'
         /\ Decide(d) => journal' = None
         /\ DecideFails(d) => journal' # None
<1>1. CASE journal = None
  <2>1. UNCHANGED <<received, open, completed, journal, closed>>
    BY <1>1 DEF Decide, DecideFails, epochs, raw
  <2> QED BY <2>1, <1>1, RawUnchanged DEF DecideFails
<1>2. CASE journal # None /\ DecideFails(d)
  <2>1. journal' \in Journals /\ journal' # None /\ journal'.segments = journal.segments
    <3>1. journal \in Journals /\ journal' = [journal EXCEPT !.broken = TRUE]
      BY <1>2 DEF DecideFails, RawInv, RawTypes
    <3>2. journal' \in Journals /\ journal'.segments = journal.segments
      BY <3>1 DEF Journals
    <3>3. journal' # None
      BY ONLY <3>2, RunnerAssumption
    <3> QED BY <3>2, <3>3
  <2>2. RawInv'
    BY <1>2, <2>1 DEF DecideFails, RawInv, RawTypes, Tagged, ReceivedIn, Epoch, raw
  <2> QED BY <1>2, <2>1, <2>2 DEF Decide
<1>3. CASE journal # None /\ Decide(d)
  <2> DEFINE c == [records |-> journal.records, segments |-> journal.segments, decision |-> d]
  <2>1. journal' = None /\ closed' = Append(closed, c) /\ c \in Closings /\ c.segments = journal.segments
    BY <1>3 DEF Decide, RawInv, RawTypes, Journals, Closings
  <2> HIDE DEF c
  <2>2. /\ closed' \in Seq(Closings) /\ Len(closed') = Epoch
        /\ \A n \in 1..Len(closed') : 
             (n \in 1..Len(closed) /\ closed'[n] = closed[n]) \/ (n = Epoch /\ closed'[n] = c)
    <3>1. closed \in Seq(Closings) /\ Len(closed) \in Nat
      BY DEF RawInv, RawTypes
    <3> QED BY <2>1, <3>1, AppendProperties DEF Epoch
  <2>3. RawInv'
    BY <1>3, <2>1, <2>2 DEF RawInv, RawTypes, Tagged, ReceivedIn, raw
  <2> QED BY <1>3, <2>1, <2>3 DEF DecideFails
<1> QED BY <1>1, <1>2, <1>3

\* The tables of the audit events and of the drains, entry by entry.
LEMMA RecordedIs ==
  /\ DOMAIN Recorded = {"reconnect", "opened", "noted", "request", "goLive", "reported", "resync", "retry", "pause"}
  /\ Recorded["reconnect"].then = "drainReconnect" /\ Recorded["opened"].then = "drainOpened"
  /\ Recorded["noted"].then = "request" /\ Recorded["request"].then = "drainRequest"
  /\ Recorded["goLive"].then = "drainLive" /\ Recorded["reported"].then = "resync"
  /\ Recorded["resync"].then = "flush" /\ Recorded["retry"].then = "backoff"
  /\ Recorded["pause"].then = "flushEnd"
  /\ Recorded["pause"].state = "PAUSED"
  /\ \A p \in DOMAIN Recorded \ {"pause"} : Recorded[p].state = "PAUSED" => st = "PAUSED"
BY DEF Recorded

LEMMA AfterDrainIs ==
  /\ DOMAIN AfterDrain = {"drainReconnect", "drainOpened", "drainRequest", "drainSync", "drainLive", "drain", "drainEnd"}
  /\ AfterDrain["drainReconnect"] = "connect" /\ AfterDrain["drainOpened"] = "newEpoch"
  /\ AfterDrain["drainRequest"] \in {"fetch", "sync"} /\ AfterDrain["drainSync"] \in {"goLive", "sync"}
  /\ AfterDrain["drainLive"] = "live" /\ AfterDrain["drain"] = "abort" /\ AfterDrain["drainEnd"] = "finish"
BY DEF AfterDrain

\* Where an exception takes the task.
LEMMA ThrowGoes ==
  ASSUME Throw
  PROVE  \/ pc \in Connected /\ pc' = "close" /\ mode' = mode
         \/ pc \in Reconnecting /\ pc' = "reported" /\ mode' = mode
         \/ pc \in Handling /\ pc' = "pause" /\ mode' = "failed"
         \/ pc = "retry" /\ pc' = "raised" /\ mode' = mode
         \/ pc = "pause" /\ pc' = "flushEnd" /\ mode' = mode
         \/ pc \in Cleaning \ {"pause"} /\ pc' = "finish" /\ mode' = mode
BY DEF Throw, LeaveConnection, Handle, GiveUp, CleanUpAs, GoTo, CleanupError

\* The frames of a run, one case per action.
LEMMA FramesInit == Init => FramesInv
BY DEF Init, FramesInv, RawInv, RawTypes, Tagged, Placed, Moded, Cleaning, Reconnecting, Clear,
   InEpoch, Receiving, Journals

LEMMA FramesStep == FramesInv /\ [Next]_vars => FramesInv'
<1> SUFFICES ASSUME FramesInv, [Next]_vars PROVE FramesInv'
  OBVIOUS
<1> USE DEF Moded, Idle, InEpoch, Receiving, Connected, Reconnecting, Handling, Cleaning, Clear
<1>a. RawInv /\ Placed
  BY DEF FramesInv
<1>1. CASE NoTransition
  <2>1. RawInv'
    BY <1>a, <1>1, RawUnchanged DEF NoTransition, raw, epochs
  <2>2. Placed'
    BY <1>a, <1>1, RecordedIs DEF NoTransition, NothingDue, AfterNothing, Placed, GoTo, raw,
       epochs, env, incoming
  <2> QED BY <2>1, <2>2 DEF FramesInv
<1>2. CASE Record
  <2>1. RawInv'
    BY <1>a, <1>2, RawUnchanged DEF Record, raw, epochs
  <2>2. Placed'
    <3>1. CASE GoTo(Recorded[pc].then)
      BY <1>a, <1>2, <3>1, RecordedIs DEF Record, Placed, GoTo, raw, epochs, incoming
    <3>2. CASE Throw
      BY <1>a, <1>2, <3>2, ThrowGoes, RecordedIs DEF Record, Placed, raw, epochs, incoming
    <3> QED BY <1>2, <3>1, <3>2 DEF Record
  <2> QED BY <2>1, <2>2 DEF FramesInv
<1>3. CASE Flush
  <2>1. CASE Seal
    <3>1. RawInv'
      BY <1>a, <1>3, <2>1, RawSeals DEF Flush, epochs
    <3>2. Placed'
      BY <1>a, <1>3, <2>1, ThrowGoes DEF Flush, Seal, Placed, GoTo, raw, epochs, incoming
    <3> QED BY <3>1, <3>2 DEF FramesInv
  <2>2. CASE UNCHANGED raw /\ open # {} /\ Throw
    <3>1. RawInv'
      BY <1>a, <1>3, <2>2, RawUnchanged DEF Flush, epochs, raw
    <3>2. Placed'
      BY <1>a, <1>3, <2>2, ThrowGoes DEF Flush, Placed, raw, epochs, incoming
    <3> QED BY <3>1, <3>2 DEF FramesInv
  <2> QED BY <1>3, <2>1, <2>2 DEF Flush
<1>4. CASE Drain
  <2>a. Len(completed) \in Nat /\ completed \in Seq(SUBSET Nat)
    BY <1>a DEF RawInv, RawTypes
  <2>1. CASE Archive(Len(completed)) /\ GoTo(AfterDrain[pc])
    <3>1. RawInv' /\ completed' = <<>> /\ (journal = None <=> journal' = None)
      BY <1>a, <2>a, <2>1, RawArchives
    <3>3. Placed'
      BY <1>a, <1>4, <2>1, <3>1, AfterDrainIs DEF Drain, Archive, Placed, GoTo, incoming
    <3> QED BY <3>1, <3>3 DEF FramesInv
  <2>2. CASE Throw /\ \E k \in 1..Len(completed) : Archive(k - 1)
    <3>1. PICK k \in 1..Len(completed) : Archive(k - 1)
      BY <2>2
    <3>2. RawInv' /\ completed # <<>>
      BY <1>a, <2>a, <3>1, RawArchives
    <3>3. Placed'
      BY <1>a, <1>4, <2>2, <3>1, <3>2, ThrowGoes, AfterDrainIs DEF Drain, Archive, Placed,
         incoming
    <3> QED BY <3>2, <3>3 DEF FramesInv
  <2> QED BY <1>4, <2>1, <2>2 DEF Drain
<1>5. CASE Connect \/ Subscribe \/ Limit \/ ReceiveFails \/ Backoff
  <2>1. RawInv'
    BY <1>a, <1>5, RawUnchanged DEF Connect, Subscribe, Limit, ReceiveFails, Backoff, raw,
       epochs
  <2>2. CASE Throw
    BY <1>a, <1>5, <2>1, <2>2, ThrowGoes DEF Connect, Subscribe, Limit, ReceiveFails, Backoff,
       FramesInv, Placed, raw, epochs, incoming, env
  <2>3. CASE ~Throw
    BY <1>a, <1>5, <2>1, <2>3 DEF Connect, Subscribe, Limit, ReceiveFails, Backoff, FramesInv,
       Placed, raw, epochs, incoming, env, GoTo, LeaveConnection
  <2> QED BY <2>2, <2>3
<1>6. CASE NewEpoch
  <2>1. UNCHANGED <<received, open, completed, closed>> /\ pc = "newEpoch" /\ queue' = <<>>
    BY <1>6 DEF NewEpoch, raw
  <2>2. CASE UNCHANGED journal /\ Throw
    <3>1. RawInv'
      BY <1>a, <2>1, <2>2, RawUnchanged
    <3> QED BY <1>a, <1>6, <2>1, <2>2, <3>1, ThrowGoes DEF NewEpoch, FramesInv, Placed
  <2>3. CASE journal' = [records |-> {}, segments |-> {}, broken |-> FALSE]
             /\ GoTo(IF provider = "binance" THEN "first" ELSE "subscribe")
    <3>a. [records |-> {}, segments |-> {}, broken |-> FALSE] \in Journals
      BY DEF Journals
    <3>1. journal' \in Journals /\ journal' # None /\ journal'.segments = {}
      BY <2>3, <3>a, RunnerAssumption
    <3>2. open = {} /\ completed = <<>>
      BY <1>a, <2>1 DEF Placed
    <3>3. RawInv'
      BY <1>a, <2>1, <3>1, <3>2 DEF RawInv, RawTypes, Tagged, ReceivedIn
    <3> QED BY <1>a, <1>6, <2>1, <2>3, <3>1, <3>2, <3>3 DEF NewEpoch, FramesInv, Placed, GoTo
  <2> QED BY <1>6, <2>2, <2>3 DEF NewEpoch
<1>b. ASSUME NEW old \in MayBeOld, NEW full \in BOOLEAN, Keep(old, full), UNCHANGED epochs PROVE RawInv'
  BY <1>a, <1>b, RawKeeps DEF epochs
<1>c. NewFrame \in Nat
  BY <1>a DEF NewFrame, RawInv, RawTypes
<1>d. StoreFrame /\ UNCHANGED epochs => RawInv'
  BY <1>b DEF StoreFrame, MayBeFull
<1>e. StoreFails /\ UNCHANGED epochs => RawInv'
  BY <1>a, <1>b, RawUnchanged DEF StoreFails, raw, epochs
<1>7. CASE ReceiveFrame
  <2>1. RawInv'
    BY <1>7, <1>d, <1>e DEF ReceiveFrame
  <2>2. CASE Throw /\ UNCHANGED queue
    BY <1>a, <1>7, <2>1, <2>2, ThrowGoes DEF ReceiveFrame, FramesInv, Placed, epochs
  <2>3. CASE queue' = <<NewFrame>> /\ GoTo(IF pc = "first" THEN "noted" ELSE "admit")
    <3>1. queue' \in Seq(Nat) /\ queue' # <<>>
      BY <1>c, <2>3
    <3>2. journal' # None /\ pc' \in {"noted", "admit"} /\ mode' = mode /\ mode = "none"
          /\ worker' = worker /\ pc # "cancelled"
      BY <1>a, <1>7, <2>3 DEF ReceiveFrame, Placed, epochs, GoTo
    <3> QED BY <1>a, <2>1, <3>1, <3>2 DEF FramesInv, Placed
  <2> QED BY <1>7, <2>2, <2>3 DEF ReceiveFrame
<1>8. CASE FetchSnapshot
  <2>1. RawInv'
    <3>1. UNCHANGED raw /\ UNCHANGED epochs => RawInv'
      BY <1>a, RawUnchanged DEF raw, epochs
    <3> QED BY <1>8, <1>d, <1>e, <3>1 DEF FetchSnapshot
  <2>2. CASE Throw /\ UNCHANGED queue
    BY <1>a, <1>8, <2>1, <2>2, ThrowGoes DEF FetchSnapshot, FramesInv, Placed, epochs
  <2>3. CASE queue' = <<NewFrame>> \o queue /\ GoTo("admit")
    <3>1. queue' \in Seq(Nat) /\ queue' # <<>>
      BY <1>a, <1>c, <2>3 DEF Placed
    <3> QED BY <1>a, <1>8, <2>1, <2>3, <3>1 DEF FetchSnapshot, FramesInv, Placed, epochs, GoTo
  <2> QED BY <1>8, <2>2, <2>3 DEF FetchSnapshot
<1>9. CASE Admit
  <2>1. pc = "admit" /\ journal # None /\ journal \in Journals /\ queue \in Seq(Nat) /\ queue # <<>>
        /\ UNCHANGED <<received, open, completed, closed>>
    BY <1>a, <1>9 DEF Admit, Placed, RawInv, RawTypes, raw
  <2>2. Head(queue) \in Nat /\ Tail(queue) \in Seq(Nat) /\ (Len(queue) > 1 => Tail(queue) # <<>>)
    <3>1. Head(queue) \in Nat /\ Tail(queue) \in Seq(Nat) /\ Len(Tail(queue)) = Len(queue) - 1
      BY <2>1, HeadTailProperties
    <3>2. ASSUME Tail(queue) = <<>> PROVE Len(Tail(queue)) = 0
      BY <3>2, EmptySeq
    <3> QED BY <2>1, <3>1, <3>2
  <2>3. journal' \in Journals /\ journal' # None /\ journal'.segments = journal.segments
    <3>1. ASSUME NEW recs \in SUBSET Nat, NEW broken \in BOOLEAN
          PROVE  [journal EXCEPT !.records = @ \cup recs, !.broken = broken] \in Journals
      BY <2>1 DEF Journals
    <3>2. ASSUME NEW recs \in SUBSET Nat
          PROVE  [journal EXCEPT !.records = @ \cup recs] \in Journals
      BY <2>1 DEF Journals
    <3>3. PICK recs \in {{}, {Head(queue)}} :
            \/ journal' = journal
            \/ journal' = [journal EXCEPT !.records = @ \cup recs]
            \/ journal' = [journal EXCEPT !.records = @ \cup recs, !.broken = TRUE]
      BY <1>9 DEF Admit, Admitted
    <3>4. recs \in SUBSET Nat
      BY <2>2
    <3>5. journal' \in Journals
      BY <2>1, <3>1, <3>2, <3>3, <3>4
    <3>6. journal'.segments = journal.segments
      BY <2>1, <3>3 DEF Journals
    <3> QED BY <3>5, <3>6, RunnerAssumption
  <2>4. RawInv'
    BY <1>a, <2>1, <2>3 DEF RawInv, RawTypes, Tagged, ReceivedIn, Epoch
  <2>5. CASE Throw /\ UNCHANGED queue
    BY <1>a, <1>9, <2>1, <2>4, <2>5, ThrowGoes DEF Admit, FramesInv, Placed
  <2>6. CASE queue' = Tail(queue) /\ (IF Len(queue) > 1 THEN GoTo("admit") ELSE GoTo(AfterAdmit(live')))
    BY <1>a, <1>9, <2>1, <2>2, <2>3, <2>4, <2>6 DEF Admit, FramesInv, Placed, GoTo, AfterAdmit
  <2> QED BY <1>9, <2>5, <2>6 DEF Admit
<1>10. CASE Close
  <2>1. RawInv'
    BY <1>a, <1>10, RawUnchanged DEF Close, raw, epochs
  <2>2. /\ \/ pc' = "pause" /\ mode' \in {"complete", "cancelled"}
           \/ pc' = "reported" /\ mode' = mode
        /\ mode = "none" /\ worker' = worker /\ pc = "close" /\ queue' \in Seq(Nat)
    <3>1. pc = "close" /\ queue' = queue /\ worker' = worker
      BY <1>10 DEF Close, incoming
    <3>2. CASE pc' = "pause" /\ mode' = "complete"
      BY <1>a, <3>1, <3>2 DEF Placed
    <3>3. CASE Handle
      BY <1>a, <3>1, <3>3 DEF Placed, Handle
    <3>4. CASE HandleCancellation
      BY <1>a, <3>1, <3>4 DEF Placed, HandleCancellation, CleanUpAs
    <3> QED BY <1>10, <3>2, <3>3, <3>4 DEF Close
  <2> QED BY <1>a, <2>1, <2>2 DEF FramesInv, Placed
<1>f. ASSUME NEW d \in {"committed", "aborted"}, Decide(d) \/ DecideFails(d), UNCHANGED raw
      PROVE  RawInv' /\ (Decide(d) => journal' = None) /\ (DecideFails(d) => journal' # None) /\ open' = open /\ completed' = completed
  BY <1>a, <1>f, RawDecides DEF raw
<1>11. CASE AbortEpoch
  <2>1. RawInv' /\ (Decide("aborted") => journal' = None) /\ open' = open /\ completed' = completed
    BY <1>11, <1>f DEF AbortEpoch
  <2>2. CASE Decide("aborted") /\ (GiveUp \/ GoTo("retry"))
    BY <1>a, <1>11, <2>1, <2>2 DEF AbortEpoch, FramesInv, Placed, incoming, GiveUp, CleanUpAs,
       GoTo
  <2>3. CASE Throw
    BY <1>a, <1>11, <2>1, <2>3, ThrowGoes DEF AbortEpoch, FramesInv, Placed, incoming
  <2> QED BY <1>11, <2>2, <2>3 DEF AbortEpoch
<1>12. CASE Finish
  <2>1. PICK d \in {"committed", "aborted"} : Decide(d) \/ DecideFails(d)
    BY <1>12 DEF Finish, Decision
  <2>2. RawInv' /\ (Decide(d) => journal' = None) /\ (DecideFails(d) => journal' # None /\ journal # None) /\ open' = open /\ completed' = completed
    BY <1>12, <2>1, <1>f DEF Finish, DecideFails
  <2>5. pc = "finish" /\ queue' = queue /\ worker' = worker
    BY <1>12 DEF Finish, incoming
  <2>7. \/ mode' = "cancelled" /\ pc' = "pause"
        \/ mode' = mode /\ pc' = AfterCleanup
    BY <1>12 DEF Finish, HandleCancellation, CleanUpAs
  <2>8. mode \in {"complete", "failed", "cancelled", "coordinator"}
    BY <1>a, <2>5 DEF Placed
  <2>9. mode = "coordinator" => Clear'
    BY <1>a, <2>1, <2>2 DEF Placed
  <2>10. AfterCleanup \in {"returned", "cancelled", "cleaned"} /\ (AfterCleanup = "cleaned" <=> mode = "coordinator")
    BY <2>8 DEF AfterCleanup
  <2>11. Placed'
    BY <1>a, <2>5, <2>7, <2>8, <2>9, <2>10 DEF Placed
  <2> QED BY <2>2, <2>11 DEF FramesInv
<1>13. CASE Cancel
  <2>1. RawInv'
    BY <1>a, <1>13, RawUnchanged DEF Cancel, raw, epochs
  <2> QED BY <1>a, <1>13, <2>1 DEF Cancel, FramesInv, Placed, raw, epochs, incoming,
      HandleCancellation, CleanUpAs, LeaveConnection, GoTo, Suspended, Awaits
<1>14. CASE WorkerAborts
  <2>1. RawInv' /\ open' = open /\ completed' = completed
    BY <1>14, <1>f DEF WorkerAborts
  <2> QED BY <1>a, <1>14, <2>1 DEF WorkerAborts, FramesInv, Placed, incoming, control
<1>15. CASE Ask
  <2>1. RawInv'
    BY <1>a, <1>15, RawUnchanged DEF Ask, raw, epochs
  <2> QED BY <1>a, <1>15, <2>1 DEF Ask, FramesInv, Placed, raw, epochs, incoming, control
<1>16. CASE CoordinatorCleanup
  <2>1. RawInv'
    BY <1>a, <1>16, RawUnchanged DEF CoordinatorCleanup, raw, epochs
  <2> QED BY <1>a, <1>16, <2>1 DEF CoordinatorCleanup, FramesInv, Placed, raw, epochs,
      incoming, env, CleanUpAs
<1>17. CASE UNCHANGED vars
  <2>1. RawInv'
    BY <1>a, <1>17, RawUnchanged DEF vars, raw, epochs
  <2> QED BY <1>a, <1>17, <2>1 DEF vars, FramesInv, Placed, raw, epochs, incoming, env, control
<1> QED BY <1>1, <1>2, <1>3, <1>4, <1>5, <1>6, <1>7, <1>8, <1>9, <1>10, <1>11, <1>12, <1>13,
    <1>14, <1>15, <1>16, <1>17
    DEF Next, Step, Receive, Done

(***************************************************************************)
(* The report of a run.                                                    *)
(***************************************************************************)
ReportInv ==
  /\ cancels \in Nat /\ errors \in BOOLEAN /\ asked \in BOOLEAN /\ deferred \in BOOLEAN
  /\ asked \/ deferred \/ exc = "cancel" \/ mode = "cancelled" => cancels > 0
  /\ mode = "none" => outcome = "RUNNING" /\ st # "PAUSED"
  /\ mode = "complete" => outcome \in {"BOUNDED_COMPLETE", "FAILED"}
  /\ mode \in {"failed", "coordinator"} => outcome = "FAILED"
  /\ mode = "cancelled" => outcome \in {"CANCELLED", "FAILED"}
  /\ outcome = "FAILED" \/ mode = "cancelled" => errors
  /\ outcome # "FAILED" => /\ pc \in {"flushEnd", "drainEnd", "finish"} => st = "PAUSED"
                           /\ pc \in {"drainEnd", "finish"} => open = {}
                           /\ pc = "finish" => completed = <<>>
  /\ worker => mode = "none" /\ journal # None

\* The steps of a connection, and those that lead to one.
ConnectionStep ==
  \/ Connect \/ Subscribe \/ Limit \/ ReceiveFails \/ Backoff
  \/ NewEpoch \/ ReceiveFrame \/ FetchSnapshot \/ Admit

\* What an exception does to the report.
LEMMA ThrowReports ==
  ASSUME Throw
  PROVE  \/ pc \in Connected /\ exc' = "failure" /\ UNCHANGED <<outcome, errors>>
         \/ pc \in Reconnecting /\ exc' = "none" /\ errors' = TRUE /\ UNCHANGED outcome
         \/ pc \in Handling /\ exc' = "none" /\ errors' = TRUE /\ outcome' = "FAILED"
         \/ pc = "retry" /\ UNCHANGED <<exc, outcome, errors>>
         \/ pc \in Cleaning /\ UNCHANGED exc /\ errors' = TRUE /\ outcome' = "FAILED"
BY DEF Throw, LeaveConnection, Handle, GiveUp, CleanUpAs, GoTo, CleanupError, report

\* The report of a run, one case per action.
LEMMA ReportInit == Init => ReportInv
<1> SUFFICES ASSUME Init PROVE ReportInv
  OBVIOUS
<1>1. /\ pc = "reconnect" /\ exc = "none" /\ mode = "none" /\ outcome = "RUNNING" /\ st = "CONNECTING"
      /\ cancels = 0 /\ errors = FALSE /\ asked = FALSE /\ deferred = FALSE /\ worker = FALSE
  BY DEF Init
<1> QED BY <1>1 DEF ReportInv

LEMMA ReportStep == FramesInv /\ ReportInv /\ [Next]_vars => ReportInv'
<1> SUFFICES ASSUME FramesInv, ReportInv, [Next]_vars PROVE ReportInv'
  OBVIOUS
<1> USE DEF Idle, InEpoch, Receiving, Connected, Reconnecting, Handling, Cleaning, Clear
<1>a. Placed /\ Moded
  BY DEF FramesInv, Placed
<1>1. CASE NoTransition
  BY <1>1, <1>a, RecordedIs DEF ReportInv, Moded, Placed, NoTransition, NothingDue,
     AfterNothing, GoTo, report, raw, epochs, env
<1>2. CASE Record
  <2>1. CASE st' = Recorded[pc].state /\ GoTo(Recorded[pc].then)
    BY <1>2, <1>a, <2>1, RecordedIs DEF ReportInv, Moded, Placed, Record, GoTo, report, raw,
       epochs
  <2>2. CASE Throw /\ UNCHANGED st
    BY <1>2, <1>a, <2>2, RecordedIs, ThrowGoes, ThrowReports DEF ReportInv, Moded, Placed,
       Record, raw, epochs
  <2> QED BY <1>2, <2>1, <2>2 DEF Record
<1>3. CASE Flush
  <2>1. CASE Seal /\ GoTo(IF pc = "flush" THEN "drain" ELSE "drainEnd")
    BY <1>3, <1>a, <2>1 DEF ReportInv, Moded, Placed, Flush, Seal, GoTo, report, raw, epochs
  <2>2. CASE UNCHANGED raw /\ Throw
    BY <1>3, <1>a, <2>2, ThrowGoes, ThrowReports DEF ReportInv, Moded, Placed, Flush, raw,
       epochs
  <2> QED BY <1>3, <2>1, <2>2 DEF Flush
<1>4. CASE Drain
  <2>a. Len(completed) \in Nat /\ RawInv
    BY DEF FramesInv, RawInv, RawTypes
  <2>1. CASE Archive(Len(completed)) /\ GoTo(AfterDrain[pc])
    <3>1. completed' = <<>>
      BY <2>a, <2>1, RawArchives
    <3> QED BY <1>4, <1>a, <2>1, <3>1, AfterDrainIs DEF ReportInv, Moded, Placed, Drain,
        Archive, GoTo, report
  <2>2. CASE Throw /\ \E k \in 1..Len(completed) : Archive(k - 1)
    BY <1>4, <1>a, <2>2, ThrowGoes, ThrowReports, AfterDrainIs DEF ReportInv, Moded, Placed,
       Drain, Archive
  <2> QED BY <1>4, <2>1, <2>2 DEF Drain
<1>5. CASE ConnectionStep
  <2>1. /\ pc \in Connected \cup {"connect", "backoff"}
        /\ UNCHANGED <<deferred, st, asked, cancels, worker>>
    BY <1>5 DEF ConnectionStep, Connect, Subscribe, Limit, ReceiveFails, Backoff, NewEpoch,
       ReceiveFrame,
       FetchSnapshot, Admit, env
  <2>2. \/ Throw
        \/ pc' \notin {"flushEnd", "drainEnd", "finish"} /\ UNCHANGED <<mode, outcome, errors>> /\ exc' \in {exc, "none"}
    BY <1>5 DEF ConnectionStep, Connect, Subscribe, Limit, ReceiveFails, Backoff, NewEpoch,
       ReceiveFrame,
       FetchSnapshot, Admit, GoTo, LeaveConnection, AfterAdmit, report
  <2>3. mode = "none" /\ mode' = "none" /\ ~worker
    BY <1>a, <2>1, <2>2, ThrowGoes DEF Moded, Placed
  <2> QED BY <1>a, <2>1, <2>2, <2>3, ThrowGoes, ThrowReports DEF ReportInv, Moded
<1>6. CASE Close
  BY <1>6, <1>a DEF ReportInv, Moded, Placed, Close, Handle, HandleCancellation, CleanUpAs,
     raw, epochs
<1>7. CASE AbortEpoch
  <2>1. CASE GiveUp \/ GoTo("retry")
    BY <1>7, <1>a, <2>1 DEF ReportInv, Moded, Placed, AbortEpoch, GiveUp, CleanUpAs, GoTo,
       report, raw
  <2>2. CASE Throw
    BY <1>7, <1>a, <2>2, ThrowGoes, ThrowReports DEF ReportInv, Moded, Placed, AbortEpoch, raw
  <2> QED BY <1>7, <2>1, <2>2 DEF AbortEpoch
<1>8. CASE Finish
  <2>1. /\ pc = "finish" /\ ~worker /\ mode # "none"
        /\ UNCHANGED <<st, open, completed, asked, cancels, worker>>
    BY <1>8, <1>a DEF Finish, Placed, Moded, raw
  <2>2. CASE HandleCancellation /\ deferred' = FALSE /\ deferred
    BY <2>1, <2>2 DEF ReportInv, HandleCancellation, CleanUpAs
  <2>3. CASE /\ pc' = AfterCleanup
             /\ UNCHANGED <<exc, mode, attempts, deferred>>
             /\ \E ok \in BOOLEAN : /\ errors' = (errors \/ ~ok)
                                    /\ outcome' = IF ok THEN outcome ELSE "FAILED"
    <3>1. errors' \in BOOLEAN /\ (errors => errors') /\ (outcome' = "FAILED" => outcome = "FAILED" \/ errors')
      BY <2>3
    <3>2. pc' \notin {"flushEnd", "drainEnd", "finish"}
      BY <2>3, <2>1, <1>a DEF AfterCleanup, Moded
    <3>3. outcome' \in {outcome, "FAILED"}
      BY <2>3
    <3> QED BY <2>1, <2>3, <3>1, <3>2, <3>3 DEF ReportInv
  <2> QED BY <1>8, <2>2, <2>3 DEF Finish
<1>9. CASE Cancel
  <2>1. asked /\ asked' = FALSE /\ cancels > 0 /\ UNCHANGED <<st, open, completed, journal, cancels>>
    BY <1>9 DEF Cancel, ReportInv, raw, epochs
  <2>2. CASE pc \in Connected /\ LeaveConnection("cancel") /\ UNCHANGED <<deferred, worker>>
    BY <1>a, <2>1, <2>2 DEF ReportInv, Moded, Placed, LeaveConnection, report
  <2>3. CASE pc \in {"connect", "close", "backoff"} /\ HandleCancellation /\ UNCHANGED <<deferred, worker>>
    BY <1>a, <2>1, <2>3 DEF ReportInv, Moded, Placed, HandleCancellation, CleanUpAs
  <2>4. CASE pc = "abort" /\ GoTo("cancelled") /\ worker' = (journal # None) /\ UNCHANGED deferred
    BY <1>a, <2>1, <2>4 DEF ReportInv, Moded, Placed, GoTo, report
  <2>5. CASE deferred' = TRUE /\ UNCHANGED <<pc, exc, mode, attempts, report, worker>>
    BY <1>a, <2>1, <2>5 DEF ReportInv, Moded, Placed, report
  <2> QED BY <1>9, <2>2, <2>3, <2>4, <2>5 DEF Cancel
<1>10. CASE WorkerAborts
  BY <1>10, <1>a DEF ReportInv, WorkerAborts, Placed, control, report, raw
<1>11. CASE Ask
  BY <1>11, <1>a DEF ReportInv, Ask, control, report, raw, epochs
<1>12. CASE CoordinatorCleanup
  BY <1>12, <1>a DEF ReportInv, Moded, Placed, CoordinatorCleanup, CleanUpAs, raw, epochs, env
<1>13. CASE UNCHANGED vars
  BY <1>13 DEF ReportInv, vars, control, report, raw, epochs, env
<1> QED BY <1>1, <1>2, <1>3, <1>4, <1>5, <1>6, <1>7, <1>8, <1>9, <1>10, <1>11, <1>12, <1>13
    DEF Next, Step, Receive, Done, ConnectionStep

\* No Raw segment spans two epochs: whatever fails, is cancelled or is retried, every
\* segment that a decided or the open epoch names holds only frames received in it
\* (the failure handler of run flushes and drains before it aborts).
THEOREM SegmentsWithinEpochHolds == Spec => []SegmentsWithinEpoch
<1>1. FramesInv => SegmentsWithinEpoch
  BY DEF FramesInv, RawInv, Tagged, ReceivedIn, SegmentsWithinEpoch
<1> QED BY <1>1, FramesInit, FramesStep, PTL DEF Spec

LEMMA RunnerInvariant == Spec => [](FramesInv /\ ReportInv)
BY FramesInit, FramesStep, ReportInit, ReportStep, PTL DEF Spec

(***************************************************************************)
(* The runner implements StreamLife.                                       *)
(***************************************************************************)
\* A table with one stream.
LEMMA OneStream ==
  ASSUME NEW a, NEW b
  PROVE  [[s \in {Stream} |-> a] EXCEPT ![Stream] = b] = [s \in {Stream} |-> b]
OBVIOUS

\* A runner whose task has not ended, or that raised, shows nothing but its task and
\* the request.
LEMMA HiddenInside ==
  ASSUME Placed, Placed', Task' = Task, Task \in {"running", "raised"}, (cancels > 0)' = (cancels > 0)
  PROVE  UNCHANGED Life!lifeVars
<1>1. Task = "raised" => Clear
  BY DEF Placed, Task, Idle, Ended
<1>2. Task' = "raised" => Clear'
  BY DEF Placed, Task, Idle, Ended
<1>3. View(journal = None /\ open = {} /\ completed = <<>>, FALSE)' = View(journal = None /\ open = {} /\ completed = <<>>, FALSE)
  BY <1>1, <1>2 DEF View, Clear
<1>4. View(IF Task = "raised" THEN "RUNNING" ELSE outcome, "RUNNING")' = View(IF Task = "raised" THEN "RUNNING" ELSE outcome, "RUNNING")
  BY DEF View
<1>5. View(Task # "raised" /\ st = "PAUSED", FALSE)' = View(Task # "raised" /\ st = "PAUSED", FALSE)
  BY DEF View
<1>6. View(Task = "returned" /\ ~errors, FALSE)' = View(Task = "returned" /\ ~errors, FALSE)
  BY DEF View
<1> QED BY <1>3, <1>4, <1>5, <1>6 DEF Life!lifeVars

\* The first cancellation appears as a request, a later one as nothing.
LEMMA AskIsAsk ==
  ASSUME Task = "running", Task' = "running", (cancels > 0)' = TRUE
  PROVE  Life!Ask(Stream)
BY OneStream DEF Life!Ask, Life!Running, View

\* How a run that ends appears.
LEMMA EndIsEnd ==
  ASSUME UNCHANGED cancels, NEW how, Task' = how, how \in {"returned", "cancelled", "raised", "cleaned"},
         NEW o, o = IF how = "raised" THEN "RUNNING" ELSE outcome',
         NEW p, p = (how # "raised" /\ st' = "PAUSED"),
         NEW d, d = (journal' = None /\ open' = {} /\ completed' = <<>>),
         NEW c, c = (how = "returned" /\ ~errors')
  PROVE  Life!End(Stream, how, o, p, d, c)
BY OneStream DEF Life!End, View

\* Every step of the runner is a step of StreamLife or hidden from it.
LEMMA LifeStep ==
  FramesInv /\ FramesInv' /\ ReportInv /\ ReportInv' /\ [Next]_vars
    => [\E s \in {Stream} : Life!LifeNext(s)]_Life!lifeVars
<1> SUFFICES ASSUME FramesInv, FramesInv', ReportInv, ReportInv', [Next]_vars
             PROVE  Life!LifeNext(Stream) \/ UNCHANGED Life!lifeVars
  BY Zenon
<1> USE DEF Receiving, Connected, Reconnecting, Handling, Cleaning
<1>a. Placed /\ Moded /\ Placed'
  BY DEF FramesInv, Placed
<1>b. ASSUME UNCHANGED cancels, pc \notin Ended, pc' \notin Ended, mode' = "coordinator" <=> mode = "coordinator"
      PROVE  UNCHANGED Life!lifeVars
  <2>1. Task' = Task /\ Task \in {"running", "raised"}
    BY <1>b DEF Task
  <2> QED BY <1>a, <1>b, <2>1, HiddenInside
<1>c. Throw /\ pc # "retry" => /\ pc \notin Ended /\ pc' \notin Ended
                               /\ mode' = "coordinator" <=> mode = "coordinator"
  BY <1>a, ThrowGoes DEF Moded, Ended
<1>1. CASE NoTransition
  <2>1. pc \in DOMAIN Recorded /\ pc' \in {"connect", "flush", "flushEnd"} /\ UNCHANGED <<mode, cancels>>
    BY <1>1, RecordedIs DEF NoTransition, NothingDue, AfterNothing, GoTo, env
  <2> QED BY <2>1, <1>b, RecordedIs DEF Ended
<1>2. CASE Record
  <2>1. CASE GoTo(Recorded[pc].then)
    <3>1. pc \notin Ended /\ pc' \notin Ended /\ UNCHANGED <<mode, cancels>>
      BY <1>2, <2>1, RecordedIs DEF Record, GoTo, Ended
    <3> QED BY <3>1, <1>b
  <2>2. CASE Throw /\ pc # "retry"
    BY <1>2, <2>2, <1>b, <1>c DEF Record
  <2>3. CASE Throw /\ pc = "retry"
    <3>1. pc' = "raised" /\ mode' = "none" /\ mode = "none" /\ UNCHANGED cancels
      BY <1>2, <1>a, <2>3, ThrowGoes DEF Record, Moded
    <3>2. Task = "running" /\ Task' = "raised" /\ Clear'
      BY <1>a, <2>3, <3>1 DEF Task, Ended, Placed, Idle
    <3>3. Life!End(Stream, "raised", "RUNNING", FALSE, TRUE, FALSE)
      BY <3>1, <3>2, EndIsEnd DEF Clear
    <3>4. Life!Raise(Stream)
      BY <3>2, <3>3 DEF Life!Raise, Life!Running
    <3> QED BY <3>4 DEF Life!LifeNext
  <2> QED BY <1>2, <2>1, <2>2, <2>3 DEF Record
<1>3. CASE Flush
  <2>1. UNCHANGED cancels /\ pc \in {"flush", "flushEnd"}
    BY <1>3 DEF Flush
  <2>2. Throw \/ (pc' \in {"drain", "drainEnd"} /\ mode' = mode)
    BY <1>3 DEF Flush, GoTo
  <2> QED BY <2>1, <2>2, <1>b, <1>c DEF Ended
<1>4. CASE Drain
  <2>1. UNCHANGED cancels /\ pc \in DOMAIN AfterDrain
    BY <1>4 DEF Drain
  <2>2. Throw \/ (pc' = AfterDrain[pc] /\ mode' = mode)
    BY <1>4 DEF Drain, GoTo
  <2> QED BY <2>1, <2>2, <1>b, <1>c, AfterDrainIs DEF Ended
<1>5. CASE ConnectionStep
  <2>1. pc \in Connected \cup {"connect", "backoff"} /\ UNCHANGED cancels
    BY <1>5 DEF ConnectionStep, Connect, Subscribe, Limit, ReceiveFails, Backoff, NewEpoch,
       ReceiveFrame,
       FetchSnapshot, Admit, env
  <2>2. \/ Throw
        \/ mode' = mode /\ pc' \in Connected \cup {"reconnect", "close"}
    BY <1>5 DEF ConnectionStep, Connect, Subscribe, Limit, ReceiveFails, Backoff, NewEpoch,
       ReceiveFrame,
       FetchSnapshot, Admit, GoTo, LeaveConnection, AfterAdmit
  <2> QED BY <2>1, <2>2, <1>b, <1>c DEF Ended
<1>6. CASE Close
  <2>1. pc = "close" /\ pc' \in {"pause", "reported"} /\ mode' \in {mode, "complete", "cancelled"} /\ UNCHANGED cancels
    BY <1>6 DEF Close, Handle, HandleCancellation, CleanUpAs
  <2> QED BY <1>a, <2>1, <1>b DEF Ended, Moded
<1>7. CASE AbortEpoch
  <2>1. UNCHANGED cancels /\ pc = "abort"
    BY <1>7 DEF AbortEpoch
  <2>2. \/ Throw
        \/ pc' \in {"pause", "retry"} /\ mode' \in {mode, "failed"}
    BY <1>7 DEF AbortEpoch, GiveUp, CleanUpAs, GoTo
  <2> QED BY <1>a, <2>1, <2>2, <1>b, <1>c DEF Ended, Moded
<1>8. CASE Finish
  <2>1. pc = "finish" /\ UNCHANGED <<cancels, st, open, completed>>
    BY <1>8 DEF Finish, raw
  <2>2. CASE HandleCancellation /\ mode = "complete"
    BY <2>1, <2>2, <1>b DEF HandleCancellation, CleanUpAs, Ended
  <2>3. CASE pc' = AfterCleanup /\ UNCHANGED <<mode, deferred>>
    <3>0. mode \in {"complete", "failed", "cancelled", "coordinator"}
      BY <1>a, <2>1 DEF Moded
    <3>1. pc' = AfterCleanup /\ mode' = mode /\ Task' = AfterCleanup
          /\ Task = IF mode = "coordinator" THEN "raised" ELSE "running"
      BY <2>1, <2>3, <3>0 DEF AfterCleanup, Task, Ended
    <3>2. outcome' # "FAILED" => outcome' = outcome /\ Decide(Decision) /\ st = "PAUSED" /\ open = {} /\ completed = <<>>
      BY <1>8, <2>1, <2>3 DEF Finish, ReportInv, HandleCancellation, CleanUpAs
    <3>3. outcome' # "FAILED" => st' = "PAUSED" /\ journal' = None /\ open' = {} /\ completed' = <<>>
      BY <2>1, <3>2 DEF Decide, epochs
    <3>4. CASE mode = "complete" /\ outcome' # "FAILED"
      <4>1. outcome' = "BOUNDED_COMPLETE" /\ Task' = "returned" /\ Task = "running"
        BY <3>1, <3>4 DEF AfterCleanup, ReportInv
      <4>2. PICK c \in BOOLEAN : c = (Task' = "returned" /\ ~errors')
        BY DEF ReportInv
      <4>3. Life!End(Stream, "returned", "BOUNDED_COMPLETE", TRUE, TRUE, c)
        BY <2>1, <3>3, <3>4, <4>1, <4>2, EndIsEnd
      <4> QED BY <4>1, <4>2, <4>3 DEF Life!LifeNext, Life!Complete, Life!Running
    <3>5. CASE mode = "cancelled" /\ outcome' # "FAILED"
      <4>1. /\ outcome' = "CANCELLED" /\ Task' = "cancelled" /\ Task = "running"
            /\ (Task' = "returned" /\ ~errors') = FALSE
        BY <3>1, <3>5 DEF AfterCleanup, ReportInv
      <4>2. Life!End(Stream, "cancelled", "CANCELLED", TRUE, TRUE, FALSE)
        BY <2>1, <3>3, <3>5, <4>1, EndIsEnd
      <4>3. Life!Running(Stream) /\ [s \in {Stream} |-> cancels > 0][Stream]
        BY <3>5, <4>1 DEF Life!Running, ReportInv
      <4> QED BY <4>2, <4>3 DEF Life!LifeNext, Life!Cancelled
    <3>6. CASE mode # "coordinator" /\ outcome' = "FAILED"
      <4>1. Task' \in {"returned", "cancelled"} /\ Task = "running"
        BY <3>0, <3>1, <3>6 DEF AfterCleanup
      <4>2. (Task' = "returned" /\ ~errors') = FALSE
        BY <3>6 DEF ReportInv
      <4>3. PICK p \in BOOLEAN, d \in BOOLEAN :
              p = (st' = "PAUSED") /\ d = (journal' = None /\ open' = {} /\ completed' = <<>>)
        OBVIOUS
      <4>4. Life!End(Stream, Task', "FAILED", p, d, FALSE)
        BY <2>1, <3>6, <4>1, <4>2, <4>3, EndIsEnd
      <4>5. Task' = "cancelled" => cancels > 0
        BY <3>0, <3>1, <3>6, <2>3 DEF AfterCleanup, ReportInv
      <4>6. Life!Running(Stream)
        BY <4>1 DEF Life!Running
      <4>7. CASE Task' = "returned"
        BY <4>4, <4>6, <4>7 DEF Life!LifeNext, Life!Fail
      <4>8. CASE Task' = "cancelled"
        BY <4>4, <4>5, <4>6, <4>8 DEF Life!LifeNext, Life!Cancelled
      <4> QED BY <4>1, <4>7, <4>8
    <3>7. CASE mode = "coordinator"
      <4>1. Task = "raised" /\ Task' = "cleaned" /\ outcome' = "FAILED" /\ Clear'
            /\ (Task' = "returned" /\ ~errors') = FALSE
        BY <1>a, <3>1, <3>7 DEF AfterCleanup, ReportInv, Placed
      <4>2. PICK p \in BOOLEAN : p = (st' = "PAUSED")
        OBVIOUS
      <4>3. Life!End(Stream, "cleaned", "FAILED", p, TRUE, FALSE)
        BY <2>1, <4>1, <4>2, EndIsEnd DEF Clear
      <4> QED BY <4>1, <4>3 DEF Life!LifeNext, Life!Cleanup
    <3> QED BY <3>0, <3>1, <3>4, <3>5, <3>6, <3>7 DEF ReportInv
  <2> QED BY <1>8, <2>2, <2>3 DEF Finish
<1>9. CASE Cancel
  <2>1. UNCHANGED cancels /\ cancels > 0 /\ pc \notin Ended
    BY <1>9 DEF Cancel, Suspended, Awaits, Ended, ReportInv
  <2>2. CASE pc # "abort"
    <3>1. pc' \notin Ended /\ (mode' = mode \/ (mode' = "cancelled" /\ pc # "finish"))
      BY <1>9, <2>1, <2>2 DEF Cancel, LeaveConnection, HandleCancellation, CleanUpAs, Ended
    <3> QED BY <1>a, <1>9, <1>b, <2>1, <3>1 DEF Moded, Cancel, Suspended, Awaits
  <2>3. CASE pc = "abort"
    <3>1. mode = "none" /\ mode' = "none" /\ pc' = "cancelled" /\ UNCHANGED <<st, outcome>>
      BY <1>a, <1>9, <2>3 DEF Moded, Cancel, GoTo, report, Connected
    <3>2. Task = "running" /\ Task' = "cancelled" /\ outcome' = "RUNNING" /\ st' # "PAUSED"
          /\ (Task' = "returned" /\ ~errors') = FALSE
      BY <2>3, <3>1 DEF Task, Ended, ReportInv
    <3>3. PICK d \in BOOLEAN : d = (journal' = None /\ open' = {} /\ completed' = <<>>)
      OBVIOUS
    <3>4. Life!End(Stream, "cancelled", "RUNNING", FALSE, d, FALSE)
      BY <2>1, <3>2, <3>3, EndIsEnd
    <3>5. Life!Running(Stream)
      BY <3>2 DEF Life!Running
    <3> QED BY <2>1, <3>4, <3>5 DEF Life!LifeNext, Life!Cancelled
  <2> QED BY <2>2, <2>3
<1>10. CASE WorkerAborts
  <2>1. /\ pc = "cancelled" /\ pc' = pc /\ mode = "none" /\ mode' = mode /\ outcome = "RUNNING"
        /\ open = {} /\ completed = <<>> /\ journal # None
        /\ UNCHANGED <<st, errors, outcome, cancels, open, completed>>
    BY <1>a, <1>10 DEF WorkerAborts, Placed, ReportInv, control, report, raw
  <2>2. Task = "cancelled" /\ Task' = "cancelled"
    BY <2>1 DEF Task, Ended
  <2>3. CASE journal' = None
    BY <2>1, <2>2, <2>3, OneStream DEF Life!LifeNext, Life!Settle, View
  <2>4. CASE journal' # None
    BY <2>1, <2>2, <2>4 DEF Life!lifeVars, View
  <2> QED BY <2>3, <2>4
<1>11. CASE CoordinatorCleanup
  <2>1. Task = "raised" /\ Task' = "raised" /\ UNCHANGED cancels
    BY <1>11 DEF CoordinatorCleanup, CleanUpAs, Task, Ended, env
  <2> QED BY <1>a, <2>1, HiddenInside
<1>12. CASE Ask
  <2>1. Task = "running" /\ Task' = Task /\ cancels' = cancels + 1
    BY <1>12 DEF Ask, Task, control
  <2>2. (cancels > 0)' = TRUE
    BY <2>1 DEF ReportInv
  <2> QED BY <2>1, <2>2, AskIsAsk DEF Life!LifeNext
<1>13. CASE UNCHANGED vars
  BY <1>13 DEF vars, control, report, raw, epochs, env, Life!lifeVars, View, Task
<1> QED BY <1>1, <1>2, <1>3, <1>4, <1>5, <1>6, <1>7, <1>8, <1>9, <1>10, <1>11, <1>12, <1>13
    DEF Next, Step, Receive, Done, ConnectionStep

LEMMA LifeInit == Init => Life!LifeInit
<1> SUFFICES ASSUME Init PROVE Life!LifeInit
  OBVIOUS
<1>1. Task = "running" /\ cancels = 0
  BY DEF Init, Task, Ended
<1>2. (cancels > 0) = FALSE
  BY <1>1
<1> QED BY <1>1, <1>2 DEF Life!LifeInit, View

\* The runner keeps every promise the coordinator relies on: a bounded probe that
\* completes is paused and settled, a task ends cancelled only if it was asked to, an
\* exception leaves only between a settled attempt and its backoff, and the
\* coordinator's cleanup of such a runner is the last word.
THEOREM RunnerImplementsLife == Spec => ImplementsLife
<1>1. Spec => [](FramesInv /\ ReportInv)
  BY RunnerInvariant
<1> QED BY <1>1, LifeInit, LifeStep, PTL DEF Spec, ImplementsLife, Life!LifeSpec
===============================================================================
