------------------------------- MODULE BookSync -------------------------------
(***************************************************************************)
(* One connection of a Binance or OKX stream: the synchronizer with its    *)
(* local book, the adapter that numbers the records, the records of the    *)
(* epoch, and the publication of the epoch                                 *)
(* (capture_v2/synchronizers.py, adapters_v2/base.py, binance.py, okx.py). *)
(*                                                                         *)
(* The venue has a book after each of its update numbers 0..MaxId.  It     *)
(* sends updates, each for the numbers from one boundary to the next with  *)
(* the new quantity of every level that changed in between, and snapshots. *)
(* The connection may deliver any of them at any time, more than once, or  *)
(* never, so that a gap, an overlap, a repetition and a stale snapshot all *)
(* occur; what is delivered is true.  Event times never go back.           *)
(***************************************************************************)
EXTENDS L2Replay

CONSTANTS
  Feeds,     \* the kinds of stream: "spot", "perpetual", "okx"
  MaxId,     \* the last update number of the venue
  MaxRows    \* the largest Arrow batch

ASSUME SyncAssumption ==
  /\ Feeds \subseteq {"spot", "perpetual", "okx"}
  /\ MaxId \in Nat /\ MaxRows \in Nat \ {0}

Ids == 0..MaxId
Nothing == -1

VARIABLES
  feed,             \* the provider and market of the stream
  venue,            \* the venue's book after each update number
  boundaries,       \* the update numbers that are the last one of a message
  connection,       \* "connected", "resync" or "published"
  snapshotId,       \* _snapshot_id of the Binance synchronizer
  last,             \* _last_update_id or _last_sequence
  bridged,          \* _bridged
  book,             \* the tracked book
  providerSequence, \* _provider_sequence of the adapter
  emitted,          \* _emitted_sequence of the adapter
  records,          \* the records given to the epoch's journal
  result            \* what the publication reconstructed

stream == <<feed, venue, boundaries>>
sync == <<snapshotId, last, bridged, book>>
adapter == <<providerSequence, emitted>>
syncVars == <<stream, connection, sync, adapter, records, result>>

(***************************************************************************)
(* The venue.                                                              *)
(***************************************************************************)
\* One update number changes one level, or none.
NextBooks(b) == {c \in {SetLevel(b, l) : l \in Levels} \cup {b} : ~Crossed(c)}

Truthful(v) ==
  /\ TwoSided(v[0]) /\ ~Crossed(v[0])
  /\ \A i \in 1..MaxId : v[i] \in NextBooks(v[i - 1])

\* The levels that change between two update numbers, as they are at the end.
Changed(a, b) ==
  {sp \in Sides \X Prices : \E i \in a..b : venue[i][sp[1]][sp[2]] # venue[b][sp[1]][sp[2]]}
Changes(a, b) ==
  {[side |-> sp[1], price |-> sp[2], quantity |-> venue[b][sp[1]][sp[2]]] :
     sp \in Changed(a, b)}

\* The messages: from the boundary a to the next one.  Numbers of a perpetual that
\* change nothing may be skipped at the start of a message.
Spans ==
  {ab \in boundaries \X boundaries :
     ab[1] < ab[2] /\ \A c \in boundaries : c <= ab[1] \/ c >= ab[2]}
Firsts(a, b) ==
  {i \in a + 1..b : i > a + 1 => feed = "perpetual" /\ venue[i - 1] = venue[a]}
UpdateOf(a, b, i) == [first |-> i, final |-> b, previous |-> a, levels |-> Changes(a, b)]
Updates == UNION {{UpdateOf(ab[1], ab[2], i) : i \in Firsts(ab[1], ab[2])} : ab \in Spans}

SyncInit ==
  /\ feed \in Feeds
  /\ venue \in {v \in [Ids -> {b \in Books : ~Crossed(b)}] : Truthful(v)}
  /\ boundaries \in {B \in SUBSET Ids : 0 \in B /\ MaxId \in B}
  /\ connection = "connected"
  /\ snapshotId = Nothing /\ last = Nothing /\ bridged = FALSE /\ book = EmptyBook
  /\ providerSequence = Nothing /\ emitted = Nothing
  /\ records = <<>> /\ result = Uninitialized

(***************************************************************************)
(* Shared steps.                                                           *)
(***************************************************************************)
\* ResyncRequired or another exception leaves the connection.
Refuse == connection' = "resync" /\ UNCHANGED <<stream, sync, adapter, records, result>>

\* filter_delta: a level that is absent is not deleted again.
\* Mutation of Kept: deletes of absent levels reach the records.
KeptAll(levels) == levels

Kept(levels) == {l \in levels : Applicable(book, l)}

\* BookSequenceNormalizer.snapshot.
SnapshotAdvances(n) == providerSequence = Nothing \/ n > providerSequence

EmitSnapshot(n) ==
  /\ providerSequence' = n /\ emitted' = n * Factor
  /\ records' = Append(records, SnapshotRecord(n * Factor, venue[n]))

\* BookSequenceNormalizer.delta and advance_without_levels.
DeltaContinues(previous, n, kept) ==
  /\ providerSequence # Nothing /\ previous = providerSequence /\ n > previous
  /\ Cardinality(kept) < Factor

Numbered(n, kept) ==
  LET list == Ordered(kept)
  IN [i \in DOMAIN list |->
        DeltaRecord(IF i = 1 THEN emitted ELSE n * Factor + i - 1, n * Factor + i, list[i])]

EmitDelta(n, kept) ==
  /\ providerSequence' = n
  /\ emitted' = IF kept = {} THEN emitted ELSE n * Factor + Cardinality(kept)
  /\ records' = records \o Numbered(n, kept)

\* Mutation of AdmitUpdate: the number advances and the staged book is not committed.
AdmitUpdateUncommitted(m, p) ==
  LET kept == Kept(m.levels)
  IN IF ~Crossed(SetLevels(book, m.levels)) /\ DeltaContinues(p, m.final, kept)
     THEN /\ EmitDelta(m.final, kept)
          /\ last' = m.final /\ bridged' = (feed # "okx")
          /\ UNCHANGED <<stream, connection, snapshotId, book, result>>
     ELSE Refuse

\* The adapter and the book take an update after the venue's number p, or
\* the connection ends with both unchanged.
AdmitUpdate(m, p) ==
  LET after == SetLevels(book, m.levels)
      kept == Kept(m.levels)
  IN IF ~Crossed(after) /\ DeltaContinues(p, m.final, kept)
     THEN /\ EmitDelta(m.final, kept)
          /\ book' = after /\ last' = m.final /\ bridged' = (feed # "okx")
          /\ UNCHANGED <<stream, connection, snapshotId, result>>
     ELSE Refuse

Ignore == UNCHANGED syncVars

\* A snapshot that the adapter refuses has already replaced the tracked book.
RefuseSnapshot(n) ==
  /\ connection' = "resync" /\ book' = venue[n]
  /\ UNCHANGED <<stream, snapshotId, last, bridged, adapter, records, result>>

(***************************************************************************)
(* Binance.                                                                *)
(***************************************************************************)
\* The HTTPS snapshot, requested once after the first update has arrived.
HttpSnapshot(n) ==
  /\ connection = "connected" /\ feed # "okx" /\ snapshotId = Nothing
  /\ IF TwoSided(venue[n])
     THEN /\ EmitSnapshot(n)
          /\ book' = venue[n] /\ snapshotId' = n /\ last' = n /\ bridged' = FALSE
          /\ UNCHANGED <<stream, connection, result>>
     ELSE RefuseSnapshot(n)

Bridges(m) == m.first <= snapshotId /\ snapshotId <= m.final
\* Mutation of FollowsSpot: an update must overlap the last one.
FollowsSpotOverlap(m) == m.first <= last /\ last + 1 <= m.final

FollowsSpot(m) == m.first <= last + 1 /\ last + 1 <= m.final

FollowsChain(m) == m.previous = last

\* The range check of the adapter, for either market.
InRange(m, p) == m.first <= p + 1 /\ p + 1 <= m.final

\* An update is old, continues the book, or ends the connection.
BinanceUpdate(m) ==
  /\ connection = "connected" /\ feed # "okx" /\ snapshotId # Nothing
  /\ \/ m.final <= last /\ Ignore
     \/ /\ m.final > last
        /\ IF /\ IF ~bridged THEN Bridges(m)
                 ELSE IF feed = "perpetual" THEN FollowsChain(m) ELSE FollowsSpot(m)
              /\ InRange(m, last)
           THEN AdmitUpdate(m, last) ELSE Refuse

(***************************************************************************)
(* OKX.                                                                    *)
(***************************************************************************)
OkxSnapshot(n) ==
  /\ connection = "connected" /\ feed = "okx"
  /\ IF TwoSided(venue[n]) /\ SnapshotAdvances(n)
     THEN /\ EmitSnapshot(n)
          /\ book' = venue[n] /\ last' = n
          /\ UNCHANGED <<stream, connection, snapshotId, bridged, result>>
     ELSE RefuseSnapshot(n)

OkxUpdate(m) ==
  /\ connection = "connected" /\ feed = "okx"
  /\ IF last # Nothing /\ m.previous = last THEN AdmitUpdate(m, m.previous) ELSE Refuse

\* An update without levels whose number is the previous one.
Heartbeat(n) ==
  /\ connection = "connected" /\ feed = "okx"
  /\ IF n = last THEN Ignore ELSE Refuse

\* Maintenance: the venue's numbers start again below the previous one.
MaintenanceReset ==
  /\ connection = "connected" /\ feed = "okx" /\ last # Nothing
  /\ connection' = "resync" /\ last' = Nothing /\ providerSequence' = Nothing /\ emitted' = Nothing
  /\ UNCHANGED <<stream, snapshotId, bridged, book, records, result>>

(***************************************************************************)
(* The connection and the epoch.                                           *)
(***************************************************************************)
\* A frame of another symbol or event, without numbers, or not JSON.
Malformed == connection = "connected" /\ Refuse

\* The runner aborts the epoch and connects with a new synchronizer.
Reconnect ==
  /\ connection = "resync" /\ connection' = "connected"
  /\ snapshotId' = Nothing /\ last' = Nothing /\ bridged' = FALSE /\ book' = EmptyBook
  /\ providerSequence' = Nothing /\ emitted' = Nothing /\ records' = <<>>
  /\ UNCHANGED <<stream, result>>

Live == IF feed = "okx" THEN last # Nothing ELSE bridged

\* A completed probe publishes its epoch in batches of at most n records.
PublishEpoch(n) ==
  /\ connection = "connected" /\ Live
  /\ connection' = "published" /\ result' = Publish(records, n)
  /\ UNCHANGED <<stream, sync, adapter, records>>

UpdateArrives(m) == BinanceUpdate(m) \/ OkxUpdate(m)

Finished == connection = "published" /\ UNCHANGED syncVars

SyncNext ==
  \/ \E n \in Ids : HttpSnapshot(n) \/ OkxSnapshot(n) \/ Heartbeat(n)
  \/ \E m \in Updates : UpdateArrives(m)
  \/ MaintenanceReset \/ Malformed \/ Reconnect
  \/ \E n \in 1..MaxRows : PublishEpoch(n)
  \/ Finished

SyncSpec == SyncInit /\ [][SyncNext]_syncVars

(***************************************************************************)
(* Properties.                                                             *)
(***************************************************************************)
\* Whatever was lost, repeated, reordered or stale, a book that is kept is the
\* venue's book after the last update number that was admitted.
BookIsVenueBook == connection # "resync" /\ last # Nothing => book = venue[last]

\* Every update that a live synchronizer admitted can be published, however the
\* journal is cut into Arrow batches, even through the middle of an update, and
\* reconstructs the book the synchronizer kept.
PublishedIsTracked ==
  connection = "published" => result = [ok |-> TRUE, sequence |-> emitted, book |-> book]

\* A feed that loses nothing is not refused: the update that bridges the snapshot
\* and the one that starts right after the last one are admitted.
Expected(m) ==
  IF feed = "okx" \/ bridged THEN m.previous = last /\ m.first = last + 1
  ELSE Bridges(m) /\ m.final > snapshotId
HealthyFeedIsAdmitted ==
  [][\A m \in Updates : Expected(m) /\ UpdateArrives(m) => connection' = "connected"]_syncVars

===============================================================================
