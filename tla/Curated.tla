------------------------------ MODULE Curated ------------------------------
(***************************************************************************)
(* Curated bars (curated.py): the trades of a Normalized snapshot are made *)
(* into bars of fixed time, of sessions or of events, written in order to  *)
(* an immutable snapshot, and registered under one revision; and the       *)
(* loader that certifies a snapshot (research_inputs_v2.py).               *)
(*                                                                         *)
(* A trade belongs to one instrument, day and source; its sequence number  *)
(* is unique in its session.  An instant is an integer, Second of them to  *)
(* a second.  The identity of a snapshot is its revision and the call that *)
(* made it, because its bars follow from them.                             *)
(***************************************************************************)
EXTENDS Integers, FiniteSetsExt, SequencesExt

CONSTANTS
  Second,     \* instants of a second
  Sessions,   \* a session id -> its [opens, closes]
  Calls,      \* the calls: [kind, trades, size]
  Revisions, Writers,
  MaxLost,    \* bound: deaths of a writer and lost files of the registry
  NoSnapshot

ASSUME CuratedAssumption ==
  /\ Second \in Nat \ {0} /\ MaxLost \in Nat
  /\ \A s \in DOMAIN Sessions : Sessions[s].opens < Sessions[s].closes
  /\ \A c \in Calls : /\ c.kind \in {"fixed_time_bar", "session", "trading_day", "trade_count", "base_volume"}
                      /\ c.size \in Nat \ {0} /\ c.trades # {}

VARIABLES
  snapshots,  \* the published snapshots: [revision, call]
  registry,   \* revisions/<revision>.json: the snapshot of a revision
  writers,    \* the call of a writer: [pc, snap]
  lost

curatedVars == <<snapshots, registry, writers, lost>>

(***************************************************************************)
(* Order.  The text of an instant leaves its fraction out when it is zero, *)
(* and ends in Z: the text of a whole second is greater than the texts of  *)
(* its fractions.                                                          *)
(***************************************************************************)
Text(t) == IF t % Second = 0 THEN 2 * (t + Second) - 1 ELSE 2 * t

Before(x, y) == x.time < y.time \/ (x.time = y.time /\ x.seq < y.seq)
TextBefore(x, y) == Text(x.time) < Text(y.time) \/ (x.time = y.time /\ x.seq < y.seq)

InOrder(records) == SetToSortSeq(records, Before)
InTextOrder(records) == SetToSortSeq(records, TextBefore)

(***************************************************************************)
(* Bars.                                                                   *)
(***************************************************************************)
\* A call that makes no bars is refused, and one that is refused makes none.
NoBars == {}

BarOf(trades, start, end, session, seq) ==
  LET set == {trades[i] : i \in DOMAIN trades}
      prices == {t.price : t \in set}
  IN [time |-> end, start |-> start, session |-> session, seq |-> seq, trades |-> set,
      open |-> trades[1].price, close |-> trades[Len(trades)].price,
      high |-> Max(prices), low |-> Min(prices),
      volume |-> MapThenSumSet(LAMBDA t : t.quantity, set),
      available |-> Max({end} \union {t.available : t \in set})]

\* build_session_bars: the trades of a bar are ordered by the text of their times.
SessionBars(trades, interval) ==
  LET opens(t) == Sessions[t.session].opens
      bucket(t) == <<t.session, opens(t) + interval * ((t.time - opens(t)) \div interval)>>
  IN IF \E t \in trades : t.time < opens(t) THEN NoBars
     ELSE {BarOf(InTextOrder({t \in trades : bucket(t) = b}),
                 b[2], b[2] + interval, b[1], b[2] + interval) : b \in {bucket(t) : t \in trades}}

LastOf(ordered) == ordered[Len(ordered)]

\* build_session_rollup_bars with the boundaries of curate_session_bars_from_snapshot.
RollupBars(trades, rollup) ==
  LET ids == DOMAIN Sessions
      last == CHOOSE s \in ids : \A r \in ids : Sessions[r].closes <= Sessions[s].closes
      bar(group, over, session) ==
        LET ordered == InOrder(group)
        IN BarOf(ordered, Min({Sessions[s].opens : s \in over}), Max({Sessions[s].closes : s \in over}),
                 session, LastOf(ordered).seq)
  IN IF rollup = "trading_day" THEN {bar(trades, ids, last)}
     ELSE {bar({t \in trades : t.session = s}, {s}, s) : s \in {t.session : t \in trades}}

Amount(t, basis) == IF basis = "trade_count" THEN 1 ELSE t.quantity

Opened(start) == [bars |-> {}, bucket |-> <<>>, sum |-> 0, start |-> start, fits |-> TRUE]

\* One trade of build_event_bars.
\* Mutation of EventStep: what is left over is kept.
EventStepKeeping(acc, t, basis, threshold) ==
  LET bucket == Append(acc.bucket, t)
      sum == acc.sum + Amount(t, basis)
  IN IF sum < threshold THEN [acc EXCEPT !.bucket = bucket, !.sum = sum]
     ELSE [bars |-> acc.bars \union {BarOf(bucket, acc.start, t.time, t.session, t.seq)}, bucket |-> <<>>,
           sum |-> sum - threshold, start |-> t.time, fits |-> acc.fits /\ acc.start < t.time]

EventStep(acc, t, basis, threshold) ==
  LET bucket == Append(acc.bucket, t)
      sum == acc.sum + Amount(t, basis)
  IN IF sum < threshold THEN [acc EXCEPT !.bucket = bucket, !.sum = sum]
     ELSE [bars |-> acc.bars \union {BarOf(bucket, acc.start, t.time, t.session, t.seq)}, bucket |-> <<>>,
           sum |-> 0, start |-> t.time, fits |-> acc.fits /\ acc.start < t.time]

\* build_event_bars of one session; a stream that ends below the threshold and a bar
\* that ends as it starts are refused.
StreamBars(trades, session, basis, threshold) ==
  LET end == FoldLeft(LAMBDA acc, t : EventStep(acc, t, basis, threshold),
                      Opened(Sessions[session].opens), InOrder(trades))
  IN IF end.bucket # <<>> \/ ~end.fits THEN NoBars ELSE end.bars

SessionsOf(trades) == {t.session : t \in trades}
OfSession(trades, session) == {t \in trades : t.session = session}

\* EventBarPartitionEvidence: the boundaries are those of the order in time.
EvidenceOf(trades, session) ==
  LET ordered == InOrder(OfSession(trades, session))
  IN [session |-> session, first |-> ordered[1].seq, last |-> LastOf(ordered).seq,
      count |-> Len(ordered), selection |-> OfSession(trades, session)]

EvidenceFits(e) == e.first <= e.last /\ e.count <= e.last - e.first + 1

EventBars(trades, basis, threshold) ==
  LET bars == [s \in SessionsOf(trades) |-> StreamBars(OfSession(trades, s), s, basis, threshold)]
  IN IF \/ \E s \in DOMAIN bars : bars[s] = NoBars
        \/ \E s \in DOMAIN bars : ~EvidenceFits(EvidenceOf(trades, s))
     THEN NoBars ELSE UNION {bars[s] : s \in DOMAIN bars}

OfEvents(call) == call.kind \in {"trade_count", "base_volume"}

Bars(call) ==
  CASE call.kind = "fixed_time_bar" -> SessionBars(call.trades, call.size)
    [] OfEvents(call) -> EventBars(call.trades, call.kind, call.size)
    [] OTHER -> RollupBars(call.trades, call.kind)

(***************************************************************************)
(* Files.                                                                  *)
(***************************************************************************)
\* _write_curated_bars: one file, or one for each session when the bars are of events,
\* ordered by the text of the times.
Partitions(call) ==
  {InTextOrder(group) :
     group \in IF OfEvents(call) THEN {{b \in Bars(call) : b.session = s} : s \in SessionsOf(call.trades)}
               ELSE {Bars(call)}}

\* _validate_curated_partition_table demands the order of the instants.
RowsInOrder(rows) == \A i \in 1..(Len(rows) - 1) : Before(rows[i], rows[i + 1])

\* _load_curated_snapshot without the registry.
Reads(snap) == \A rows \in Partitions(snap.call) : RowsInOrder(rows)

\* load_curated_snapshot.
Loads(snap) == Reads(snap) /\ registry[snap.revision] = snap

(***************************************************************************)
(* load_verified_curated_bars.                                             *)
(***************************************************************************)
\* The rows of a verified selection lie in their session and have its boundaries.
BarInSession(call, bar) ==
  LET session == Sessions[bar.session]
      all == {Sessions[s] : s \in DOMAIN Sessions}
  IN /\ session.opens <= bar.time /\ bar.time <= session.closes /\ bar.time <= bar.available
     /\ CASE call.kind = "fixed_time_bar" ->
               bar.time - bar.start = call.size /\ session.opens <= bar.start /\ bar.time <= session.closes
          [] call.kind = "session" -> bar.start = session.opens /\ bar.time = session.closes
          [] call.kind = "trading_day" ->
               bar.start = Min({s.opens : s \in all}) /\ bar.time = Max({s.closes : s \in all})
          [] OTHER -> TRUE

\* The trades that the evidence selects are those that it was taken from.
SelectedBy(trades, e) == {t \in OfSession(trades, e.session) : e.first <= t.seq /\ t.seq <= e.last}
EvidenceHolds(trades, e) ==
  /\ Cardinality(SelectedBy(trades, e)) = e.count
  /\ EvidenceOf(SelectedBy(trades, e), e.session) = e

BarsRecompute(call) ==
  LET evidence == {EvidenceOf(call.trades, s) : s \in SessionsOf(call.trades)} IN
  /\ \A e \in evidence : EvidenceHolds(call.trades, e)
  /\ UNION {SelectedBy(call.trades, e) : e \in evidence} = call.trades
  /\ UNION {StreamBars(SelectedBy(call.trades, e), e.session, call.kind, call.size) : e \in evidence}
       = Bars(call)

Certified(snap) ==
  /\ Loads(snap)
  /\ \A b \in Bars(snap.call) : BarInSession(snap.call, b)
  /\ \A b, c \in Bars(snap.call) : b # c => b.time # c.time \/ b.seq # c.seq
  /\ OfEvents(snap.call) => BarsRecompute(snap.call)

(***************************************************************************)
(* Publication.  The stage of a revision is locked for one writer.         *)
(***************************************************************************)
Idle == [pc |-> "idle", snap |-> NoSnapshot]

CuratedInit ==
  /\ snapshots = {} /\ registry = [r \in Revisions |-> NoSnapshot]
  /\ writers = [w \in Writers |-> Idle] /\ lost = 0

Locked(revision) == \E w \in Writers : writers[w].pc # "idle" /\ writers[w].snap.revision = revision

At(w, pc) == writers[w].pc = pc
Move(w, pc) == writers' = [writers EXCEPT ![w].pc = pc]
Return(w) == writers' = [writers EXCEPT ![w] = Idle]

\* The bars are built and written to the stage.
Stage(w, revision, call) ==
  /\ At(w, "idle") /\ ~Locked(revision) /\ Bars(call) # NoBars
  /\ writers' = [writers EXCEPT ![w] = [pc |-> "staged", snap |-> [revision |-> revision, call |-> call]]]
  /\ UNCHANGED <<snapshots, registry, lost>>

\* _recover_missing_revision: all snapshots are read, those of the revision compared.
\* Mutation of Recover: a missing file of the registry is not looked for.
RecoverNothing(snap) == "absent"
Recover(snap) ==
  IF \/ \E s \in snapshots : ~Reads(s)
     \/ \E s \in snapshots : s.revision = snap.revision /\ s # snap
  THEN "refused"
  ELSE IF snap \in snapshots THEN "recovered" ELSE "absent"

\* _publish_curated_snapshot, before it publishes.
CheckRevision(w) ==
  LET snap == writers[w].snap
      held == registry[snap.revision]
      found == IF held # NoSnapshot THEN (IF held = snap THEN "absent" ELSE "refused") ELSE Recover(snap)
  IN /\ At(w, "staged")
     /\ IF found = "refused" THEN Return(w) ELSE Move(w, "checked")
     /\ registry' = IF found = "recovered" THEN [registry EXCEPT ![snap.revision] = snap] ELSE registry
     /\ UNCHANGED <<snapshots, lost>>

\* An existing snapshot is read again, a new one is renamed into its place.
Publish(w) ==
  LET snap == writers[w].snap IN
  /\ At(w, "checked")
  /\ IF snap \in snapshots /\ ~Reads(snap) THEN Return(w) ELSE Move(w, "published")
  /\ snapshots' = snapshots \union {snap}
  /\ UNCHANGED <<registry, lost>>

\* The registry is written if it still lacks the revision; the call ends with a load.
RegisterRevision(w) ==
  LET snap == writers[w].snap IN
  /\ At(w, "published")
  /\ registry' = IF registry[snap.revision] = NoSnapshot THEN [registry EXCEPT ![snap.revision] = snap] ELSE registry
  /\ Return(w)
  /\ UNCHANGED <<snapshots, lost>>

\* A writer dies; its lock goes with it.
Die(w) ==
  /\ lost < MaxLost /\ ~At(w, "idle") /\ Return(w) /\ lost' = lost + 1
  /\ UNCHANGED <<snapshots, registry>>

\* The file of a revision is deleted: it can be made again from the snapshots.
LoseRevision(revision) ==
  /\ lost < MaxLost /\ registry[revision] # NoSnapshot
  /\ registry' = [registry EXCEPT ![revision] = NoSnapshot] /\ lost' = lost + 1
  /\ UNCHANGED <<snapshots, writers>>

StagedCall ==
  \/ \E w \in Writers : CheckRevision(w) \/ Publish(w) \/ RegisterRevision(w) \/ Die(w)
  \/ \E r \in Revisions : LoseRevision(r)

CuratedNext == (\E w \in Writers, r \in Revisions, c \in Calls : Stage(w, r, c)) \/ StagedCall

CuratedSpec == CuratedInit /\ [][CuratedNext]_curatedVars
-----------------------------------------------------------------------------
\* A revision of a dataset is one snapshot for ever, although the writer that published
\* it may have died before it registered it, or its registration may be lost.
OneSnapshotPerRevision ==
  /\ \A s, t \in snapshots : s.revision = t.revision => s = t
  /\ \A r \in Revisions : registry[r] # NoSnapshot => registry[r] \in snapshots

\* Certified bars hold every trade of the snapshot once, and no two bars of a session
\* share time; a bar of fixed time spans its trades, and a bar of events is full with its
\* last trade and not before.
CertifiedBarsPartitionTrades ==
  \A s \in {t \in snapshots : Certified(t)} :
    LET bars == Bars(s.call) IN
    /\ UNION {b.trades : b \in bars} = s.call.trades
    /\ \A b, c \in bars : b # c => /\ b.trades \intersect c.trades = {}
                                   /\ b.session = c.session => b.time <= c.start \/ c.time <= b.start
    /\ s.call.kind = "fixed_time_bar" =>
         \A b \in bars : \A t \in b.trades : b.start <= t.time /\ t.time < b.time
    /\ OfEvents(s.call) => \A b \in bars :
         LET total == MapThenSumSet(LAMBDA t : Amount(t, s.call.kind), b.trades)
             last == LastOf(InOrder(b.trades))
         IN total >= s.call.size /\ total - Amount(last, s.call.kind) < s.call.size

\* Certified bars open with their first trade and close with their last.
CertifiedBarsOpenAndClose ==
  \A s \in {t \in snapshots : Certified(t)} : \A b \in Bars(s.call) :
    LET ordered == InOrder(b.trades)
    IN b.open = ordered[1].price /\ b.close = LastOf(ordered).price
=============================================================================
