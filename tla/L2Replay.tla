------------------------------- MODULE L2Replay -------------------------------
(***************************************************************************)
(* Level-2 books and the two ways the records of an epoch are replayed     *)
(* (l2_replay.py, and the batch validation of normalized_v3.py).           *)
(*                                                                         *)
(* A book gives every price of a side its quantity, 0 if the level is      *)
(* absent.  A record is a snapshot with its book or a delta of one level.  *)
(* The deltas of one provider update have sequence numbers that encode the *)
(* update and the position in it; the publication applies such a group as  *)
(* a whole, replay_l2 one record at a time.  Identities, price scales and  *)
(* event times, which the venue keeps fixed or never moves back, are left  *)
(* out.                                                                    *)
(***************************************************************************)
EXTENDS Integers, SequencesExt

CONSTANTS
  Prices,       \* the prices that occur
  MaxQuantity,  \* the largest quantity that occurs
  Factor        \* BOOK_SEQUENCE_FACTOR

ASSUME BookAssumption ==
  /\ Prices \subseteq Nat \ {0} /\ IsFiniteSet(Prices)
  /\ MaxQuantity \in Nat \ {0}
  /\ Factor \in Nat /\ Factor > 2 * Cardinality(Prices)

Sides == {"bid", "ask"}
Quantities == 0..MaxQuantity
Books == [Sides -> [Prices -> Quantities]]
Levels == [side : Sides, price : Prices, quantity : Quantities]
EmptyBook == [s \in Sides |-> [p \in Prices |-> 0]]

\* Both sides have levels, as a snapshot event must.
TwoSided(b) == \A s \in Sides : \E p \in Prices : b[s][p] > 0

\* Locked or crossed.
Crossed(b) == \E p, q \in Prices : b["bid"][p] > 0 /\ b["ask"][q] > 0 /\ p >= q

SetLevel(b, l) == [b EXCEPT ![l.side][l.price] = l.quantity]

\* The book after a set of levels, at most one for each side and price.
SetLevels(b, levels) ==
  [s \in Sides |-> [p \in Prices |->
     IF \E l \in levels : l.side = s /\ l.price = p
     THEN (CHOOSE l \in levels : l.side = s /\ l.price = p).quantity
     ELSE b[s][p]]]

\* The records: bids before asks, as the adapters list them, and each side in
\* the order of the message, which is any.
Ordered(levels) ==
  SetToSeq({l \in levels : l.side = "bid"}) \o SetToSeq({l \in levels : l.side = "ask"})

SnapshotRecord(sequence, b) == [kind |-> "snapshot", sequence |-> sequence, book |-> b]
DeltaRecord(previous, sequence, l) ==
  [kind |-> "delta", sequence |-> sequence, previous |-> previous, level |-> l]

(***************************************************************************)
(* The reconstructor: what it has applied, or that it refused.             *)
(***************************************************************************)
Uninitialized == [ok |-> TRUE, sequence |-> -1, book |-> EmptyBook]
Refused == [ok |-> FALSE, sequence |-> -1, book |-> EmptyBook]
Initialized(r) == r.sequence >= 0

ApplySnapshot(r, e) ==
  IF r.sequence < e.sequence /\ ~Crossed(e.book) /\ TwoSided(e.book)
  THEN [ok |-> TRUE, sequence |-> e.sequence, book |-> e.book]
  ELSE Refused

\* The level of a delta can be applied to a book.
Applicable(b, l) == l.quantity = 0 => b[l.side][l.price] > 0

\* _apply_validated_delta_state: the book must be valid after every level.
ApplyDelta(r, e) ==
  LET after == SetLevel(r.book, e.level)
  IN IF /\ Initialized(r) /\ e.previous = r.sequence /\ e.sequence > e.previous
        /\ Applicable(r.book, e.level) /\ ~Crossed(after)
     THEN [ok |-> TRUE, sequence |-> e.sequence, book |-> after]
     ELSE Refused

Apply(r, e) ==
  IF ~r.ok THEN Refused
  ELSE IF e.kind = "snapshot" THEN ApplySnapshot(r, e) ELSE ApplyDelta(r, e)

\* replay_l2, and the serial validation of a batch.
Replay(r, events) == FoldLeft(Apply, r, events)

\* _apply_validated_atomic_delta_group: every level is chained to the one before
\* and applicable, and only the book after the last one must be valid.
StageDelta(r, e) ==
  IF /\ r.ok /\ e.previous = r.sequence /\ e.sequence > e.previous
     /\ Applicable(r.book, e.level)
  THEN [ok |-> TRUE, sequence |-> e.sequence, book |-> SetLevel(r.book, e.level)]
  ELSE Refused

ApplyGroup(r, group) ==
  LET staged == FoldLeft(StageDelta, r, group)
  IN IF r.ok /\ Initialized(r) /\ ~Crossed(staged.book) THEN staged ELSE Refused

\* _apply_validated_uniform_upsert_batch: one level replaced again and again.
Uniform(batch) ==
  \A i \in DOMAIN batch :
    /\ batch[i].level.quantity > 0
    /\ batch[i].level.side = batch[1].level.side /\ batch[i].level.price = batch[1].level.price

ApplyUniform(r, batch) ==
  LET after == SetLevel(r.book, Last(batch).level)
  IN IF /\ r.ok /\ Initialized(r) /\ batch[1].previous = r.sequence
        /\ Last(batch).sequence > r.sequence /\ ~Crossed(after)
     THEN [ok |-> TRUE, sequence |-> Last(batch).sequence, book |-> after]
     ELSE Refused

(***************************************************************************)
(* Batches.  A sequence number is the provider's number and a position.    *)
(***************************************************************************)
Provider(e) == e.sequence \div Factor
Position(e) == e.sequence % Factor

\* _encoded_l2_group_ranges: a batch of deltas whose groups are contiguous; the
\* first group may have lost its beginning.
Encoded(batch) ==
  /\ \A i \in DOMAIN batch : batch[i].kind = "delta" /\ Provider(batch[i]) > 0
  /\ Position(batch[1]) > 0
  /\ \A i \in 2..Len(batch) :
       Position(batch[i]) = IF Provider(batch[i]) = Provider(batch[i - 1])
                            THEN Position(batch[i - 1]) + 1 ELSE 1

\* Where groups start and end; the group that ends at a record.
GroupStarts(batch) ==
  {i \in DOMAIN batch : i = 1 \/ Provider(batch[i - 1]) # Provider(batch[i])}
GroupEnds(batch) ==
  {i \in DOMAIN batch : i = Len(batch) \/ Provider(batch[i + 1]) # Provider(batch[i])}
GroupEndingAt(batch, i) == SubSeq(batch, Max({j \in GroupStarts(batch) : j <= i}), i)

\* Each group is applied as a whole where it ends.
GroupStep(batch, acc, i) ==
  IF i \in GroupEnds(batch) THEN ApplyGroup(acc, GroupEndingAt(batch, i)) ELSE acc
ApplyGroups(r, batch) ==
  FoldLeft(LAMBDA acc, i : GroupStep(batch, acc, i), r, [i \in DOMAIN batch |-> i])

Chained(batch) == \A i \in 2..Len(batch) : batch[i].previous = batch[i - 1].sequence
Complete(batch) == Encoded(batch) /\ Position(batch[1]) = 1

\* _validate_record_batch: whole groups if they are complete, else one level
\* replaced again and again, else one record at a time.  A broken chain is refused
\* by whichever of the three comes to it.
ValidateBatch(r, batch) ==
  IF batch[1].kind = "snapshot" THEN Replay(r, batch)
  ELSE IF ~Chained(batch) THEN Refused
  ELSE IF Complete(batch) THEN ApplyGroups(r, batch)
  ELSE IF Uniform(batch) THEN ApplyUniform(r, batch)
  ELSE Replay(r, batch)

\* _iter_epoch_record_batches: at most n records of one kind.
Cut(acc, e, n) ==
  IF acc # <<>> /\ Last(acc)[1].kind = e.kind /\ Len(Last(acc)) < n
  THEN Append(Front(acc), Append(Last(acc), e)) ELSE Append(acc, <<e>>)
Batches(events, n) == FoldLeft(LAMBDA acc, e : Cut(acc, e, n), <<>>, events)

\* _iter_atomic_l2_record_batches: the last group of a batch is held back and
\* joined with the first piece of the next one when that goes on with it.
NonEmpty(batch) == IF batch = <<>> THEN <<>> ELSE <<batch>>
Continues(pending, batch) ==
  /\ pending # <<>>
  /\ Provider(Last(pending)) = Provider(batch[1])
  /\ batch[1].sequence = Last(pending).sequence + 1

Join(acc, batch) ==
  IF ~Encoded(batch)
  THEN [out |-> acc.out \o NonEmpty(acc.pending) \o <<batch>>, pending |-> <<>>]
  ELSE
    LET joined == Continues(acc.pending, batch)
        all == IF joined THEN acc.pending \o batch ELSE batch
        out == IF joined THEN acc.out ELSE acc.out \o NonEmpty(acc.pending)
        held == GroupEndingAt(all, Len(all))
    IN [out |-> out \o NonEmpty(SubSeq(all, 1, Len(all) - Len(held))), pending |-> held]

AtomicBatches(batches) ==
  LET acc == FoldLeft(Join, [out |-> <<>>, pending |-> <<>>], batches)
  IN acc.out \o NonEmpty(acc.pending)

\* The publication of an epoch's records in input batches of at most n.
Publish(events, n) == FoldLeft(ValidateBatch, Uninitialized, AtomicBatches(Batches(events, n)))
===============================================================================
