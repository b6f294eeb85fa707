--------------------------- MODULE NormalizedBatch ---------------------------

(***************************************************************************)
(* What one normalization call keeps of its input (normalized_v3.py).      *)
(*                                                                         *)
(* The Mapping entry point reads one record at a time, quarantines every   *)
(* stream that fails, and removes the records whose event id occurs twice  *)
(* before it publishes.  The Arrow entry point reads batches, joins the    *)
(* deltas of one provider update that two batches cut, applies a group or  *)
(* a uniform batch as a whole, and refuses everything when anything fails. *)
(*                                                                         *)
(* A row has a stream, a kind, a sequence number (and the one it follows), *)
(* an event id and a flag for its own schema and time checks.  A book is   *)
(* the sequence of the rows that made it, which is what a state hash tells *)
(* apart; prices are not modelled, so a batch may be uniform or not.       *)
(***************************************************************************)
EXTENDS Integers, SequencesExt

CONSTANTS
  Rows,          \* the rows that may arrive: [stream, kind, seq, prev, id, ok]
  Expectations,  \* the sets of expected checkpoints: [stream, seq, right]
  Factor,        \* BOOK_SEQUENCE_FACTOR
  MaxRows,       \* bound: rows of one call
  MaxBatch       \* bound: rows of one Arrow batch

\* Event id of a row that shares it with no other.
Unique == "unique"
Streams == {r.stream : r \in Rows}
Domains == {"book", "trade"}

ASSUME BatchAssumption ==
  /\ \A r \in Rows : /\ r.kind \in {"snapshot", "delta", "trade"}
                     /\ r.seq \in Nat /\ r.prev \in Nat /\ r.ok \in BOOLEAN
  /\ Factor \in Nat \ {0, 1} /\ MaxRows \in Nat /\ MaxBatch \in Nat \ {0}

VARIABLES
  mode,      \* which entry point is called
  expected,  \* expected_l2_checkpoint_hashes
  spool,     \* the input so far, with its index
  state,     \* last_sequences, books and reached_l2
  invalid,   \* invalid_streams
  parts,     \* the indices of the rows in the staged partitions
  pending,   \* the provider update that may continue in the next Arrow batch
  emitted,   \* the Arrow batches as they were validated
  result     \* the outcome

batchVars == <<mode, expected, spool, state, invalid, parts, pending, emitted, result>>

(***************************************************************************)
(* One record of a stream.                                                 *)
(***************************************************************************)
Domain(r) == IF r.kind = "trade" THEN "trade" ELSE "book"

Fresh == [last    |-> [k \in Streams \X Domains |-> -1],
          books   |-> [s \in Streams |-> [seq |-> -1, log |-> <<>>]],
          known   |-> {},
          reached |-> {}]

\* Before the first row.
Nothing == [ok |-> TRUE, st |-> Fresh]

\* The schema and the checks of a record that concern it alone.
RecordOk(r) == r.ok /\ (r.kind = "delta" => r.prev < r.seq)

\* A sequence number advances in its domain, and a delta follows the last one.
Sequenced(st, r) ==
  LET last == st.last[<<r.stream, Domain(r)>>] IN
  last # -1 => r.seq > last /\ (r.kind = "delta" => r.prev = last)

\* A book starts with a snapshot, a delta follows the book's last update.
Applies(b, r) == IF r.kind = "snapshot" THEN r.seq > b.seq ELSE b.seq # -1 /\ r.prev = b.seq

Applied(b, r) == [seq |-> r.seq,
                  log |-> IF r.kind = "snapshot" THEN <<r.n>> ELSE Append(b.log, r.n)]

ExpectedAt(want, r) == {e \in want : e.stream = r.stream /\ e.seq = r.seq}

\* What a row leaves behind, and whether it is accepted, when these checkpoints are
\* expected.  The book of a stream exists once a book row of it passed its own checks.
ValidateStreamRecord(want, st, r) ==
  LET key == <<r.stream, Domain(r)>>
      opened == [st EXCEPT !.known = @ \union {r.stream}]
      moved == [opened EXCEPT !.books[r.stream] = Applied(@, r)]
  IN IF ~RecordOk(r) \/ ~Sequenced(st, r) THEN [ok |-> FALSE, st |-> st]
     ELSE IF Domain(r) = "trade" THEN [ok |-> TRUE, st |-> [st EXCEPT !.last[key] = r.seq]]
     ELSE IF ~Applies(st.books[r.stream], r) THEN [ok |-> FALSE, st |-> opened]
     ELSE IF \E e \in ExpectedAt(want, r) : ~e.right THEN [ok |-> FALSE, st |-> moved]
     ELSE [ok |-> TRUE, st |-> [moved EXCEPT !.last[key] = r.seq,
                                             !.reached = @ \union ExpectedAt(want, r)]]

\* A sequence of rows with nobody to quarantine a stream: it passes or it fails.
SerialStep(want, acc, r) == IF acc.ok THEN ValidateStreamRecord(want, acc.st, r) ELSE acc
ApplySerial(want, res, rows) == FoldLeft(LAMBDA acc, r : SerialStep(want, acc, r), res, rows)

\* Those of the rows whose index is kept, from nothing.
KeptStep(want, kept, acc, r) == IF r.n \in kept THEN SerialStep(want, acc, r) ELSE acc
Replay(want, rows, kept) ==
  FoldLeft(LAMBDA acc, r : KeptStep(want, kept, acc, r), Nothing, rows)

RepeatedIds(rows) == {r.id : r \in {q \in rows : q.id # Unique /\ \E p \in rows : p.n # q.n /\ p.id = q.id}}

Unreached(st) == {e \in expected : e.stream \in st.known /\ e \notin st.reached}
Unobserved(st) == {e \in expected : e.stream \notin st.known}
Checkpoints(st, but) ==
  {[stream |-> s, seq |-> st.books[s].seq, log |-> st.books[s].log] :
     s \in {t \in st.known \ but : st.books[t].seq # -1}}

Reading == [status |-> "reading", accepted |-> {}, quarantined |-> {}, checkpoints |-> {}]
Failed == [Reading EXCEPT !.status = "failed"]
-----------------------------------------------------------------------------
BatchInit ==
  /\ mode \in {"mapping", "arrow"}
  /\ expected \in Expectations
  /\ spool = <<>> /\ state = Fresh /\ invalid = {} /\ parts = {}
  /\ pending = <<>> /\ emitted = <<>>
  /\ result = Reading

Numbered(r, n) == [n |-> n, stream |-> r.stream, kind |-> r.kind, seq |-> r.seq,
                   prev |-> r.prev, id |-> r.id, ok |-> r.ok]

(***************************************************************************)
(* The Mapping entry point.                                                *)
(***************************************************************************)
\* Every record is spooled; the first that fails makes its stream invalid.
ReadRecord ==
  /\ mode = "mapping" /\ result.status = "reading" /\ Len(spool) < MaxRows
  /\ \E r \in Rows :
       LET row == Numbered(r, Len(spool) + 1)
           res == ValidateStreamRecord(expected, state, row)
       IN /\ spool' = Append(spool, row)
          /\ IF row.stream \in invalid
             THEN UNCHANGED <<state, invalid, parts>>
             ELSE /\ state' = res.st
                  /\ invalid' = IF res.ok THEN invalid ELSE invalid \union {row.stream}
                  /\ parts' = IF res.ok THEN parts \union {row.n} ELSE parts
  /\ UNCHANGED <<mode, expected, pending, emitted, result>>

StagedRows == {r \in Range(spool) : r.n \in parts}

\* The ids that occur twice in the partitions and, once a stream is invalid,
\* anywhere in the input.
DuplicateEventIds(bad) == RepeatedIds(IF bad # {} THEN Range(spool) ELSE StagedRows)

\* The streams that fail without the repeated records.
\* Mutation of Revalidate: the survivors are not replayed.
RevalidateNothing(bad, ids) == bad
Survive(want, ids, acc, r) ==
  LET res == ValidateStreamRecord(want, acc.st, r) IN
  IF r.stream \in acc.bad \/ r.id \in ids THEN acc
  ELSE [st |-> res.st, bad |-> IF res.ok THEN acc.bad ELSE acc.bad \union {r.stream}]
Survivors(want, rows, bad, ids) ==
  FoldLeft(LAMBDA acc, r : Survive(want, ids, acc, r), [st |-> Fresh, bad |-> bad], rows)
Revalidate(bad, ids) ==
  LET after == Survivors(expected, spool, bad, ids)
  IN after.bad \union {e.stream : e \in {x \in expected : x \notin after.st.reached}}

\* The streams left invalid when the input has ended.
FinalInvalid ==
  LET bad == invalid \union {e.stream : e \in Unreached(state)}
      ids == DuplicateEventIds(bad)
  IN IF ids = {} THEN bad ELSE Revalidate(bad, ids)

\* A record is quarantined for its id or for its stream.
\* Mutation of RebuildAfterExclusions: what was staged before a stream failed stays.
RebuildKeepingStaged(bad, ids) == {r.n : r \in {q \in Range(spool) : q.id \notin ids /\ q.n \in parts}}
RebuildAfterExclusions(bad, ids) ==
  {r.n : r \in {q \in Range(spool) : q.id \notin ids /\ q.stream \notin bad}}

\* The end of the input.  The checkpoints are those of the books as they were
\* before any exclusion.
FinishMapping ==
  /\ mode = "mapping" /\ result.status = "reading"
  /\ LET bad == invalid \union {e.stream : e \in Unreached(state)}
         ids == DuplicateEventIds(bad)
         kept == IF bad = {} /\ ids = {} THEN parts
                 ELSE RebuildAfterExclusions(FinalInvalid, ids)
     IN result' =
          IF Unobserved(state) # {} THEN Failed
          ELSE [status      |-> IF kept = {} THEN "empty" ELSE "accepted",
                accepted    |-> kept,
                quarantined |-> (1..Len(spool)) \ kept,
                checkpoints |-> IF kept = {} THEN {} ELSE Checkpoints(state, FinalInvalid)]
  /\ UNCHANGED <<mode, expected, spool, state, invalid, parts, pending, emitted>>

(***************************************************************************)
(* The Arrow entry point.                                                  *)
(***************************************************************************)
Provider(r) == r.seq \div Factor
Level(r) == r.seq % Factor

\* Contiguous levels of one or more provider updates.
Encoded(b) ==
  /\ b # <<>> /\ \A i \in DOMAIN b : b[i].kind = "delta" /\ Provider(b[i]) > 0
  /\ Level(b[1]) > 0
  /\ \A i \in 2..Len(b) :
       IF Provider(b[i]) = Provider(b[i - 1]) THEN Level(b[i]) = Level(b[i - 1]) + 1
                                              ELSE Level(b[i]) = 1

\* Where the provider updates of an encoded batch start and end; the update that
\* ends at a row.
GroupStarts(b) == {i \in DOMAIN b : i = 1 \/ Provider(b[i]) # Provider(b[i - 1])}
GroupEnds(b) == {i \in DOMAIN b : i = Len(b) \/ Provider(b[i + 1]) # Provider(b[i])}
GroupEndingAt(b, i) == SubSeq(b, Max({j \in GroupStarts(b) : j <= i}), i)

SameGroup(p, q) == p.stream = q.stream /\ Provider(p) = Provider(q) /\ q.seq = p.seq + 1

\* The batches that leave when b arrives, and the update that waits for more.
Coalesce(waiting, b) ==
  LET joins == waiting # <<>> /\ SameGroup(Last(waiting), b[1])
      head == IF joins THEN waiting ELSE <<>>
      released == IF waiting # <<>> /\ ~joins THEN <<waiting>> ELSE <<>>
      cut == Max(GroupStarts(b))
  IN CASE ~Encoded(b) -> [out |-> (IF waiting = <<>> THEN <<>> ELSE <<waiting>>) \o <<b>>,
                          waiting |-> <<>>]
       [] Encoded(b) /\ cut = 1 -> [out |-> released, waiting |-> head \o b]
       [] OTHER -> [out |-> released \o <<head \o SubSeq(b, 1, cut - 1)>>,
                    waiting |-> SubSeq(b, cut, Len(b))]

Chained(rows) == \A i \in 2..Len(rows) : rows[i].prev = rows[i - 1].seq
ExpectedInside(want, rows) ==
  \E e \in want : e.stream = rows[1].stream /\ rows[1].seq <= e.seq /\ e.seq < Last(rows).seq

\* Several deltas applied at once: only the last one can meet a checkpoint.
\* Mutation of ApplyWhole: what the group follows is not compared.
ApplyWholeUnchecked(want, st, rows) ==
  LET last == Last(rows) IN
  [ok |-> TRUE, st |-> [st EXCEPT !.known = @ \union {last.stream},
                                  !.books[last.stream] = [seq |-> last.seq, log |-> @.log \o [i \in DOMAIN rows |-> rows[i].n]],
                                  !.last[<<last.stream, "book">>] = last.seq]]
ApplyWhole(want, st, rows) ==
  LET s == rows[1].stream
      last == Last(rows)
      opened == [st EXCEPT !.known = @ \union {s}]
      moved == [opened EXCEPT !.books[s] = [seq |-> last.seq,
                                            log |-> @.log \o [i \in DOMAIN rows |-> rows[i].n]],
                              !.last[<<s, "book">>] = last.seq,
                              !.reached = @ \union ExpectedAt(want, last)]
  IN [ok |-> /\ Applies(st.books[s], rows[1]) /\ last.seq > rows[1].prev
             /\ \A e \in ExpectedAt(want, last) : e.right,
      st |-> moved]

\* A batch of complete provider updates with no expected checkpoint inside one.
Atomic(want, b) ==
  /\ Encoded(b)
  /\ \A i \in GroupEnds(b) :
       Level(GroupEndingAt(b, i)[1]) = 1 /\ ~ExpectedInside(want, GroupEndingAt(b, i))

\* Each update is applied as a whole where it ends.
UpdateStep(want, b, acc, i) ==
  IF acc.ok /\ i \in GroupEnds(b) THEN ApplyWhole(want, acc.st, GroupEndingAt(b, i)) ELSE acc
ApplyUpdates(want, res, b) ==
  FoldLeft(LAMBDA acc, i : UpdateStep(want, b, acc, i), res, [i \in DOMAIN b |-> i])

\* The checks of whole columns.
ColumnsOk(b) == \A i \in DOMAIN b : RecordOk(b[i])

\* One batch: its columns, then the fastest of the three ways that applies.
ValidateRecordBatch(want, st, b, uniform) ==
  LET deltas == b[1].kind = "delta"
      start == [ok |-> TRUE, st |-> st]
  IN IF \/ ~ColumnsOk(b)
        \/ deltas /\ (Encoded(b) \/ uniform) /\ ~Chained(b)
     THEN [ok |-> FALSE, st |-> st]
     ELSE IF deltas /\ Atomic(want, b) THEN ApplyUpdates(want, start, b)
     ELSE IF deltas /\ uniform /\ ~ExpectedInside(want, b) THEN ApplyWhole(want, st, b)
     ELSE ApplySerial(want, start, b)

BatchStep(want, uniform, acc, b) == IF acc.ok THEN ValidateRecordBatch(want, acc.st, b, uniform) ELSE acc
ValidateBatches(want, st, batches, uniform) ==
  FoldLeft(LAMBDA acc, b : BatchStep(want, uniform, acc, b), [ok |-> TRUE, st |-> st], batches)

Homogeneous(b) == \A i \in DOMAIN b : b[i].stream = b[1].stream /\ b[i].kind = b[1].kind

\* The rows that the batches put into the staged partitions.
StagedBy(batches) == UNION {{r.n : r \in Range(b)} : b \in Range(batches)}

\* The next batch of the input; the first failure ends the call.
ReadBatch ==
  /\ mode = "arrow" /\ result.status = "reading"
  /\ \E k \in 1..MaxBatch : \E chosen \in [1..k -> Rows] : \E uniform \in BOOLEAN :
       LET rows == [i \in 1..k |-> Numbered(chosen[i], Len(spool) + i)]
           step == Coalesce(pending, rows)
           res == ValidateBatches(expected, state, step.out, uniform)
       IN /\ Len(spool) + k <= MaxRows /\ Homogeneous(rows)
          /\ spool' = spool \o rows
          /\ pending' = step.waiting
          /\ emitted' = emitted \o step.out
          /\ state' = IF res.ok THEN res.st ELSE state
          /\ parts' = parts \union StagedBy(step.out)
          /\ result' = IF res.ok THEN result ELSE Failed
  /\ UNCHANGED <<mode, expected, invalid>>

\* Repeated ids fail the whole call when the claims are built.
ClaimsCollide(rows) == RepeatedIds(Range(rows)) # {}

\* The end of the input releases the waiting update; then all or nothing.
FinishArrow ==
  /\ mode = "arrow" /\ result.status = "reading"
  /\ \E uniform \in BOOLEAN :
       LET rest == IF pending = <<>> THEN <<>> ELSE <<pending>>
           res == ValidateBatches(expected, state, rest, uniform)
       IN /\ emitted' = emitted \o rest
          /\ state' = IF res.ok THEN res.st ELSE state
          /\ parts' = 1..Len(spool)
          /\ result' =
               IF ~res.ok \/ Unobserved(res.st) # {} \/ Unreached(res.st) # {} THEN Failed
               ELSE IF spool = <<>> THEN [Reading EXCEPT !.status = "empty"]
               ELSE IF ClaimsCollide(spool) THEN Failed
               ELSE [status |-> "accepted", accepted |-> 1..Len(spool), quarantined |-> {},
                     checkpoints |-> Checkpoints(res.st, {})]
  /\ pending' = <<>>
  /\ UNCHANGED <<mode, expected, spool, invalid>>
-----------------------------------------------------------------------------
BatchDone == result.status # "reading" /\ UNCHANGED batchVars
BatchNext == ReadRecord \/ FinishMapping \/ ReadBatch \/ FinishArrow \/ BatchDone
BatchSpec == BatchInit /\ [][BatchNext]_batchVars
-----------------------------------------------------------------------------
\* What is published replays from nothing: no stream has a gap that the removal
\* of repeated records or of failed streams opened, no event id of it occurs
\* anywhere else in the input, and every expected checkpoint of a published
\* stream is met by the published rows.
PublishedReplays ==
  result.status = "accepted" =>
    LET replay == Replay(expected, spool, result.accepted) IN
    /\ replay.ok
    /\ \A a \in result.accepted, r \in Range(spool) : r.id = spool[a].id /\ r.id # Unique => r.n = a
    /\ \A e \in expected :
         (\E a \in result.accepted : spool[a].stream = e.stream) => e \in replay.st.reached

\* A record the Mapping entry point refused for its stream takes its whole
\* stream along, and records that no failure and no repetition touches are kept.
QuarantineIsExact ==
  mode = "mapping" /\ result.status \in {"accepted", "empty"} =>
    LET repeated == RepeatedIds(Range(spool)) IN
    /\ \A q \in result.quarantined : spool[q].id \notin repeated =>
         \A a \in result.accepted : spool[a].stream # spool[q].stream
    /\ ApplySerial(expected, Nothing, spool).ok /\ repeated = {} /\ expected = {} => result.quarantined = {}

\* The Arrow entry point accepts exactly the inputs that pass one record at a
\* time with unique ids and every expected checkpoint met, wherever the input is
\* cut into batches and whichever way a batch is applied.
ArrowIsSerial ==
  mode = "arrow" /\ result.status \in {"accepted", "failed"} =>
    LET serial == ApplySerial(expected, Nothing, spool)
        clean == serial.ok /\ RepeatedIds(Range(spool)) = {} /\ expected \subseteq serial.st.reached
    IN IF result.status = "accepted"
       THEN clean /\ result.checkpoints = Checkpoints(serial.st, {})
       ELSE ~clean

\* The checkpoints recorded with the snapshot are those its rows replay to.
CheckpointsAreReplayed ==
  result.status = "accepted" =>
    result.checkpoints = Checkpoints(Replay(expected, spool, result.accepted).st, {})
=============================================================================
