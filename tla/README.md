# Verification of quant-data-kit

TLA+ models of the stateful parts of `quant-data-kit`, TLC configurations that
check them on small instances, and TLAPS proofs of their main theorems. Paths
below are relative to the repository root; Python paths are relative to
`src/quant_data_kit/`.

## 1. The system and its parts

`quant-data-kit` captures public crypto order books, keeps them as immutable
Raw and Normalized data, and builds research inputs from them. Almost every
guarantee it gives is about files: a file is created once, under its final
name, with its hash recorded; readers verify before they use it; a process may
die anywhere and the next one must find something it can judge. The rest is
about time: no study may use a fact before it was known.

| Part | State it keeps | Operations | Talks to | Module |
|---|---|---|---|---|
| Normalized epoch journal (`capture_v2/epoch.py`) | epoch directory (parts, PREPARED, receipts, aborts, failures), in-memory counters | `append`, `record_segment`, `finalize`, `abort_visible`, `reconcile_pending`, `recover` | storage guard, Normalized v3 | `EpochJournal` |
| Capture storage (`capture_v2/storage.py`) | reservations and device usage, open Raw segment, audit chain, archive receipts | `reserve`, `refresh`, `append`, `flush`, audit `append`, archive | Raw lake, runner | `CaptureStorage` |
| Raw data lake (`data_lake.py`) | per key: claim, staging, object, `deleting`, tombstone, quarantine; lake quota | `write_raw_bytes`, `cleanup_archived_raw_object`, `validate_raw_reference`, `load_raw_object` | file locks; Normalized readers | `RawLake` |
| Stream runner and coordinator (`capture_v2/collector.py`, `models.py`) | stream state, retry count, open segment and epoch, outcome | `run`, `_run_connection`, `_receive_frame`, `_terminal_cleanup`, coordinator `run` | everything above, transports | `CaptureRunner`, `CaptureCoordinator` |
| Synchronizers and replay (`capture_v2/synchronizers.py`, `adapters_v2/`, `l2_replay.py`) | tracked book, last sequence, emitted sequence; reconstructed book | `admit_snapshot`, `admit_update`, `admit_message`; `apply`, `replay_l2` | runner, Normalized records | `BookSync`, `L2Replay` |
| Normalized v3 (`normalized_v3.py`) | last sequences, books, quarantined streams; claim indexes, staged and published snapshots | `write_normalized_*_v3`, `load_normalized_snapshot_v3` | Raw lake, file locks | `NormalizedBatch`, `NormalizedStore` |
| Curated bars (`curated.py`, `research_inputs_v2.py`) | snapshots, `revisions/` | `curate_*`, `load_curated_snapshot`, `load_verified_curated_bars` | Normalized v3 | `Curated` |
| Artifacts, shared snapshots, revision impact (`artifacts.py`, `shared_snapshots.py`, `revision_impact.py`) | objects, pins, edges, derivations in one database; object files | `put`, `retain`, `release`, `delete`, `collect`, `publish`, `register`, `impact` | research modules | `ArtifactStore` |
| Research dataset (`research_dataset.py`) | snapshots, `catalog.json` | `build`, `update`, local update, binding of a master | providers, instrument master | `ResearchDataset` |
| Research intake (`research_intake.py`) | raw objects, versions, catalog, receipts | `import_dataset`, `resolve`, `verify`, scoped reads | files of users | `IntakeScan`, `ResearchIntake` |
| Instrument master (`instrument_master.py`) | bundles of documents and rule versions | import, load, `prefix`, resolve an interval | research dataset | `InstrumentMaster` |
| Publication time and dividends (`financial/`) | immutable evidence | build, admit, migrate from v1 | studies | `PublicationTime`, `DividendMigration` |
| Providers, derivatives, US research, CLIs | none or one-shot output files | fetch, parse, publish | external services | none |

`PROJECT.json` lists every part with its sources and what is modelled of it,
and under `hazards` what is hard to test in this code, at its line.

## 2. Plan

The order follows the data: what is captured (1 to 4), how it becomes a
Normalized snapshot (5), what is built of it (6 to 9), and the facts that
studies select by time (10).

1. `EpochJournal` and `EpochDecision`: the write-ahead protocol of one epoch,
   its startup scan, and what it promises.
2. `RawLake` and `RawKeys`: one Raw key under several writers, an archive
   cleanup, lock-free readers, a quota and crashes; the life of a key.
3. `CaptureRunner`, `StreamLife`, `CaptureCoordinator`: the stream state
   machine around segments and epochs; what it promises; the coordinator over
   such streams.
4. `CaptureStorage`: the guard, the segment writer, the audit chain and the
   archive of one stream. `BookSync`, `L2Replay`: Binance and OKX continuity
   against a feed that drops and reorders; what a selection replays.
5. `NormalizedBatch`, `NormalizedStore`: what one call accepts, and the
   publication of snapshots beside their claim indexes.
6. `Curated`: bars, their revisions and their certification.
7. `ArtifactStore`: pins, garbage collection and derivations.
8. `ResearchDataset`: incremental refresh and the catalog.
9. `IntakeScan`, `ResearchIntake`: the quality scan and the intake catalog.
10. `InstrumentMaster`, `PublicationTime`, `DividendMigration`: what was known
    when.

All of it is built. Each module keeps one type invariant or none, and as many
properties as there are hazards that a unit test would hardly reach.
Every module with more than one actor, or whose calls can fail half way, has
proofs: `BookSync`, `CaptureRunner`, `CaptureCoordinator`, `CaptureStorage`,
`EpochJournal`, `RawLake`, `NormalizedStore`, `Curated`, `ArtifactStore`,
`ResearchDataset` and `ResearchIntake`; so has `NormalizedBatch`, whose answer is a
fold over rows. The next candidates are the other modules that fold: `L2Replay`,
`Curated`, `InstrumentMaster`. Section 18 says what is proved and what stays with
the model checker.

### The runs

| Run | Module | Kind of model | Distinct question |
|---|---|---|---|
| `epoch_collector` | `EpochJournal` | protocol, liveness, refinement | is an epoch decided once, and completely |
| `lake_key` | `RawLake` | protocol, liveness, refinement | does an acknowledged object survive |
| `runner`, `coordinator` | `CaptureRunner`, `CaptureCoordinator` | protocol, liveness, refinement | does every stream end as it says |
| `capture_storage` | `CaptureStorage` | protocol | do chains, floor and receipts survive failing writes |
| `books` | `BookSync`, `L2Replay` | protocol over all short histories | is a kept book the venue's |
| `normalized_store` | `NormalizedStore` | protocol, liveness | do claims and indexes stay consistent |
| `research_dataset`, `research_intake` | the same | protocol | do versions form a line, whatever overlaps or dies |
| `facts` | `MCFacts` over seven modules | pure parts over enumerated inputs, and two small protocols | see section 15 |
| `curated_bars`, `normalized_checkpoint` | `Curated`, `NormalizedBatch` | findings | the code contradicts its tests |

## 3. EpochJournal

### What is modelled

One epoch directory on disk, the journal object of one process at a time, and
the process's life: `capture` (streaming and one terminal call), `down`, the
startup scan, `reconcile` (a replay), and the verdict `network` or `blocked`.

| Code | Model |
|---|---|
| `append`, flush limits, `_seal_part` | `AppendRecord`; `SealLink`, `SealUnlink`, `SealRemember` are the link, the unlink and the rest, so that a crash can fall between them |
| `record_segment` | `RecordSegment` |
| `finalize`, `_prepare_transaction` | `FinalizeCall`, `LineageMissing`, `AdoptPrepared`, `WritePrepared`, `PublishNothing`, `PublishNormalized`, `WriteReceipt` |
| `_record_finalize_failure` and the handler around it | `RecordFailure` |
| `abort_visible` | `AbortCall`, `WriteAbort` |
| `reconcile_pending`, `recover` | `Block`, `Skip`, `Recover`, `StartNetwork` over the predicates `WellFormed`, `Settled`, `Replayable` |

A part is represented by the cumulative number of its last row, which is what
the scan recomputes; a hash by the record it is the hash of. A write has three
outcomes: it returns, it fails before its file exists, or (`LateFaults`) it
fails after `os.link`, because `_atomic_immutable_write` still has to fsync and
re-read. `InProcessRetry` lets the caller call `finalize` and `abort_visible`
again in one process. The API allows it, and the collector does one such thing:
when a cancellation arrives while a terminal cleanup finalizes, the collector
keeps it until the cleanup is over and then aborts the epoch
(`capture_v2/collector.py:236-240`, `305`). If the finalize had failed after
publishing, the epoch ends aborted with its snapshot visible, so
`ImplementsDecision` is checked without that cancellation.

### Run `epoch_collector`

4 rows, 2 segments, parts of 2 rows, 3 faults, before or after the file is
visible, 3 crashes, the collector's discipline (one `finalize`, or aborts, per
process), `FairSpec`. It shows the refinement of `EpochDecision`, `WriteAhead`,
`CommittedIsComplete` and `PreparedCommits`.

Four rows in parts of two give a sealed part, an open one and a part that fills
exactly; two segments give references that differ between attempts; faults
with as many crashes let an attempt fail, its replay fail, and a third process
judge the result, after which files only repeat.

When a receipt became visible in a write that then fails (`os.link` done, the
directory fsync or the re-read not), `_record_finalize_failure` writes a
failure record beside it: the receipt is contradicted, although the epoch stays
committed and the startup scan skips it.

An epoch without rows is the exception to "a retryable failure is replayed":
`finalize` publishes nothing for it, and the startup scan refuses its failure
record because it has no parts (`capture_v2/epoch.py:1289`). This is why
`PreparedCommits` is about epochs with records.

Fairness (`FairSpec`): `finalize`, `abort_visible` and `_seal_part` are
synchronous, so once entered they finish; a runner whose terminal call failed
returns; the operator restarts the collector. Nothing makes a fault or a crash
stop other than the bounds.

### Proofs (`EpochJournal_proofs`)

* `TypeCorrect`: `Spec => []TypeOK`. `TypeOK` alone is not inductive: the call's
  locals must hold what the program counter says they hold (`Locals`), and
  ordinals count what is on disk (`Countable`).
* `WriteAheadHolds`: for every fault and crash. The strengthening `Announced`
  says that a call past PREPARED holds a transaction that is on disk and equals
  the journal's rows, references and parts.
* `CommittedIsCompleteHolds`: for every fault and crash, the late ones included.
  A late fault separates memory from disk, so the invariant `JournalInv` speaks of
  both: the journal object knows what the sealed parts hold (`Remembered`) or one
  linked part more is on disk than it knows (`HalfSealed`); behind a receipt nothing
  is left to seal (`Behind`); what a receipt will say is durable before it is
  written (`Drafted`) and stays true (`Backed`).
* `OneDecisionHolds`, `DecisionIsFinalHolds`: under `~LateFaults`, because of the
  contradicted receipt above. `Single` bounds each kind of terminal file.
* `JournalImplementsDecision`: each step of the journal is one of `EpochDecision`
  or changes nothing in it, under `~InProcessRetry` (`Disciplined` is what that
  gives: a call that failed is the process's last). With it, the abort after a
  failed finalize described above makes a visible snapshot aborted.

The proofs assume only `BoundsAssumption` and `NoneAssumption`. `PreparedCommits`
is liveness and is model-checked only.

## 4. RawLake and RawKeys

### What is modelled

One lake used by several processes. A key is a (source, idempotency key) pair;
its directory is the record of what `_load_raw_from_dir` checks: the content
the manifest names, the files there, and whether the payload still has its
hash. Each file operation is a step, so a crash, an I/O error or another
process can come between any two.

| Code | Model |
|---|---|
| `_lake_lock` on the key | `lock`, taken by `Acquire`, released by `Leave` and by `Crash` |
| `_ensure_raw_key_claim` | `FindClaim`, `BindKey` |
| the tombstone and `deleting=*` checks of `write_raw_bytes` | `CheckRetired` |
| `_recover_raw_staging` | `RecoverStage` (one stage per step), `RecoverDone` |
| the `object=*` loop, `_relocate_invalid_raw` | `Existing` |
| `require_collection_capacity` before staging | `CheckCapacity` |
| staging, `_publish_tree_entry`, the return | `StagePayload`, `StageManifest`, `PublishObject`, `Reply` |
| `cleanup_archived_raw_object`, `_finalize_raw_deleting` | `JudgeArchived`, `Judge`, `RenameObject`, `WriteTombstone`, `UnlinkPayload`, `UnlinkManifest`, `RemoveDeleting` |
| `validate_raw_reference`, `load_raw_object` | `FindObject`, `LoadObject`, `ReadBytes`, `FindTombstone`, `FindDeleting`, with no lock |
| the archive volume, a payload changed from outside | `CopyToArchive`, `Damage` |

Sizes count payloads, and staging does not count, as in `_tree_size`. A lake
may start with keys that an older version left half deleted in place
(`LegacyKeys`), which is the only way to have a tombstone beside an object.
`RawKeys` is the life of one key: its content is chosen once, and it goes from
absent through hot and leaving to archived; only damage takes it back, from hot
to absent.

A reader takes no lock and may report a key as unavailable while a cleanup
moves it. The variable `calm` remembers that nothing moved since a read of a
resolvable key began; `CalmReadsSucceed` is about those reads.

### Run `lake_key`

2 processes, 1 key, 2 contents, 2 receipts, a quota of 2, 1 crash, 1 I/O error,
1 damaged payload, `FairSpec`. It shows `AcknowledgedResolvable`,
`CalmReadsSucceed`, the refinement of `RawKeys` and `CleanupCompletes`.

Two processes give every pair of a writer, a cleanup and a reader; two contents
and two receipts make callers disagree; a crash leaves a stage or a cleanup
half done, which the other call meets. Keys share nothing but the quota, and
two writers that both pass its first check concern one key as well, so one key
is enough.

Fairness (`FairSpec`): a call that has begun runs on. Completing a cleanup also
needs the operator to repeat it with the receipt its tombstone names, and, as
the file lock is granted in no order, strong fairness of that call getting the
lock. Damage is excluded there: a payload changed in the deleting directory is
never unlinked.

### Proofs (`Lake_proofs`)

`LakeInvariant` proves `Spec => []LakeInv` for any number of processes, keys,
contents, receipts, crashes, errors and damaged objects. `LakeInv` adds to the
types that a call past its acquisition owns its key (`Owners`), what each call
may rely on at each label because it holds the key (`WriterOK`, `CleanerOK`),
and the legal layouts of a key (`LayoutOK`). The frame lemma `StepInv` reduces
a step of a lock holder to its own key; one lemma per action follows.
`LakeTypeCorrect`, `OneContentHolds`, `AcknowledgedResolvableHolds`,
`OneStageHolds` are its consequences, and `NeverHotAgainHolds` is an action
property that follows from it, because only a writer past `CheckRetired` or a
leftover stage could publish.

`CalmReadsSucceedHolds` adds `ReadersOK`: what a reader that nothing disturbed has
seen still holds, and where it has not looked yet the bytes still are. A writer
that holds the key may have staged or published beside it, so the lemmas
`Lasting` and `Passive` say which steps leave a resolvable key as it is.
`LakeImplementsKeys` is the refinement: a step of one process changes the life
of one key as `RawKeys` allows and leaves the others, or it changes none
(`Unmoved`). The proofs assume `LakeAssumption` and `NoneIsNoDirectory`. The
quota and `CleanupCompletes`, which is liveness, are model-checked only.

## 5. CaptureRunner, StreamLife and CaptureCoordinator

### What is modelled

`CaptureRunner` is one `CaptureStreamRunner`: its task, its state machine, its
segment writer and its epochs. `pc` names the place in `run`, `_run_connection`,
`_run_binance` / `_run_okx` or `_terminal_cleanup`. The task is cancelled only
where it awaits (`Awaits`); between two awaits only its own failures interfere,
and `Throw` says where an exception of each place goes.

| Code | Model |
|---|---|
| `CaptureStateMachine.transition`, `audit` | `Record` over the table `Recorded`: the event is durable and then the state changes, or nothing changes and the caller gets an exception; `NoTransition` where the code skips it |
| `RawSegmentWriter.append`, `flush`, `acknowledge_completed` | `Keep` and `StoreFails`, `Seal`, `Archive` |
| `_drain_segments` | `Drain`: a failure after any number of segments |
| `_new_epoch`, `_finalize_epoch` | `NewEpoch`, `Decide`, `DecideFails` |
| `_receive_frame`, `_https_frame`, `_apply_outcome` | `ReceiveFrame`, `ReceiveFails`, `Limit`, `FetchSnapshot`, `Admit` |
| the `finally` of `_run_connection` | `LeaveConnection`, `Close` |
| the failure handler of `run` | `Handle`, `Record`, `Flush`, `Drain`, `AbortEpoch`, `Backoff` |
| `_terminal_cleanup`, `_handle_cancellation`, `_pause` | `CleanUpAs`, `CleanupError`, `Finish`, `Cancel` |
| the thread behind `asyncio.to_thread` after its caller was cancelled | `WorkerAborts` |

A frame is its number in order of receipt and an epoch its number in order of
creation, which is all that losing, duplicating, reordering or mixing them
needs. The synchronizer may accept, buffer or reject any frame. A frame that
makes a segment old or full is a choice, as age and bytes are. An epoch
operation succeeds, fails, or is refused for the reason `finalize` has;
`EpochJournal` is its detail. A flush that fails has no effect here, although a
write of the Raw lake may fail late; `CaptureStorage` models that.

`StreamLife` is what the coordinator may rely on when a task ends: by
returning, by cancellation or by an exception, and what each says of PAUSED, of
the frames and of the epoch. `CaptureRunner` implements it (`ImplementsLife`).
`CaptureCoordinator` composes it for any number of streams with `run`: the
preflight, the startup scan, `asyncio.wait`, the cleanup of a runner that
raised, the first cause that stops the others, `gather`, cancellation from
outside at any time, and the run report. Tasks run only while `run` awaits.

### Runs

| Run | Instance | Shows |
|---|---|---|
| `runner` | Binance or OKX, probe or long-running, 2 messages, 2 attempts, segments of 2, 2 failures, 1 cancellation, closing may raise, `FairSpec` | `SegmentsWithinEpoch`, refinement of `StreamLife`, `ProbeEnds` |
| `coordinator` | 3 streams, all probes or all long-running, 2 cancellations, `FairSpec` | `NoTaskOutlivesRun`, `CompleteIsUndisturbed`, `FailureEndsRun` |

Two messages with segments of two give a completed and an open segment, and a
Binance bridge of snapshot and buffered update; two attempts give a reconnect
after an aborted epoch and an exhausted budget. One local failure reaches every
handler, and a second one its cleanup; one cancellation reaches every await and
the one that a terminal cleanup defers. Three streams let one raise, one be
cleaned up and one still run. Provider and kind of run are chosen in `Init`, so one run covers
their combinations. For an unbounded run `MaxMessages` bounds the model, not
the program: liveness there is about cancellation and failure only.

Fairness of the runner (`FairSpec`): connecting, sending, fetching and closing
have timeouts, file operations and threads end, and only a probe has a deadline
for its frames; a long-running feed may stay silent for ever. That a cancelled
runner ends is not promised: an exception of `connection.close()` replaces the
cancellation that is leaving the connection, and the runner retries. Fairness
of the coordinator: `run` goes on when it can; a task ends if it is a probe,
which is `ProbeEnds` of the runner, or was cancelled, which is assumed and
means that closing does not raise at that moment.

What the model also shows about the program: a probe that completed and whose
last flush or drain fails still finalizes its epoch, so that a committed epoch
may rest on frames that are not in the lake
(`capture_v2/collector.py:533`). A long-running capture commits no
epoch, because only a completed probe finalizes; every way it can end aborts.
`STOPPED_WITHOUT_CERTIFICATION` is never reported, because `_stream_succeeded`
is false for every unbounded run. A second cancellation while `run` stops its
streams leaves without a run report, but after all tasks have ended. A
cancellation that arrives while a failed attempt waits for its epoch to be
aborted (`collector.py:267`) skips the terminal cleanup, so the stream is not
paused; and a runner that raises while the others are gathered
(`collector.py:808`) gets none either and is reported as `RUNNING`.

### Proofs (`CaptureCoordinator_proofs`, `CaptureStream_proofs`)

For the runner, any limits and any number of failures and cancellations:

* `SegmentsWithinEpochHolds`. The property compares all segments of all epochs, so
  `FramesInv` says of every frame, wherever it is (open, completed, in the
  journal, in a decided epoch), in which epoch it was received (`Tagged`), and of
  every label at which the task may leave an epoch that no frame is left over
  (`Placed`: `Moded`, and `Clear` between epochs). The journal of the running epoch
  holds only its own segments (`InEpoch`).
* `RunnerImplementsLife`: each step of the runner is a step of `StreamLife` or
  hidden. `ReportInv` says when an outcome, a pause and a settled epoch can be
  read off the place the task is at; one lemma per way to end follows
  (`HiddenInside`, `AskIsAsk`, `EndIsEnd`).

For the coordinator, any set of streams, bounded or not, and any number of cancellations:
`TypeCorrect`; `NothingLeftRunning` from `Waiting`, which says for each place of
`run` which tasks may still run (while it waits, only those it waits for);
`CompleteRunsUndisturbed` and `HealthyRunsCancelNobody` from `Judged`, which
says that only a returned task shows success, that every cause is a stream that
ended without it and stays so, and that streams are asked to stop only after a
cause or a cancellation. `EndedStays` is the frame lemma for the steps of the
streams. The proofs assume `CoordinatorAssumption` and `RunnerAssumption`.
`ProbeEnds` and `FailureEndsRun` are liveness and are model-checked only.

## 6. BookSync and L2Replay

### What is modelled

`BookSync` is one connection of a stream: the synchronizer with its tracked
book, the adapter that gives every level a sequence number, the records of the
epoch and the publication of the epoch. The venue is part of the model: it has
a book after each update number, every history of which is an initial state,
and its messages carry the new quantity of each level that changed in a range
of numbers. The connection delivers any true message at any time, repeatedly or
never, so that losses, repetitions, overlaps, stale snapshots and reorderings
all occur. Messages that are not true to the venue are not modelled.

| Code | Model |
|---|---|
| `_TrackedBook.snapshot`, `filter_delta`, `commit` | `RefuseSnapshot` / `HttpSnapshot` / `OkxSnapshot`, `Kept`, `AdmitUpdate` |
| `BinanceBookSynchronizer.admit_snapshot`, `admit_update` | `HttpSnapshot`, `BinanceUpdate` over `Bridges`, `FollowsSpot`, `FollowsChain` |
| the range check of the Binance adapter | `InRange` |
| `OKXBookSynchronizer.admit_message` | `OkxSnapshot`, `OkxUpdate`, `Heartbeat`, `MaintenanceReset` |
| `BookSequenceNormalizer` | `SnapshotAdvances`, `EmitSnapshot`, `DeltaContinues`, `EmitDelta` |
| any other `ResyncRequired`, and the next connection | `Malformed`, `Refuse`, `Reconnect` |
| `_publish_epoch_parts` | `PublishEpoch`, over `Publish` of `L2Replay` |

`L2Replay` holds the pure part: the reconstructor (`ApplySnapshot`,
`ApplyDelta`, `ApplyGroup`, `ApplyUniform`), the cutting of an epoch's records
into batches (`Batches`), their joining (`AtomicBatches`), the validation of a
batch (`ValidateBatch`) and `replay_l2` (`Replay`). A level is a side, a price
and a quantity, 0 meaning a delete. `Factor` is `BOOK_SEQUENCE_FACTOR`, of
which only `Factor > 2 * Cardinality(Prices)` matters: no update runs out of
positions. Left out: symbol mappings, price and quantity scales, session
identities, checkpoint hashes, and event times, which are taken never to go
back.

### Run `books`

All feeds, 3 update numbers, 3 prices, quantity 0 or 1, batches of 1 to 3 rows.
It shows `BookIsVenueBook`, `PublishedIsTracked` and `HealthyFeedIsAdmitted`.

Three prices are the fewest over which a book can move through itself; three
update numbers give messages of one to three levels, a snapshot inside a
message, two messages after a snapshot, and a level that is added and deleted
within one message, whose delete is then a delete of an absent level. Batches
of one row cut every update, larger ones cut between and inside updates.

`PublishedIsTracked` also shows that the uniform and the serial fallback of
`_validate_record_batch` are never needed for an epoch's deltas: joined batches
consist of whole updates. The fallbacks are modelled because a batch that is
not joined reaches them.

Two observations: an update that begins exactly at `lastUpdateId + 1` is refused
before the bridge, and a perpetual's update is held to the range rule of spot
as well as to its `pu` chain (`adapters_v2/binance.py:131`, while
`docs/m7-data-performance.md:58` asks only for the chain). Both only cost a
reconnect. A third: a research selection replays serially
(`research_inputs_v2.py:739`) what the epoch validated by groups, so that an
OKX message that moves the book through itself is published and then refused.

### Proofs (`CaptureStream_proofs`)

`TrackedBookIsVenueBook` and `HealthyFeedIsAdmittedHolds`, for any prices,
quantities, feeds and number of updates. The invariant `BookInv` adds to
`BookIsVenueBook` that the venue does not change (`VenueOK`) and what the
synchronizer knows of its place (`Place`: the adapter's number is the
synchronizer's, before the bridge the last number is the snapshot's).
`ChangesReachTheEnd` is the reason overlaps are harmless: absolute quantities
applied to any book in the message's range give its last book. `FewLevels`
bounds the levels of a message by the prices, so that positions suffice.

`PublishedIsTrackedHolds`, for any number of records and any size of a batch.
The records of an epoch have a trace (`Traced`): the state of a serial
reconstructor after each of them, in which a book may be crossed only inside an
update. The invariant `EpochTraced` says that while a connection lives there is
a trace that ends at the synchronizer's book and its last position, and that
this position lies below those of every later update (`Reached`: this is why
the factor must exceed the number of levels of a message). A snapshot
(`TrackedSnapshot`) and an admitted update (`TrackedUpdate`) prolong the trace;
the second is where the filter of absent deletes (`AbsentLevels`) and the rule
that an admitted book is not crossed are needed, and where the order of the
levels of one message is found not to matter (`LevelsAreSet`). The rest is
about data alone: the batches that `AtomicBatches` hands on are pieces of the
records that end where an update ends, whatever the cuts, since it holds back
the last group until a batch, a snapshot or the end of the epoch shows it to be
whole; and a piece applied group by group, or by the uniform path, goes from
one point of the trace to another. `PublishIsTrace` puts them together. The
folds are taken apart with `FoldLemmas` (section 8).

The proofs assume `BookAssumption` and `SyncAssumption`.

## 7. CaptureStorage

### What is modelled

One stream's use of its volumes: the guard's account of the hot volume and of
the archive, the segment writer, the audit chain, the archive controller, and
the thread that finalizes an epoch beside the event loop. Everything has a size
in units; quota and free-space floor are one limit.

| Code | Model |
|---|---|
| `require_hot_capacity`, `require_archive_capacity`, `_refresh_*` | `Bases`, `Granted`, `Grants`, `Refusals`, `GrantHot`, `RefuseHot`: a probe by count or, at any moment, by age |
| `preflight` of the archive, `_same_volumes` | `Preflight`, `PreflightProbe`, `SameVolumes` |
| `RawSegmentWriter.append`, `flush` | `NextFrame`, `AppendFrame`, `Flush` with `Completed` |
| `DurableAuditStore.append` | `AuditEvent`, `Publishable` |
| `archive_segment` | `StartArchive`, `CopyPart`, `Restore`, `Receipt` |
| the finalizing thread | `ThreadReserves`, `ThreadWrites` |
| somebody exchanges a volume | `Swap` |

A write has three `Outcomes`: it returns, fails without its file, or fails with
its file on disk. Left out: how often age asks for a probe, the configured
reserve of the archive, hashes and the checks of closed fields.

### Run `capture_storage`

Room for 7 units on the hot volume and 6 on the archive, a probe after 7
requests or by age at any, segments of 2 frames, 3 frames, 2 audit events, 1 failing write, 1
exchange of a volume between one on its own device and one on the hot one. It
shows `HotWithinFloor`, `ChainsUnbroken` and `ReceiptIsBacked`.

Three frames in segments of two give a full and an open segment; the room
suffices for one of them, its audit events and its receipt, and not for
everything, so that the guard grants and refuses in all phases. One failure is
repeated by the next call, which is the case that breaks a chain.

The floor is not exact, and the invariant says by how much it may be missed:
a probe forgets what was reserved and not written yet (the frames in memory,
the frame that waits for their rotation, and the write of the thread), archive
receipts are written to the hot volume without a reservation, and a flush that
fails after its object is visible leaves a file that its repetition does not
adopt. The bound is tight on this instance: with one unit less TLC finds a
violation. No fairness: nothing here waits for another.

### Proofs (`Stores_proofs`)

For any volumes, room, probe interval, rotation and number of faults:

* `ChainsUnbrokenHolds`. `Consistent` speaks of the segments, the files and the
  frames in memory together, so that both outcomes of a flush (`FileLeft`,
  `SegmentCompleted`) and the arrival of a frame (`FrameKept`) keep it;
  concatenation is reasoned about through the lemmas `JoinExists`, `JoinsAgree`
  and `FlattenAppend`. `AuditInv` is its counterpart for audit events.
* `ReceiptIsBackedHolds`. `ArchiveInv` says what lies on the verified volume at
  each label of the copy, which survives every exchange of a volume because
  identities are read again after the write that relies on them.
* `HotWithinFloorHolds`. `Debt` is the inductive form: all that is on the volume
  or will be (hot, granted to the thread, in memory, waiting) is covered by what
  the guard accounts for and the terms of the bound. A probe replaces what the
  guard accounts for by what is written, which forgets no more than those terms
  (`DebtAfterProbe`); each other step pays for what it makes or moves a term
  (`DebtMoves`), whether its flush is completed, left beside the chain, or
  adopted later (`LeftWith`, `LeftAdopted`). The frame that waits for its rotation
  was missing from the bound until the proof asked for it.

The proofs assume `StorageAssumption`. Which age makes a probe due is not
modelled, so they hold for every one.

## 8. NormalizedBatch and NormalizedStore

### What is modelled

`NormalizedBatch` is one call of `write_normalized_events_v3` (Mappings, one
record at a time) or `write_normalized_record_batches_v3` (Arrow). The former
quarantines a failing stream and removes repeated event ids in rounds, each of
which checks the survivors again (`FinishMapping`, `Revalidate`,
`RebuildAfterExclusions`); the latter joins the updates that a batch cuts
(`Coalesce`), applies whole groups or uniform batches, falls back to single
records, and refuses everything when anything fails (`ReadBatch`,
`FinishArrow`). A book is the sequence of rows that made it, which is what a
state hash tells apart; prices, schemas and the partition files are not
modelled.

`NormalizedStore` is the publication: staging with its owner lock, the
lake-wide commit lock, the comparison of the claims, publishing the index and
then the snapshot, verifying without the lock; and the load that rebuilds a
lost index with a policy.

| Code | Model |
|---|---|
| `_streaming_stage` with its owner lock | `StartWrite`, `Retire`, `Abandoned` |
| `_finalize_strict_batch_snapshot` under the commit lock | `EnterCommit`, `LoadExisting`, `CheckHistory`, `JudgeClaims`, `PublishSnapshot`, `PublishSnapshotFails`, `Verify` |
| `_assert_lake_wide_claims` | `ClaimConflict` over `Historical` |
| `load_normalized_snapshot_v3` | `StartLoad`, `Load` |
| `_publish_or_validate_claim_index` | `LockIndex`, `IndexFound`, `NeedsPolicy`, `MoveAside`, `PublishIndex`, `PublishIndexFails` |

Shards of an index are one index that is absent, partial or whole. Integrity of
a partition's bytes is not modelled.

### Runs

`normalized_store`: 2 processes, a batch in the old layout, two batches that
conflict with each other, 3 calls, 2 crashes, 1 failing rename or refused
capacity, 2 losses of index files, `FairSpec`. It shows `NoConflictingClaims`,
`SnapshotHasIndex`, `RecoverableLoad` and `CallsEnd`. Two processes overlap in
every order; a third call meets what two crashes left; two losses hit an index
before and after it was rebuilt. Fairness: a call that has begun runs on; locks
are granted in no order, and what keeps a call waiting is another call, of
which there are finitely many. `NormalizedBatch` is checked in `facts`, with
every input of up to 4 rows of one book and one trade stream, and in
`normalized_checkpoint`: 4 rows are a snapshot, an update, and two records that
may repeat an id or be broken, in every order and cut.

Observations: republishing a snapshot whose index was lost is refused even
though the call has a policy (`normalized_v3.py:2562`): only a load repairs.
A refused capacity after the index is in place leaves the index, and the next
call reuses it. The count of failed attempts of a stream is never reset.

### Proofs (`NormalizedStore_proofs`)

`NoConflictingClaimsHolds` and `SnapshotHasIndexHolds`, for any number of
processes, batches, crashes, faults and losses. Neither is inductive: that a new
snapshot conflicts with no published one rests on what its commit did many
steps ago. `StoreInv` adds that one process commits at a time (`OneCommits`),
that a commit knows what is published and that its own batch is not
(`KnowsHistory`), that it asks for the index of its own batch only after it has
compared all claims (`JudgedAgree`, which still holds when it publishes because
nobody else commits), and that an index is whole or known to have lost files
(`IndexesKept`). The proofs assume `StoreAssumption`; that includes that the
batches of the old layout do not conflict with each other and that no batch
conflicts with itself, because `write_normalized_events_v3` has removed repeated ids by
then. `RecoverableLoadHolds` adds `LoadsAreOpen`: a load under way has no outcome yet,
so that an error is that of its last step, and with a policy only a fault makes
one there. `CallsEnd` is liveness and is model-checked only.

`WhatIsPublishedReplays`, `WhatIsQuarantinedIsExact` and `ArrowMatchesOneByOne` are
about `NormalizedBatch`, for any rows, streams, expected checkpoints, number of rows
and cuts into batches. `BatchInv` relates what a call keeps while it reads to a replay:
`MappingTracks` says that the rows staged so far replay to the state of the call and
that a stream which is not invalid has all of its rows among them; `ArrowTracks` says
that what was applied, with what is held back because its update may go on
(`Waits`), is what the rows give one by one. Three arguments carry the steps.

* Streams do not disturb each other (`OtherStreams`, `OwnStream`): what a row does
  depends on the state of its own stream only, so that leaving out whole streams
  leaves the others as they were (`SurvivorsReplay`). Each round of the exclusion of
  repeated ids is then a replay of what survives (`FinishKeeps`).
* A batch that is applied as a whole, or update by update, gives what its rows give one
  by one, up to what a failed call leaves behind (`Agree`); the deltas of one
  update are chained, and no checkpoint is expected inside of it.
* Folding over what `Coalesce` hands out is folding over the rows, wherever they
  were cut (`Together`, `Joined`).

The folds are taken apart by `FoldLemmas`: a fold is the run of its step (`FoldIsRun`),
a run is the end of a chain of values (`ChainIsRun`), and one more element is one more
step (`RunAppend`). Its inductions are over sets of numbers and of sequences
(`NatSetInduction`, `SeqSetInduction`), which need no operator as a parameter. The
proofs assume `BatchAssumption`.

## 9. ResearchDataset

### What is modelled

The provider, whose past changes at any moment, and every call: `build`,
`update` live or from local files, and binding an instrument master. A call
reads prices and adjusted prices, then actions, merges them into the snapshot
it started from (`Merged`, `FirstObserved`, `ReceiptsAdmitted`), checks the
result (`Consistent`, `Valid`), publishes it by content and then reads and
replaces `catalog.json` in two steps, as the code does without a lock
(`ReadCatalog`, `WriteCatalog`). A price is the number of its revision, an
adjusted price the revision and the actions it was computed from. One symbol.
Columns, calendars and the identity of the request are left out.

### Run `research_dataset`

2 callers, 2 days, 2 captures, an overlap of 1 day, 1 change of the past, with
or without an action before it, 3 calls, any of which may die at each step. It shows `HoldsNewestObservation`,
`ReceiptsAreFirst` and `LineageHolds`. Two days with an overlap of one give a
day that is read again and one that is not; the change is a corrected bar, or an
action that is declared, corrected or withdrawn, before, between or after the
reads of a call; three calls give two overlapping updates of a snapshot. Two
changes with three calls were found to hold as well (4 million states), which
takes too long to repeat each time.

Observations. `catalog.json` is read, extended and replaced without a lock
(`research_dataset.py:991-1008`): of two overlapping updates, the one that
writes last decides what is current and its list may lack the other's
snapshot, while `docs/RESEARCH_DATASETS.md:44` has the catalog retain "every
prior" snapshot. The snapshot itself stays on disk, and nothing here depends on
its being listed, so `LineageHolds` is about what is on disk and about what the
catalog selects. Live rows are stamped with the capture taken before the fetch.
A local file may declare receipts before the capture of the parent. An action
that is withdrawn and declared again has a new receipt. A bound master is
carried on only while it covers the end.

### Proofs (`Lake_proofs`)

`LineageAlwaysHolds`, for any number of callers, days, calls and deaths.
`DatasetInv` says for each label of a call that what it was asked, has read or
is about to publish continues a snapshot on disk (`CallSound`, `Continues`); it
survives the steps of the other callers, which take no lock either, because
`Publish` only appends.

`HoldsNewestObservationHolds` and `ReceiptsAreFirstHolds` follow a line of
snapshots of any length. `Lineage` is the least set that holds a snapshot and the
parents of its members, and the invariant `FramesInv` relates a snapshot to its
parent only: each one was grown from its parent (`Grown`: `BarsGrown`,
`ActionsGrown`, `AdjustedSound`), and so is what a call is about to publish. That
what holds between a snapshot and its parent holds along the whole line follows
by least counterexample (`LeastNat`). The proofs assume `DatasetAssumption`.

## 10. IntakeScan and ResearchIntake

### What is modelled

`IntakeScan` is the quality scan and the admission of a read: conversion of the
cells, the ledger of issues (`EmptyIssues`, `ConversionIssues`, `TimeIssues`,
`MissingIssues`, `DuplicateIssues`, `PriceIssues`, `OhlcIssues`), the status,
and `ReadScope` with its conditions by purpose (`DailyIssues`, `HistoryIssues`,
`CoverageIssues`, `UnitIssues`). An instant is an integer on one axis. CSV and
Parquet decoding, encodings, and profiles' texts are left out.

`ResearchIntake` is the catalog: `Begin`, `CopyRaw`, `Judge`, `Publish`, `List`,
`Succeed`, the receipt that each step replaces, `Fail`, `Leave`, and readers
(`Resolve`, `Read`) without the lock. A source stands for its bytes.

### Runs

`research_intake`: 2 callers, 2 datasets, 3 imports of a clean, a doubtful and
a too large table with or without a parent, 1 I/O error, 1 crash. It shows
`OneLineOfVersions`, `ReceiptsAreTrue` and `ReadersAreServed`. Three imports
give a parent, its refresh and a refresh that comes too late. `IntakeScan` is
checked in `facts` over all tables of up to two rows.

Observations. A receipt may say `failed` although its version is listed and
latest, when the error comes after the catalog was replaced
(`docs/RESEARCH_INTAKE.md:115` says that a failed refresh does not replace the
old version); the invariant therefore asks that what a receipt names is true,
not that failure means absence. A row whose date carries a time outside the
asked day does not count as a row that may lie inside it.

### Proofs (`ResearchIntake_proofs`)

`OneLineOfVersionsHolds` and `ReceiptsAreTrueHolds`, for any number of callers,
datasets, sources, imports, errors and deaths. `IntakeInv` says that the process
between `Enter` and `Succeed` holds the lock, that what it has read of the
catalog is still there, so that the version it publishes has the latest one as
its parent (`OwnVersion`), and that its pending receipt is its own
(`OwnReceipt`, `ReceiptsDiffer`). A listed version without a receipt that names
it has a pending one which only its own import can still complete, or nobody
(`Covers`): without that, the failing receipt of another import with the same
bytes could have been the only one. That the last ready version of a list has a
position at all (`MaxInside`) rests on the well-foundedness of the naturals.

`ReadersAreServedHolds` adds `ReadersInv`: each version on disk carries the verdict of
the scan on its own table (`Judged`), and a reader holds a version that is on disk
under its dataset and was answered from it (`ReaderSound`); of the scan it uses that a ready verdict delivers every
row to a reader without conditions (`Delivered`). The proofs assume
`IntakeAssumption`, whose last conjunct says that a refusal is not a table.

`AdmittedReadsAreCertain` is about the scan alone: for any contract, table and query,
and however the wrong cells of the table are corrected, the read returns the same rows
or is refused. It is what the run property `ReadsAreCertain` asks of each case of `facts`.
Every wrong cell is in the ledger (`WrongIsEntered`); a row that may lie inside the
query and was admitted has none in a column that decides (`Deciding`, `AdmittedIsRight`);
so a correction brings no row into the scope and takes none out (`ScopeIsCertain`).

## 11. Curated

### What is modelled

The bars of a call: fixed time (`SessionBars`), rolled up to sessions and
trading days (`RollupBars`), or by trades and volume (`EventBars`, with its
sequence evidence); the order in which rows are written and read; the snapshot
with its revision registry (`Stage`, `CheckRevision`, `Publish`,
`RegisterRevision`, `Die`, `LoseRevision`, `Recover`); and the certification of
`load_verified_curated_bars` (`Certified`, `BarsRecompute`). An instant is an
integer, two to a second, so that the order of times and the order of their
texts can differ. Amounts other than counts and volumes, reports on coverage,
and the binding to the Normalized source are left out.

`OneSnapshotPerRevisionHolds` (`Stores_proofs`) proves that a revision names one
snapshot, for any writers, calls, deaths and lost files: `CuratedInv` says that a
revision is staged by one writer at a time, whose lock it is (`OneStage`), that a
writer past the check of its revision may rely on what it found until it
publishes (`CheckedRevisions`), and that the registry knows a revision under its
own name (`RegistryNames`). It assumes
`CuratedAssumption`. The certification folds over trades and is model-checked
only. The module is checked in `facts`: calls of every kind over sets of trades of up to two
sessions, two writers, two revisions, and one death or lost registry file.

Observations. The rows of a file are sorted by the text of their times
(`curated.py:721`) and required in the order of the times
(`curated.py:1072`), so that a snapshot of event bars at a whole second and in
a fraction of it can be published and never loads; from then on
`_recover_missing_revision` (`curated.py:570`), which reads all snapshots,
refuses each new revision. Two full bars at one instant are refused, and so is
a first trade at the open. Bars of fixed time that cross the close are
published and not certified. Nothing checks that the trades of session and
event bars lie in the session.

## 12. ArtifactStore

### What is modelled

The object files, the tables (objects, pins, edges, derivations) and the one
call that holds the store's lock. A call changes files one by one, before its
transaction commits (`WriteFile`, `CommitWritten`; `Delete`, `CollectObject`,
`CollectFile`, `CommitDeleted`), and `RollBack` is a failure or a death at any
of these places. `PublishSnapshot` is `shared_snapshots.py`, `Register`,
`Affected` and `Impact` are `revision_impact.py`. An object is named by its
content and has any age, so that grace periods neither protect nor expose it.
Bit rot, the incremental reading of a Parquet snapshot, the comparison of two
JSON documents and the command line are left out.

It is checked in `facts` with an input, a report, its snapshot, and two
derivations that form a cycle if both were admitted, and one owner:
`PinnedIsReadable` and `ProvenanceIsExact`.

Observations. `collect` and `delete` unlink before the commit: a call that dies
there leaves records whose files are gone, where `docs/SHARED_ARTIFACTS.md:106`
prefers leaking space. They concern unpinned objects only, which is what the
theorem says; but when such a record is a derivation, every `register` and
`impact` fails until the next `collect`, because all derivations are loaded.
`INSERT OR IGNORE` keeps the first `created`, so that publishing an object
again gives it no new grace. The cycle check ignores membership in snapshots,
and the edge from a derivation to its output makes the affected artifacts
include derivations that merely share an output.

### Proofs (`Stores_proofs`)

`PinnedStaysReadable`: `ArtifactSpec => []PinnedIsReadable`, for any objects,
owners, snapshots and derivations. The invariant says that there is one set of
objects, registered, on disk and closed under edges, that holds all pins; that
edges are what an object's content refers to (`EdgesAreRefs`); and what a call
under way has in hand (`WorkFollows`): the files of a write are a subset of
what it will register, and a deletion spares that set. The proofs assume
`ArtifactAssumption`.

`ProvenanceIsExactHolds`: what the code finds round by round is what depends on
the revised input, and no admitted derivations feed each other. `Reached` makes
rounds over `Sources` or `Dependents`; that the rounds exist and that as many as
there are objects reach the least closed set is proved by least counterexample
(`RoundsExist`, `RoundsAreSets`, `ReachedIsLeast`, over `LeastNat`). `GraphInv`
keeps the admitted derivations free of loops (`RegisteredWithoutLoop`) while
calls are rolled back or objects deleted under them.

## 13. InstrumentMaster

The documents and rows of a declaration with all conditions of admission, the
bundle of files that is published, its loading (`Imported`, `Loaded`), the
prefix that was known at a cutoff (`Prefix`), and resolving an interval of days
(`ResolvedView`). Fields are reduced to one or two representatives of each
kind, texts of times and decimals to numbers. Checked in `facts` over pairs of
captures of one history that differ in what became known, and over masters with
one flaw each: a bundle loads as it was imported or not at all, two captures
have the same prefix if and only if they knew the same, and a resolved interval
rests on rows in force and documents known.

Observation: a document file that is named `catalog.csv` at the root of the
source overwrites the copied catalogue (`instrument_master.py:686-688`); the
bundle is published and never loads.

## 14. PublicationTime and DividendMigration

`PublicationTime` derives, from what a source shows and what is known of its
zone and of its rule of display, the moment from which a study may use the
information: zones with repeated and skipped local times (`Candidates`,
`ResolveLocal`), rounding and truncation to minutes (`MinuteInterval`), dates
(`DateBounds`), the order of the reasons for a downgrade, the stored timing with
its validation, and the boundary that a study selects by (`Boundary`,
`Admits`). A zone is the function of its offsets over bounded instants; the
texts of a claim are left out. That a revision is not acquired before its
capture is a condition of the input.

`DividendMigration` has the lifecycles of both schemas and the migration
between them. Both schemas' conditions on phases are one operator
(`LifecycleFits`) with the moment of availability as parameter, because the
four phases repeat them in both files. Left out: texts, kinds of amounts, the
approximate fixing that only the second schema has, the receipts of a
migration.

Checked in `facts`: all claims of each precision over a clock that leaps
forward, falls back or has no change, with the doubts that downgrade them; and
all dividends of up to three phases, with exchanged, repeated and altered
bindings.

Observations. A migration dated before one of the source's captures is refused,
though nothing else is wrong. The zone of a fixing that names an instant is
dropped from the terms of the second schema and survives in the embedded
source only.

## 15. The run `facts`

`MCFacts` extends the modules without interaction and chooses in `Init` one
case: a table and a read (`IntakeScan`), a claim (`PublicationTime`), a dividend
with a migration (`DividendMigration`), a pair of captures
(`InstrumentMaster`), two calls of curated bars (`Curated`), a batch
(`NormalizedBatch`) or the artifact store (`ArtifactStore`). Only the last
three go on from there. One run for them keeps the bounded inputs side by side;
each of its properties concerns one module (`PublicationIsNeverEarly`: two).
Zones are over 29 instants, a minute has 4, a day 8, which lets a change of
offset fall inside a minute, on its bound and inside a day.

## 16. Findings

* `curated_bars`, `CertifiedBarsOpenAndClose`: `build_session_bars` orders the
  trades of a bar by the text of their times (`curated.py:209`), which puts a
  whole second after its fractions; open or close of a certified bar is then
  the price of another trade. `tests/test_curated.py:100` expects the first.
* `normalized_checkpoint`, `CheckpointsAreReplayed`: after repeated ids at the
  end of a book stream were removed, the snapshot records the checkpoints of
  the rows before the removal (`normalized_v3.py:2899`), while
  `tests/test_normalized_v3_failures.py:800` expects those of the replay.

## 17. Not modelled

* Pure I/O and parsing: market-data providers, transports, derivatives and US
  research inputs, command lines, the Parquet cache, point-in-time joins of
  pandas tables, schema validation of single values.
* The legacy normalized layer and the DuckDB catalog of `data_lake.py`.
* Liveness of imports, datasets and artifacts: their calls are synchronous and
  wait only for one lock, so that nothing is to be said beyond the lock's own
  fairness.
* The content of hashes and fingerprints: a hash is what it is the hash of, so
  collisions do not occur and exchanged content always shows.
* Bit rot, except where the code answers it (a Raw payload, a claim index, a
  document of a master).
* Large inputs: a property that depends on more than a handful of rows, levels
  or versions is argued in the section of its module, not checked.

## 18. What is proved, and what is not

Of the 40 properties of the passing runs, 31 are theorems, for every value of
the constants; the sections above give the arguments and `PROJECT.json` the list. What
another, `ReadsAreCertain`, asks of each of its cases is the theorem
`AdmittedReadsAreCertain`.
The proofs use no assumption but the `ASSUME`s of the modules, which TLC evaluates
in the runs, and the two conditions named in section 3 (`~LateFaults`,
`~InProcessRetry`).

Two kinds of properties stay with the model checker.

* Liveness under fairness: `ProbeEnds`, `FailureEndsRun`, `PreparedCommits`,
  `CleanupCompletes`, `CallsEnd`. The prover does not reason about `ENABLED`.
* Properties of what is computed from trades or documents of any number and has no
  proof yet: `CertifiedBarsPartitionTrades` and `MasterIsFaithful`. Each folds over
  data of its own, so that each needs what `NormalizedBatch` (section 8) and the
  epochs (section 6) needed: its folds taken apart with `FoldLemmas`, and an
  invariant that relates them. `PublicationIsNeverEarly` holds of the real
  zones and not of arbitrary ones: it would need hypotheses on the order of the
  offsets and midnights that `PublicationTime` takes as a table. They are checked
  over all inputs within the bounds of section 15.
