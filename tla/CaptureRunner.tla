---------------------------- MODULE CaptureRunner ----------------------------
(***************************************************************************)
(* CaptureStreamRunner of capture_v2/collector.py: one market stream, from *)
(* its first connection to its terminal cleanup, with the state machine of *)
(* capture_v2/models.py and the Raw segment writer of capture_v2/storage.py.*)
(*                                                                         *)
(* The runner is one asyncio task.  A cancellation reaches it only where   *)
(* it awaits (Awaits); everything between two awaits runs to its end, and  *)
(* an exception goes where Throw says.  A Raw frame is its number in order *)
(* of receipt; an epoch is its number in order of creation.                *)
(***************************************************************************)
EXTENDS Naturals, Sequences, FiniteSets

CONSTANTS
  Providers,     \* the providers a stream may have: "binance", "okx"
  MaxMessages,   \* maximum_websocket_messages; of an unbounded run, a bound
  MaxAttempts,   \* retry.max_attempts
  SegmentSize,   \* rotation.max_messages
  CloseMayFail,  \* whether closing the connection may raise
  MaxFaults,     \* bound: local failures
  MaxCancels,    \* bound: cancellations of the task
  None

\* An open epoch: the records appended, the Raw segments named, and whether an
\* operation on it failed.
Journals == [records : SUBSET Nat, segments : SUBSET (SUBSET Nat), broken : BOOLEAN]

ASSUME RunnerAssumption ==
  /\ None \notin Journals
  /\ Providers \subseteq {"binance", "okx"} /\ CloseMayFail \in BOOLEAN
  /\ MaxMessages \in Nat \ {0} /\ MaxAttempts \in Nat \ {0} /\ SegmentSize \in Nat \ {0}
  /\ MaxFaults \in Nat /\ MaxCancels \in Nat

VARIABLES
  provider,   \* the provider of the stream
  bounded,    \* whether run was called with maximum_websocket_messages
  pc,         \* where the task is
  exc,        \* what leaves the connection: nothing, a failure, a cancellation
  mode,       \* which terminal cleanup runs
  deferred,   \* deferred_cancellation of the terminal cleanup
  attempts,   \* failed_attempts
  st,         \* state.state, the last state in the durable audit chain
  outcome,    \* _outcome
  errors,     \* whether _errors is not empty
  messages,   \* _websocket_messages
  live,       \* synchronizer.live
  queue,      \* frames received and not yet admitted by the synchronizer
  received,   \* for each Raw frame the epoch it was received in
  open,       \* frames of the open segment, in memory
  completed,  \* segments in the lake, not yet archived and acknowledged
  archived,   \* segments archived and acknowledged, in order
  journal,    \* _journal: the open epoch, or None
  closed,     \* the epochs with a decision, in order
  asked,      \* a cancellation was requested and not yet delivered
  cancels,    \* cancellations requested
  worker,     \* whether a thread still aborts an epoch nobody waits for
  faults      \* local failures so far

input    == <<provider, bounded>>
control  == <<pc, exc, mode, deferred, attempts>>
report   == <<outcome, errors>>
raw      == <<received, open, completed, archived>>
epochs   == <<journal, closed>>
incoming == <<messages, live, queue>>
env      == <<asked, cancels, worker, faults>>
vars     == <<input, control, st, report, incoming, raw, epochs, env>>

\* The epoch in progress is the one after those closed.
Epoch == Len(closed) + 1

\* The number of the next Raw frame.
NewFrame == Len(received) + 1

-----------------------------------------------------------------------------
(* Where the task can be. *)

\* Awaiting the network, a timer or a worker thread.
Receiving == {"first", "sync", "live"}
Awaits == Receiving \cup {"connect", "subscribe", "fetch", "close", "abort", "backoff", "finish"}

\* In _run_connection, where the connection is closed before anything leaves.
Connected ==
  Receiving \cup {"opened", "drainOpened", "newEpoch", "subscribe", "noted", "request",
                  "drainRequest", "fetch", "admit", "drainSync", "goLive", "drainLive"}

\* In run's failure handler, before the retry is scheduled.
Handling == {"reported", "resync", "flush", "drain", "abort"}

\* In _terminal_cleanup.
Cleaning == {"pause", "flushEnd", "drainEnd", "finish"}

\* The task is over: returned, cancelled, left by an exception, or cleaned up by
\* the coordinator after such an exception.
Ended == {"returned", "cancelled", "raised", "cleaned"}

Reconnecting == {"reconnect", "drainReconnect", "connect"}

(* A runner that the coordinator has just created. *)
Init ==
  /\ provider \in Providers /\ bounded \in BOOLEAN
  /\ pc = "reconnect" /\ exc = "none" /\ mode = "none" /\ deferred = FALSE /\ attempts = 0
  /\ st = "CONNECTING" /\ outcome = "RUNNING" /\ errors = FALSE
  /\ messages = 0 /\ live = FALSE /\ queue = <<>>
  /\ received = <<>> /\ open = {} /\ completed = <<>> /\ archived = <<>>
  /\ journal = None /\ closed = <<>>
  /\ asked = FALSE /\ cancels = 0 /\ worker = FALSE /\ faults = 0

-----------------------------------------------------------------------------
(* Where control goes. *)

Ok == faults' = faults

Fault == faults < MaxFaults /\ faults' = faults + 1

GoTo(p) == pc' = p /\ UNCHANGED <<exc, mode, attempts, report>>

\* Mutation of Handle: attempts are not counted.
HandleUncounted ==
  /\ pc' = "reported" /\ exc' = "none"
  /\ errors' = TRUE
  /\ UNCHANGED <<attempts, mode, outcome>>

\* run's failure handler: one more failed attempt.
Handle ==
  /\ pc' = "reported" /\ exc' = "none"
  /\ attempts' = attempts + 1
  /\ errors' = TRUE
  /\ UNCHANGED <<mode, outcome>>

\* The terminal cleanup of a run that gives up, that was cancelled, or whose
\* runner raised.
CleanUpAs(m, o) ==
  /\ pc' = "pause" /\ exc' = "none"
  /\ mode' = m /\ outcome' = o /\ errors' = TRUE
  /\ UNCHANGED attempts

GiveUp == CleanUpAs("failed", "FAILED")

\* _handle_cancellation.
HandleCancellation == CleanUpAs("cancelled", "CANCELLED")

LeaveConnection(e) ==
  /\ pc' = "close" /\ exc' = e
  /\ UNCHANGED <<mode, attempts, report>>

\* Mutation of CleanupError: the error is only logged.
CleanupErrorLogged ==
  /\ pc' = IF pc = "pause" THEN "flushEnd" ELSE "finish"
  /\ UNCHANGED <<exc, mode, attempts, report>>

\* A terminal cleanup remembers an error and goes on with its next part.
CleanupError ==
  /\ pc' = IF pc = "pause" THEN "flushEnd" ELSE "finish"
  /\ errors' = TRUE /\ outcome' = "FAILED"
  /\ UNCHANGED <<exc, mode, attempts>>

\* Where an exception of the current step goes.
Throw ==
  \/ pc \in Connected /\ LeaveConnection("failure")
  \/ pc \in Reconnecting /\ Handle
  \/ pc \in Handling /\ GiveUp
  \/ pc = "retry" /\ GoTo("raised")
  \/ pc \in Cleaning /\ CleanupError

-----------------------------------------------------------------------------
(* The state machine: an event is durable before the state changes, and an *)
(* event that cannot be made durable changes nothing.  Allowed is the table *)
(* transition checks; LegalTransitions says that it never has to refuse.   *)

Allowed ==
  [CONNECTING    |-> {"BUFFERING", "PAUSED"},
   BUFFERING     |-> {"SNAPSHOT_SYNC", "RESYNC", "PAUSED"},
   SNAPSHOT_SYNC |-> {"LIVE", "RESYNC", "PAUSED"},
   LIVE          |-> {"RESYNC", "PAUSED"},
   RESYNC        |-> {"CONNECTING", "PAUSED"},
   PAUSED        |-> {}]

\* Mutation of Recorded: the failure handler drains without a flush.
RecordedUnflushed ==
  [reconnect |-> [state |-> "CONNECTING",    then |-> "drainReconnect"],
   opened    |-> [state |-> "BUFFERING",     then |-> "drainOpened"],
   noted     |-> [state |-> st,              then |-> "request"],
   request   |-> [state |-> "SNAPSHOT_SYNC", then |-> "drainRequest"],
   goLive    |-> [state |-> "LIVE",          then |-> "drainLive"],
   reported  |-> [state |-> st,              then |-> "resync"],
   resync    |-> [state |-> "RESYNC",        then |-> "drain"],
   retry     |-> [state |-> st,              then |-> "backoff"],
   pause     |-> [state |-> "PAUSED",        then |-> "flushEnd"]]

\* What is recorded where: the state after it, and where the task goes on.
Recorded ==
  [reconnect |-> [state |-> "CONNECTING",    then |-> "drainReconnect"],
   opened    |-> [state |-> "BUFFERING",     then |-> "drainOpened"],
   noted     |-> [state |-> st,              then |-> "request"],
   request   |-> [state |-> "SNAPSHOT_SYNC", then |-> "drainRequest"],
   goLive    |-> [state |-> "LIVE",          then |-> "drainLive"],
   reported  |-> [state |-> st,              then |-> "resync"],
   resync    |-> [state |-> "RESYNC",        then |-> "flush"],
   retry     |-> [state |-> st,              then |-> "backoff"],
   pause     |-> [state |-> "PAUSED",        then |-> "flushEnd"]]

\* No transition is due: a first connection, a failure to connect, a pause.
NothingDue ==
  \/ pc = "reconnect" /\ st # "RESYNC"
  \/ pc = "resync" /\ st \in {"CONNECTING", "RESYNC"}
  \/ pc = "pause" /\ st = "PAUSED"

AfterNothing == IF pc = "reconnect" THEN "connect" ELSE Recorded[pc].then

NoTransition ==
  /\ NothingDue
  /\ GoTo(AfterNothing)
  /\ UNCHANGED <<deferred, st, incoming, raw, epochs, env>>

Record ==
  /\ pc \in DOMAIN Recorded /\ ~NothingDue
  /\ \/ Ok /\ st' = Recorded[pc].state /\ GoTo(Recorded[pc].then)
     \/ Fault /\ UNCHANGED st /\ Throw
  /\ UNCHANGED <<deferred, incoming, raw, epochs, asked, cancels, worker>>

-----------------------------------------------------------------------------
(* Raw segments. *)

\* RawSegmentWriter.append: a segment that has grown old is flushed first, one
\* that is full by its frames or its bytes after the frame is in it.
Stored(old, full) ==
  LET before == IF old THEN Append(completed, open) ELSE completed
      held   == IF old THEN {NewFrame} ELSE open \cup {NewFrame}
  IN  [open |-> IF full THEN {} ELSE held,
       completed |-> IF full THEN Append(before, held) ELSE before]

MayBeFull(old) ==
  IF (IF old THEN 1 ELSE Cardinality(open) + 1) >= SegmentSize THEN {TRUE} ELSE BOOLEAN

MayBeOld == IF open = {} THEN {FALSE} ELSE BOOLEAN

Keep(old, full) ==
  /\ received' = Append(received, Epoch)
  /\ open' = Stored(old, full).open
  /\ completed' = Stored(old, full).completed
  /\ UNCHANGED archived

StoreFrame == \E old \in MayBeOld : \E full \in MayBeFull(old) : Keep(old, full)

\* The frame is refused, or kept in memory by a full segment that cannot be
\* written.
StoreFails ==
  \/ UNCHANGED raw
  \/ \E old \in MayBeOld : Keep(old, FALSE)

\* flush.
Seal ==
  /\ completed' = IF open = {} THEN completed ELSE Append(completed, open)
  /\ open' = {}
  /\ UNCHANGED <<received, archived>>

Flush ==
  /\ pc \in {"flush", "flushEnd"}
  /\ \/ Ok /\ Seal /\ GoTo(IF pc = "flush" THEN "drain" ELSE "drainEnd")
     \/ open # {} /\ Fault /\ UNCHANGED raw /\ Throw
  /\ UNCHANGED <<deferred, st, incoming, epochs, asked, cancels, worker>>

AfterDrain ==
  [drainReconnect |-> "connect",
   drainOpened    |-> "newEpoch",
   drainRequest   |-> IF provider = "binance" THEN "fetch" ELSE "sync",
   drainSync      |-> IF live THEN "goLive" ELSE "sync",
   drainLive      |-> "live",
   drain          |-> "abort",
   drainEnd       |-> "finish"]

First(k) == {completed[i] : i \in 1..k}

\* The first k completed segments are archived, recorded and acknowledged.
Archive(k) ==
  /\ archived' = archived \o SubSeq(completed, 1, k)
  /\ completed' = SubSeq(completed, k + 1, Len(completed))
  /\ journal' = IF journal = None THEN None ELSE [journal EXCEPT !.segments = @ \cup First(k)]
  /\ UNCHANGED <<received, open, closed>>

\* An operation on a journal that already failed may fail again the same way.
JournalFault == Fault \/ (journal # None /\ journal.broken /\ Ok)

\* _drain_segments.
Drain ==
  /\ pc \in DOMAIN AfterDrain
  /\ \/ Ok /\ Archive(Len(completed)) /\ GoTo(AfterDrain[pc])
     \/ \E k \in 1..Len(completed) : JournalFault /\ Archive(k - 1) /\ Throw
  /\ UNCHANGED <<deferred, st, incoming, asked, cancels, worker>>

-----------------------------------------------------------------------------
(* _run_connection. *)

Connect ==
  /\ pc = "connect" /\ ~asked
  /\ GoTo("opened") \/ Throw
  /\ UNCHANGED <<deferred, st, incoming, raw, epochs, env>>

\* _new_epoch, which refuses to forget an unfinished epoch; the synchronizer is
\* new, too.
NewEpoch ==
  /\ pc = "newEpoch"
  /\ live' = FALSE /\ queue' = <<>>
  /\ \/ /\ Ok /\ journal = None
        /\ journal' = [records |-> {}, segments |-> {}, broken |-> FALSE]
        /\ GoTo(IF provider = "binance" THEN "first" ELSE "subscribe")
     \/ /\ Fault \/ (journal # None /\ Ok)
        /\ UNCHANGED journal /\ Throw
  /\ UNCHANGED <<deferred, st, messages, raw, closed, asked, cancels, worker>>

Subscribe ==
  /\ pc = "subscribe" /\ ~asked
  /\ GoTo("noted") \/ Throw
  /\ UNCHANGED <<deferred, st, incoming, raw, epochs, env>>

AtLimit == bounded /\ messages >= MaxMessages

\* The loop of a live stream ends; before that a probe has spent its messages.
Limit ==
  /\ pc \in Receiving /\ AtLimit
  /\ IF pc = "live" THEN LeaveConnection("none") ELSE Throw
  /\ UNCHANGED <<deferred, st, incoming, raw, epochs, env>>

\* _receive_frame.  A frame with malformed metadata is kept before it is
\* rejected; one that cannot be kept is not counted.
ReceiveFrame ==
  /\ pc \in Receiving /\ messages < MaxMessages /\ ~asked
  /\ \/ /\ Ok /\ StoreFrame /\ messages' = messages + 1
        /\ \/ queue' = <<NewFrame>> /\ GoTo(IF pc = "first" THEN "noted" ELSE "admit")
           \/ UNCHANGED queue /\ Throw
     \/ Fault /\ StoreFails /\ UNCHANGED <<messages, queue>> /\ Throw
  /\ UNCHANGED <<deferred, st, live, epochs, asked, cancels, worker>>

\* The connection breaks, or no frame comes in time.
ReceiveFails ==
  /\ pc \in Receiving /\ ~AtLimit /\ ~asked
  /\ Throw
  /\ UNCHANGED <<deferred, st, incoming, raw, epochs, env>>

\* The HTTPS snapshot is kept as a Raw frame and admitted before the first update.
FetchSnapshot ==
  /\ pc = "fetch" /\ ~asked
  /\ \/ Ok /\ StoreFrame /\ queue' = <<NewFrame>> \o queue /\ GoTo("admit")
     \/ Ok /\ UNCHANGED <<raw, queue>> /\ Throw
     \/ Fault /\ StoreFails /\ UNCHANGED queue /\ Throw
  /\ UNCHANGED <<deferred, st, messages, live, epochs, asked, cancels, worker>>

AfterAdmit(isLive) ==
  IF st = "LIVE" THEN "drainLive"
  ELSE IF provider = "okx" THEN "drainSync"
  ELSE IF isLive THEN "goLive" ELSE "sync"

\* The records of a frame join the epoch; a buffered or stale update has none.
Admitted(recs) == journal' = [journal EXCEPT !.records = @ \cup recs]

\* The synchronizer admits the next frame and _apply_outcome appends its records.
\* It may reject the frame; the append or the audit of a first observation may
\* fail.
Admit ==
  /\ pc = "admit"
  /\ \E recs \in {{}, {Head(queue)}} :
       \/ /\ Ok /\ Admitted(recs)
          /\ queue' = Tail(queue)
          /\ IF Len(queue) > 1 THEN GoTo("admit") /\ UNCHANGED live
             ELSE live' \in {live, TRUE} /\ GoTo(AfterAdmit(live'))
       \/ Ok /\ Throw /\ UNCHANGED <<live, queue, journal>>
       \/ /\ Fault /\ Throw
          /\ journal' = [journal EXCEPT !.records = @ \cup recs, !.broken = TRUE]
          /\ UNCHANGED <<live, queue>>
  /\ UNCHANGED <<deferred, st, messages, raw, closed, asked, cancels, worker>>

\* The connection is closed; an exception of close replaces the one under way.
Close ==
  /\ pc = "close" /\ ~asked
  /\ \/ /\ Ok /\ exc = "none"
        /\ pc' = "pause" /\ mode' = "complete" /\ outcome' = "BOUNDED_COMPLETE"
        /\ UNCHANGED <<exc, attempts, errors>>
     \/ Ok /\ exc = "failure" /\ Handle
     \/ Ok /\ exc = "cancel" /\ HandleCancellation
     \/ CloseMayFail /\ Fault /\ Handle
  /\ UNCHANGED <<deferred, st, incoming, raw, epochs, asked, cancels, worker>>

-----------------------------------------------------------------------------
(* The decision of an epoch, and the end of the run. *)

\* finalize refuses records without any Raw segment.
Refuses(d) == d = "committed" /\ journal.records # {} /\ journal.segments = {}

Decide(d) ==
  IF journal = None THEN Ok /\ UNCHANGED epochs
  ELSE /\ Ok /\ ~Refuses(d)
       /\ journal' = None
       /\ closed' = Append(closed, [records |-> journal.records, segments |-> journal.segments,
                                    decision |-> d])

DecideFails(d) ==
  /\ journal # None
  /\ JournalFault \/ (Refuses(d) /\ Ok)
  /\ journal' = [journal EXCEPT !.broken = TRUE]
  /\ UNCHANGED closed

Exhausted == attempts >= MaxAttempts

\* _finalize_epoch in the failure handler: only then is a retry scheduled.
AbortEpoch ==
  /\ pc = "abort" /\ ~asked
  /\ \/ Decide("aborted") /\ IF Exhausted THEN GiveUp ELSE GoTo("retry")
     \/ DecideFails("aborted") /\ Throw
  /\ UNCHANGED <<deferred, st, incoming, raw, asked, cancels, worker>>

Backoff ==
  /\ pc = "backoff" /\ ~asked
  /\ GoTo("reconnect")
  /\ UNCHANGED <<deferred, st, incoming, raw, epochs, env>>

\* Only a bounded probe that completed commits its epoch.
Decision == IF mode = "complete" THEN "committed" ELSE "aborted"

AfterCleanup ==
  CASE mode = "complete" -> "returned"
    [] mode = "failed" -> IF deferred THEN "cancelled" ELSE "returned"
    [] mode = "cancelled" -> "cancelled"
    [] mode = "coordinator" -> "cleaned"

\* The last part of _terminal_cleanup.  A cancellation that came meanwhile is
\* raised now; run's first handler turns that of a completed probe into a second
\* cleanup.
Finish ==
  /\ pc = "finish" /\ ~asked
  /\ \E ok \in BOOLEAN :
       /\ IF ok THEN Decide(Decision) ELSE DecideFails(Decision)
       /\ IF mode = "complete" /\ deferred
          THEN HandleCancellation /\ deferred' = FALSE
          ELSE /\ pc' = AfterCleanup
               /\ errors' = (errors \/ ~ok)
               /\ outcome' = IF ok THEN outcome ELSE "FAILED"
               /\ UNCHANGED <<exc, mode, attempts, deferred>>
  /\ UNCHANGED <<st, incoming, raw, asked, cancels, worker>>

-----------------------------------------------------------------------------
(* Cancellation. *)

Ask ==
  /\ pc \notin Ended /\ mode # "coordinator" /\ cancels < MaxCancels
  /\ asked' = TRUE /\ cancels' = cancels + 1
  /\ UNCHANGED <<control, st, report, incoming, raw, epochs, worker, faults>>

Suspended == pc \in Awaits /\ ~(pc \in Receiving /\ AtLimit)

\* CancelledError at the await the task is in.  Nobody catches it while a failed
\* attempt waits for its epoch to be aborted: the thread goes on by itself.
Cancel ==
  /\ asked /\ Suspended
  /\ asked' = FALSE
  /\ \/ pc \in Connected /\ LeaveConnection("cancel") /\ UNCHANGED <<deferred, worker>>
     \/ pc \in {"connect", "close", "backoff"} /\ HandleCancellation /\ UNCHANGED <<deferred, worker>>
     \/ pc = "abort" /\ GoTo("cancelled") /\ worker' = (journal # None) /\ UNCHANGED deferred
     \/ pc = "finish" /\ deferred' = TRUE /\ UNCHANGED <<pc, exc, mode, attempts, report, worker>>
  /\ UNCHANGED <<st, incoming, raw, epochs, cancels, faults>>

WorkerAborts ==
  /\ worker
  /\ worker' = FALSE
  /\ Decide("aborted") \/ DecideFails("aborted")
  /\ UNCHANGED <<control, st, report, incoming, raw, asked, cancels>>

\* The coordinator cleans up a runner whose task ended with an exception.
CoordinatorCleanup ==
  /\ pc = "raised"
  /\ CleanUpAs("coordinator", "FAILED")
  /\ UNCHANGED <<deferred, st, incoming, raw, epochs, env>>

Done == pc \in Ended /\ ~worker /\ UNCHANGED vars

-----------------------------------------------------------------------------
\* What the task does whatever the feed sends.
Step ==
  /\ \/ NoTransition \/ Record \/ Flush \/ Drain
     \/ Connect \/ NewEpoch \/ Subscribe \/ Limit \/ FetchSnapshot \/ Admit \/ Close
     \/ AbortEpoch \/ Backoff \/ Finish \/ Cancel \/ WorkerAborts
  /\ UNCHANGED input

Receive == (ReceiveFrame \/ ReceiveFails) /\ UNCHANGED input

Next == Step \/ Receive \/ ((Ask \/ CoordinatorCleanup) /\ UNCHANGED input) \/ Done

Spec == Init /\ [][Next]_vars

(***************************************************************************)
(* Fairness: connecting, sending, fetching and closing have timeouts, file *)
(* operations and threads end.  Only a bounded probe has a deadline for    *)
(* its frames; an unbounded run may stay in a silent or endless feed.      *)
(***************************************************************************)
FairSpec ==
  /\ Spec
  /\ WF_vars(Step)
  /\ WF_vars(bounded /\ Receive)

-----------------------------------------------------------------------------
(* Properties. *)

\* A Raw segment never spans two epochs: every segment an epoch names holds only
\* frames received in that epoch, also after failures, retries and age rotation
\* (the failure handler flushes and drains before it aborts).
SegmentsWithinEpoch ==
  /\ \A n \in 1..Len(closed) : \A seg \in closed[n].segments : \A f \in seg : received[f] = n
  /\ journal # None => \A seg \in journal.segments : \A f \in seg : received[f] = Epoch

\* A bounded probe ends, whatever the network does: its frames have a deadline
\* and its attempts are counted.
ProbeEnds == bounded ~> pc \in Ended

\* The runner implements what the coordinator relies on.
Task == IF pc \in Ended THEN pc ELSE IF mode = "coordinator" THEN "raised" ELSE "running"

Stream == "stream"

View(value, before) == [s \in {Stream} |-> IF Task = "running" THEN before ELSE value]

Life == INSTANCE StreamLife WITH
  Streams <- {Stream},
  task    <- [s \in {Stream} |-> Task],
  outcome <- View(IF Task = "raised" THEN "RUNNING" ELSE outcome, "RUNNING"),
  paused  <- View(Task # "raised" /\ st = "PAUSED", FALSE),
  settled <- View(journal = None /\ open = {} /\ completed = <<>>, FALSE),
  clean   <- View(Task = "returned" /\ ~errors, FALSE),
  asked   <- [s \in {Stream} |-> cancels > 0]

ImplementsLife == Life!LifeSpec

=============================================================================
