-------------------------- MODULE CaptureCoordinator --------------------------
(***************************************************************************)
(* CryptoL2CaptureCoordinator.run of capture_v2/collector.py over streams  *)
(* that keep the promises of StreamLife: preflight, the startup scan, one  *)
(* task per stream, the first failure that stops the others, cancellation  *)
(* from outside, and the run report.                                       *)
(***************************************************************************)
EXTENDS StreamLife, Naturals

CONSTANT
  MaxCancels  \* bound: cancellations of the run from outside

ASSUME CoordinatorAssumption == MaxCancels \in Nat

VARIABLES
  bounded,  \* whether run was called with maximum_websocket_messages
  pc,       \* where run is
  pending,  \* tasks it still waits for
  ready,    \* finished tasks it has not looked at
  current,  \* the task whose runner it cleans up, as a set of at most one
  cause,    \* whether first_cause is set
  status,   \* the status of the report
  told,     \* a cancellation from outside was requested and not yet delivered
  cancels   \* cancellations from outside

runVars == <<pc, pending, ready, current, cause, status, told, cancels>>
vars    == <<bounded, lifeVars, runVars>>

Over == {"reported", "escaped"}

Statuses ==
  {"none", "PAUSED_PREFLIGHT_FAILED", "CAPTURE_FAILED", "CAPTURE_CANCELLED",
   "BOUNDED_PROBE_COMPLETE", "STOPPED_WITHOUT_CERTIFICATION", "CAPTURE_REPORT_PERSISTENCE_FAILED"}

TypeOK ==
  /\ bounded \in BOOLEAN
  /\ task \in [Streams -> {"idle", "running", "returned", "cancelled", "raised", "cleaned"}]
  /\ outcome \in [Streams -> Outcomes]
  /\ paused \in [Streams -> BOOLEAN] /\ settled \in [Streams -> BOOLEAN]
  /\ clean \in [Streams -> BOOLEAN] /\ asked \in [Streams -> BOOLEAN]
  /\ pc \in {"preflight", "reconcile", "create", "wait", "collect", "cleanup", "gather",
             "stopping", "judge", "write", "cancelled"} \cup Over
  /\ pending \in SUBSET Streams /\ ready \in SUBSET Streams /\ current \in SUBSET Streams
  /\ cause \in BOOLEAN /\ status \in Statuses /\ told \in BOOLEAN /\ cancels \in 0..MaxCancels

Init ==
  /\ bounded \in BOOLEAN
  /\ task = [s \in Streams |-> "idle"]
  /\ outcome = [s \in Streams |-> "RUNNING"]
  /\ paused = [s \in Streams |-> FALSE] /\ settled = [s \in Streams |-> FALSE]
  /\ clean = [s \in Streams |-> FALSE] /\ asked = [s \in Streams |-> FALSE]
  /\ pc = "preflight" /\ pending = {} /\ ready = {} /\ current = {} /\ cause = FALSE
  /\ status = "none" /\ told = FALSE /\ cancels = 0

GoTo(p) == pc' = p /\ UNCHANGED <<pending, ready, current, cause, status, told, cancels>>

ReportAs(s) == status' = s /\ pc' = "write" /\ UNCHANGED <<pending, ready, current, cause, told, cancels>>

-----------------------------------------------------------------------------
(* Before the network. *)

Preflight ==
  /\ pc = "preflight"
  /\ GoTo("reconcile") \/ ReportAs("PAUSED_PREFLIGHT_FAILED")
  /\ UNCHANGED lifeVars

\* reconcile_pending settles every epoch of an earlier run, or blocks.
Reconcile ==
  /\ pc = "reconcile"
  /\ GoTo("create") \/ ReportAs("CAPTURE_FAILED")
  /\ UNCHANGED lifeVars

\* The runners are created, all of them or none is started.
Start ==
  /\ pc = "create"
  /\ task' = [s \in Streams |-> "running"]
  /\ pending' = Streams
  /\ pc' = "wait"
  /\ UNCHANGED <<outcome, paused, settled, clean, asked, ready, current, cause, status, told, cancels>>

CreationFails ==
  /\ pc = "create"
  /\ ReportAs("CAPTURE_FAILED")
  /\ UNCHANGED lifeVars

-----------------------------------------------------------------------------
(* The streams run. *)

Ended(s) == task[s] \notin {"idle", "running"}

\* Mutation of Success: the outcome of the stream decides alone.
SuccessByOutcome(s) == bounded /\ outcome[s] = "BOUNDED_COMPLETE"

\* _stream_succeeded, from the stream's report: an unbounded run never succeeds.
Success(s) ==
  bounded /\ outcome[s] = "BOUNDED_COMPLETE" /\ paused[s] /\ settled[s] /\ clean[s]

\* The tasks share one event loop: they run while run awaits, a thread always.
StreamEnds(s) ==
  /\ pc \in {"wait", "cleanup", "gather", "stopping"}
  /\ Complete(s) \/ Fail(s) \/ Cancelled(s) \/ Raise(s)
  /\ UNCHANGED runVars

ThreadSettles(s) == Settle(s) /\ UNCHANGED runVars

\* Mutation of Wait: all tasks are waited for.
WaitForAll ==
  /\ pc = "wait" /\ ~told
  /\ \A s \in pending : Ended(s)
  /\ ready' = pending /\ pending' = {}
  /\ pc' = "collect"
  /\ UNCHANGED <<lifeVars, current, cause, status, told, cancels>>

\* asyncio.wait returns all tasks that have finished, at least one.
Wait ==
  /\ pc = "wait" /\ ~told
  /\ \E s \in pending : Ended(s)
  /\ ready' = {s \in pending : Ended(s)}
  /\ pending' = {s \in pending : ~Ended(s)}
  /\ pc' = "collect"
  /\ UNCHANGED <<lifeVars, current, cause, status, told, cancels>>

\* One finished task; a runner that raised is cleaned up first.
Collect(s) ==
  /\ pc = "collect" /\ s \in ready
  /\ ready' = ready \ {s}
  /\ cause' = (cause \/ ~Success(s))
  /\ IF task[s] = "raised" THEN current' = {s} /\ pc' = "cleanup" ELSE UNCHANGED <<current, pc>>
  /\ UNCHANGED <<lifeVars, pending, status, told, cancels>>

\* _terminal_cleanup of that runner raises a cancellation only when it is over.
CleanupStream(s) ==
  /\ pc = "cleanup" /\ s \in current
  /\ Cleanup(s)
  /\ current' = {}
  /\ pc' = IF told THEN "cancelled" ELSE "collect"
  /\ told' = FALSE
  /\ UNCHANGED <<pending, ready, cause, status, cancels>>

CancelTasks(S) ==
  /\ asked' = [s \in Streams |-> asked[s] \/ (s \in S /\ Running(s))]
  /\ UNCHANGED <<task, outcome, paused, settled, clean>>

\* All finished tasks are seen: wait again, be done, or stop the others.
Continue ==
  /\ pc = "collect" /\ ready = {} /\ ~cause
  /\ GoTo(IF pending = {} THEN "judge" ELSE "wait")
  /\ UNCHANGED lifeVars

StopOthers ==
  /\ pc = "collect" /\ ready = {} /\ cause
  /\ CancelTasks(pending)
  /\ GoTo("gather")

\* Mutation of Gather: the report is written while tasks are still ending.
GatherNot ==
  /\ pc = "gather"
  /\ GoTo("judge")
  /\ UNCHANGED lifeVars

\* gather(..., return_exceptions=True): what the tasks raise is dropped.  To
\* gather nothing is not an await.
Gather ==
  /\ pc = "gather" /\ (told => pending = {})
  /\ \A s \in pending : ~Running(s)
  /\ GoTo("judge")
  /\ UNCHANGED lifeVars

-----------------------------------------------------------------------------
(* Cancellation from outside. *)

Tell ==
  /\ pc \notin Over \cup {"write"} /\ cancels < MaxCancels
  /\ told' = TRUE /\ cancels' = cancels + 1
  /\ UNCHANGED <<lifeVars, pc, pending, ready, current, cause, status>>

\* CancelledError in asyncio.wait, or out of a gather that cancelled its tasks
\* and waited for them.
ToldWaiting ==
  /\ pc = "wait" /\ told
  /\ pc' = "cancelled" /\ told' = FALSE
  /\ UNCHANGED <<lifeVars, pending, ready, current, cause, status, cancels>>

ToldGathering ==
  /\ pc \in {"gather", "stopping"} /\ told /\ pending # {}
  /\ \/ /\ \E s \in pending : Running(s) /\ ~asked[s]
        /\ CancelTasks(pending) /\ UNCHANGED runVars
     \/ /\ \A s \in pending : ~Running(s)
        /\ pc' = IF pc = "gather" THEN "cancelled" ELSE "escaped"
        /\ told' = FALSE
        /\ UNCHANGED <<lifeVars, pending, ready, current, cause, status, cancels>>

\* run's own handler cancels every task and waits for all of them.
CancelAll ==
  /\ pc = "cancelled"
  /\ CancelTasks(Streams)
  /\ pending' = Streams
  /\ pc' = "stopping"
  /\ UNCHANGED <<ready, current, cause, status, told, cancels>>

Stopped ==
  /\ pc = "stopping" /\ ~told
  /\ \A s \in pending : ~Running(s)
  /\ ReportAs("CAPTURE_CANCELLED")
  /\ UNCHANGED lifeVars

-----------------------------------------------------------------------------
(* The report. *)

Verdict ==
  IF ~\A s \in Streams : Success(s) THEN "CAPTURE_FAILED"
  ELSE IF bounded THEN "BOUNDED_PROBE_COMPLETE" ELSE "STOPPED_WITHOUT_CERTIFICATION"

Judge ==
  /\ pc = "judge"
  /\ ReportAs(Verdict)
  /\ UNCHANGED lifeVars

WriteReport ==
  /\ pc = "write"
  /\ pc' = "reported"
  /\ status' \in {status, "CAPTURE_REPORT_PERSISTENCE_FAILED"}
  /\ UNCHANGED <<lifeVars, pending, ready, current, cause, told, cancels>>

Done == pc \in Over /\ UNCHANGED vars

Step ==
  /\ \/ Preflight \/ Reconcile \/ Start \/ CreationFails \/ Wait \/ Continue \/ StopOthers \/ Gather
     \/ (\E s \in Streams : Collect(s) \/ CleanupStream(s))
     \/ ToldWaiting \/ ToldGathering \/ CancelAll \/ Stopped \/ Judge \/ WriteReport
  /\ UNCHANGED bounded

StreamStep(s) == (StreamEnds(s) \/ ThreadSettles(s)) /\ UNCHANGED bounded

Next == Step \/ (Tell /\ UNCHANGED bounded) \/ (\E s \in Streams : StreamStep(s)) \/ Done

Spec == Init /\ [][Next]_vars

(***************************************************************************)
(* Fairness: run goes on when it can.  The task of a bounded probe ends    *)
(* (CaptureRunner!ProbeEnds), and so, it is assumed, does one that was     *)
(* cancelled; a long-running one may go on for ever.                       *)
(***************************************************************************)
FairSpec ==
  /\ Spec
  /\ WF_vars(Step)
  /\ \A s \in Streams : WF_vars((bounded \/ asked[s]) /\ StreamEnds(s) /\ UNCHANGED bounded)

-----------------------------------------------------------------------------
(* Properties. *)

\* When run is over, by its report or by an exception, no task of a stream is
\* left running: every path, also a cancellation during the cleanup of another
\* stream or a second one while the tasks are stopped, waits for all of them.
NoTaskOutlivesRun == pc \in Over => \A s \in Streams : ~Running(s)

\* A run reported complete was not disturbed: every task returned by itself
\* after a first attempt without an error, with its Raw archived and its epoch
\* decided, and no stream was ever cancelled.
CompleteIsUndisturbed ==
  status = "BOUNDED_PROBE_COMPLETE" =>
    /\ ~cause
    /\ \A s \in Streams : task[s] = "returned" /\ settled[s] /\ clean[s] /\ ~asked[s]

\* No stream is cancelled unless another one ended without success or run itself
\* was cancelled: streams that complete at different times do not stop the rest.
HealthyRunCancelsNobody ==
  [][asked' # asked => cancels > 0 \/ \E s \in Streams : Ended(s) /\ ~Success(s)]_vars

\* One stream that ends without success ends the run, although the other feeds
\* would go on for ever.
FailureEndsRun == (\E s \in Streams : Ended(s) /\ ~Success(s)) ~> pc \in Over

=============================================================================
