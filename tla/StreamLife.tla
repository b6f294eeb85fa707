----------------------------- MODULE StreamLife -----------------------------
(***************************************************************************)
(* What the coordinator of capture_v2/collector.py may rely on when the    *)
(* task of a stream runner ends: the ways a task can end and what each one *)
(* says of the stream's state, its Raw frames and its epoch.  A running    *)
(* stream hides everything else.  CaptureRunner implements it for one      *)
(* stream; CaptureCoordinator composes it for all of them.                 *)
(***************************************************************************)

CONSTANT Streams

VARIABLES
  task,      \* how the runner's task stands
  outcome,   \* the outcome its report shows
  paused,    \* whether the stream's durable state is PAUSED
  settled,   \* whether its Raw frames are archived and its epoch has a decision
  clean,     \* whether it ended without a recorded error
  asked      \* whether its task was cancelled from outside

lifeVars == <<task, outcome, paused, settled, clean, asked>>

Outcomes == {"RUNNING", "BOUNDED_COMPLETE", "FAILED", "CANCELLED"}

LifeInit ==
  /\ task = [s \in Streams |-> "running"]
  /\ outcome = [s \in Streams |-> "RUNNING"]
  /\ paused = [s \in Streams |-> FALSE]
  /\ settled = [s \in Streams |-> FALSE]
  /\ clean = [s \in Streams |-> FALSE]
  /\ asked = [s \in Streams |-> FALSE]

Running(s) == task[s] = "running"

End(s, how, o, p, d, c) ==
  /\ task' = [task EXCEPT ![s] = how]
  /\ outcome' = [outcome EXCEPT ![s] = o]
  /\ paused' = [paused EXCEPT ![s] = p]
  /\ settled' = [settled EXCEPT ![s] = d]
  /\ clean' = [clean EXCEPT ![s] = c]
  /\ UNCHANGED asked

Ask(s) ==
  /\ Running(s)
  /\ asked' = [asked EXCEPT ![s] = TRUE]
  /\ UNCHANGED <<task, outcome, paused, settled, clean>>

\* A complete bounded probe is paused and settled; it is clean if the first
\* attempt succeeded.
Complete(s) == Running(s) /\ \E c \in BOOLEAN : End(s, "returned", "BOUNDED_COMPLETE", TRUE, TRUE, c)

\* A failed run tried to pause and to settle, and may have failed at either.
Fail(s) == Running(s) /\ \E p, d \in BOOLEAN : End(s, "returned", "FAILED", p, d, FALSE)

\* The task ends cancelled only if it was asked to.
Cancelled(s) ==
  /\ Running(s) /\ asked[s]
  /\ \/ End(s, "cancelled", "CANCELLED", TRUE, TRUE, FALSE)
     \/ \E p, d \in BOOLEAN : End(s, "cancelled", "FAILED", p, d, FALSE)
     \/ \E d \in BOOLEAN : End(s, "cancelled", "RUNNING", FALSE, d, FALSE)

\* An exception leaves the runner between a settled attempt and its backoff.
Raise(s) == Running(s) /\ End(s, "raised", "RUNNING", FALSE, TRUE, FALSE)

\* A cancelled runner left its epoch to a thread that still aborts it.
Settle(s) ==
  /\ task[s] = "cancelled" /\ outcome[s] = "RUNNING" /\ ~settled[s]
  /\ settled' = [settled EXCEPT ![s] = TRUE]
  /\ UNCHANGED <<task, outcome, paused, clean, asked>>

\* The coordinator's terminal cleanup of a runner that raised.
Cleanup(s) ==
  /\ task[s] = "raised"
  /\ \E p \in BOOLEAN : End(s, "cleaned", "FAILED", p, TRUE, FALSE)

LifeNext(s) ==
  Ask(s) \/ Complete(s) \/ Fail(s) \/ Cancelled(s) \/ Raise(s) \/ Settle(s) \/ Cleanup(s)

LifeSpec == LifeInit /\ [][\E s \in Streams : LifeNext(s)]_lifeVars

=============================================================================
