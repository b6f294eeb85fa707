---------------------- MODULE CaptureCoordinator_proofs ----------------------
(***************************************************************************)
(* Proofs about CaptureCoordinator for any set of streams, bounded or not, *)
(* and any number of cancellations.                                        *)
(***************************************************************************)
EXTENDS CaptureCoordinator, TLAPS

-----------------------------------------------------------------------------
(* Types. *)

Tasks == {"idle", "running", "returned", "cancelled", "raised", "cleaned"}

LifeTypeOK ==
  /\ task \in [Streams -> Tasks]
  /\ outcome \in [Streams -> Outcomes]
  /\ paused \in [Streams -> BOOLEAN] /\ settled \in [Streams -> BOOLEAN]
  /\ clean \in [Streams -> BOOLEAN] /\ asked \in [Streams -> BOOLEAN]

Places ==
  {"preflight", "reconcile", "create", "wait", "collect", "cleanup", "gather",
   "stopping", "judge", "write", "cancelled"} \cup Over

RunTypeOK ==
  /\ bounded \in BOOLEAN
  /\ pc \in Places
  /\ pending \in SUBSET Streams /\ ready \in SUBSET Streams /\ current \in SUBSET Streams
  /\ cause \in BOOLEAN /\ status \in Statuses /\ told \in BOOLEAN /\ cancels \in 0..MaxCancels

\* The end of a stream's task has the type of a report.
LEMMA EndTyped ==
  ASSUME LifeTypeOK, NEW s \in Streams, NEW how \in Tasks, NEW o \in Outcomes,
         NEW p \in BOOLEAN, NEW d \in BOOLEAN, NEW c \in BOOLEAN, End(s, how, o, p, d, c)
  PROVE  LifeTypeOK'
BY DEF LifeTypeOK, End

\* A step of a stream keeps the types of the stream's report.
LEMMA StreamTyped ==
  ASSUME LifeTypeOK, NEW s \in Streams,
         Complete(s) \/ Fail(s) \/ Cancelled(s) \/ Raise(s) \/ Settle(s) \/ Cleanup(s)
  PROVE  LifeTypeOK'
<1> USE DEF Tasks, Outcomes
<1>1. CASE Complete(s)
  BY <1>1, EndTyped DEF Complete
<1>2. CASE Fail(s)
  BY <1>2, EndTyped DEF Fail
<1>3. CASE Cancelled(s)
  BY <1>3, EndTyped DEF Cancelled
<1>4. CASE Raise(s)
  BY <1>4, EndTyped DEF Raise
<1>5. CASE Settle(s)
  BY <1>5 DEF Settle, LifeTypeOK
<1>6. CASE Cleanup(s)
  BY <1>6, EndTyped DEF Cleanup
<1> QED
  BY <1>1, <1>2, <1>3, <1>4, <1>5, <1>6

\* Cancelling tasks changes only who was asked.
LEMMA AskTyped ==
  ASSUME LifeTypeOK, NEW S, CancelTasks(S)
  PROVE  LifeTypeOK'
BY DEF LifeTypeOK, CancelTasks, Running

\* The argument of run does not change.
LEMMA BoundedStays == [Next]_vars => bounded' = bounded
BY DEF Next, Step, StreamStep, Done, vars

\* Every variable of the coordinator and every part of a stream's report keeps
\* its type.
THEOREM TypeCorrect == Spec => []TypeOK
<1>1. ASSUME Init PROVE LifeTypeOK /\ RunTypeOK
  <2>1. LifeTypeOK
    BY <1>1 DEF Init, LifeTypeOK, Outcomes, Tasks
  <2>2. RunTypeOK
    <3>1. 0 \in 0..MaxCancels
      BY CoordinatorAssumption
    <3> QED
      BY <1>1, <3>1 DEF Init, RunTypeOK, Places, Statuses
  <2> QED
    BY <2>1, <2>2
<1>2. TypeOK <=> LifeTypeOK /\ RunTypeOK
  BY DEF TypeOK, LifeTypeOK, RunTypeOK, Tasks, Places
<1>3. TypeOK' <=> LifeTypeOK' /\ RunTypeOK'
  BY DEF TypeOK, LifeTypeOK, RunTypeOK, Tasks, Places
<1>4. TypeOK /\ [Next]_vars => TypeOK'
  <2> SUFFICES ASSUME LifeTypeOK, RunTypeOK, [Next]_vars
               PROVE  LifeTypeOK' /\ RunTypeOK'
    BY <1>2, <1>3
  <2>0. bounded' = bounded
    BY BoundedStays
  <2> USE CoordinatorAssumption, <2>0
  <2>a. ASSUME UNCHANGED lifeVars PROVE LifeTypeOK'
    BY <2>a DEF lifeVars, LifeTypeOK
  <2>b. ASSUME UNCHANGED runVars PROVE RunTypeOK'
    BY <2>b DEF runVars, RunTypeOK
  <2>1. CASE Preflight \/ Reconcile \/ CreationFails \/ Continue \/ Gather \/ Stopped
    BY <2>1, <2>a DEF Preflight, Reconcile, CreationFails, Continue, Gather, Stopped, GoTo, ReportAs,
       RunTypeOK, Places, Statuses
  <2>2. CASE Start
    BY <2>2 DEF Start, LifeTypeOK, RunTypeOK, Places, Tasks
  <2>3. CASE Wait
    BY <2>3, <2>a DEF Wait, RunTypeOK, Places
  <2>4. CASE StopOthers
    BY <2>4, AskTyped DEF StopOthers, GoTo, RunTypeOK, Places
  <2>5. ASSUME NEW s \in Streams, Collect(s) PROVE LifeTypeOK' /\ RunTypeOK'
    BY <2>5, <2>a DEF Collect, RunTypeOK, Places
  <2>6. ASSUME NEW s \in Streams, CleanupStream(s) PROVE LifeTypeOK' /\ RunTypeOK'
    BY <2>6, StreamTyped DEF CleanupStream, RunTypeOK, Places
  <2>7. CASE ToldWaiting
    BY <2>7, <2>a DEF ToldWaiting, RunTypeOK, Places
  <2>8. CASE ToldGathering
    <3>1. CASE UNCHANGED lifeVars
      BY <2>8, <3>1, <2>a DEF ToldGathering, RunTypeOK, Places, Over, runVars
    <3>2. CASE CancelTasks(pending) /\ UNCHANGED runVars
      BY <3>2, <2>b, AskTyped
    <3> QED
      BY <2>8, <3>1, <3>2 DEF ToldGathering
  <2>9. CASE CancelAll
    BY <2>9, AskTyped DEF CancelAll, RunTypeOK, Places
  <2>10. CASE Judge
    BY <2>10, <2>a DEF Judge, Verdict, ReportAs, RunTypeOK, Places, Statuses
  <2>11. CASE WriteReport
    BY <2>11, <2>a DEF WriteReport, RunTypeOK, Places, Over, Statuses
  <2>12. CASE Tell
    BY <2>12, <2>a DEF Tell, RunTypeOK
  <2>13. ASSUME NEW s \in Streams, StreamEnds(s) \/ ThreadSettles(s) PROVE LifeTypeOK' /\ RunTypeOK'
    BY <2>13, <2>b, StreamTyped DEF StreamEnds, ThreadSettles
  <2>14. CASE UNCHANGED vars
    BY <2>14, <2>a, <2>b DEF vars
  <2> QED
    BY <2>1, <2>2, <2>3, <2>4, <2>5, <2>6, <2>7, <2>8, <2>9, <2>10, <2>11, <2>12, <2>13, <2>14
       DEF Next, Step, StreamStep, Done
<1> QED
  BY <1>1, <1>2, <1>4, PTL DEF Spec

-----------------------------------------------------------------------------
(* What the streams are while run is at each place. *)

\* Before the tasks are created nothing runs; while run waits, every running
\* stream is one it waits for; afterwards nothing runs.
Waiting ==
  /\ pc \in {"preflight", "reconcile", "create"} => \A s \in Streams : task[s] = "idle"
  /\ pc \in {"wait", "collect", "cleanup", "gather"} => \A s \in Streams : Running(s) => s \in pending
  /\ pc \in {"collect", "cleanup"} => \A s \in ready : Ended(s)
  /\ pc = "stopping" => pending = Streams
  /\ told \/ pc \in {"cancelled", "stopping"} => cancels > 0
  /\ pc \in {"judge", "write"} \cup Over => \A s \in Streams : ~Running(s)

\* Only a stream that returned by itself shows success, only a stream without
\* success is a cause, only a cause or a cancellation of run cancels streams,
\* and the verdict looks at all of them.
Judged ==
  /\ \A s \in Streams : outcome[s] = "BOUNDED_COMPLETE" => task[s] = "returned"
  /\ cause => \E s \in Streams : Ended(s) /\ ~Success(s)
  /\ pc = "gather" => cause
  /\ pc \notin {"cancelled", "stopping", "write"} \cup Over =>
       (\A s \in Streams : asked[s] => cause)
  /\ pc \notin {"write", "reported"} => status = "none"
  /\ status = "BOUNDED_PROBE_COMPLETE" =>
       ~cause /\ \A s \in Streams : Success(s) /\ ~asked[s]

RunInv == TypeOK /\ Waiting /\ Judged

\* A step of a stream's task keeps what Judged says of the streams.
LEMMA EndedStays ==
  ASSUME TypeOK, bounded' = bounded, NEW s \in Streams, NEW t \in Streams,
         Complete(s) \/ Fail(s) \/ Cancelled(s) \/ Raise(s) \/ Settle(s) \/ Cleanup(s)
  PROVE  /\ Running(t)' => Running(t)
         /\ asked' = asked
         /\ Ended(t) => Ended(t)'
         /\ Ended(t) /\ ~Success(t) => (Ended(t) /\ ~Success(t))'
         /\ (outcome[t] = "BOUNDED_COMPLETE" => task[t] = "returned") =>
              (outcome[t] = "BOUNDED_COMPLETE" => task[t] = "returned")'
<1> USE DEF TypeOK, Running, Ended, Success, End
<1>1. CASE Complete(s)
  BY <1>1 DEF Complete
<1>2. CASE Fail(s)
  BY <1>2 DEF Fail
<1>3. CASE Cancelled(s)
  BY <1>3 DEF Cancelled
<1>4. CASE Raise(s)
  BY <1>4 DEF Raise
<1>5. CASE Settle(s)
  BY <1>5 DEF Settle
<1>6. CASE Cleanup(s)
  BY <1>6 DEF Cleanup
<1> QED
  BY <1>1, <1>2, <1>3, <1>4, <1>5, <1>6

LEMMA InvStep == RunInv /\ TypeOK' /\ [Next]_vars => (Waiting /\ Judged)'
<1> SUFFICES ASSUME TypeOK, TypeOK', Waiting, Judged, [Next]_vars
             PROVE  Waiting' /\ Judged'
  BY DEF RunInv
<1>0. bounded' = bounded
  BY BoundedStays
<1> USE <1>0
<1>a. ASSUME UNCHANGED lifeVars
      PROVE  \A s \in Streams : /\ Running(s)' <=> Running(s)
                                /\ Ended(s)' <=> Ended(s)
                                /\ Success(s)' <=> Success(s)
  BY <1>a DEF lifeVars, Running, Ended, Success
<1>b. ASSUME UNCHANGED lifeVars, UNCHANGED runVars PROVE Waiting' /\ Judged'
  <2>1. Waiting'
    BY <1>b, <1>a DEF runVars, lifeVars, Waiting, Over, TypeOK
  <2> QED
    BY <2>1, <1>b, <1>a DEF runVars, lifeVars, Judged, Over
<1>1. CASE Preflight
  BY <1>1, <1>a DEF Preflight, GoTo, ReportAs, Waiting, Judged, Over, lifeVars, Running
<1>2. CASE Reconcile
  BY <1>2, <1>a DEF Reconcile, GoTo, ReportAs, Waiting, Judged, Over, lifeVars, Running
<1>3. CASE Start
  BY <1>3 DEF Start, TypeOK, Waiting, Judged, Over, Running, Ended, Success
<1>4. CASE CreationFails
  BY <1>4, <1>a DEF CreationFails, ReportAs, Waiting, Judged, Over, lifeVars, Running
<1>5. CASE Wait
  BY <1>5, <1>a DEF Wait, Waiting, Judged, Over, lifeVars, Ended, Running
<1>6. CASE Continue
  BY <1>6, <1>a DEF Continue, GoTo, Waiting, Judged, Over, lifeVars, Running
<1>7. CASE StopOthers
  <2>1. \A s \in Streams : /\ Running(s)' <=> Running(s)
                           /\ Ended(s)' <=> Ended(s)
                           /\ Success(s)' <=> Success(s)
    BY <1>7 DEF StopOthers, CancelTasks, Running, Ended, Success
  <2> QED
    BY <1>7, <2>1 DEF StopOthers, CancelTasks, GoTo, Waiting, Judged, Over, Running
<1>8. CASE Gather
  BY <1>8, <1>a DEF Gather, GoTo, Waiting, Judged, Over, lifeVars, Running
<1>9. ASSUME NEW s \in Streams, Collect(s) PROVE Waiting' /\ Judged'
  <2>1. Waiting'
    BY <1>9, <1>a DEF Collect, Waiting, Over, TypeOK
  <2>2. cause' => \E t \in Streams : Ended(t)' /\ ~Success(t)'
    <3>1. Ended(s)' /\ (Success(s)' <=> Success(s))
      BY <1>9, <1>a DEF Collect, Waiting
    <3>2. CASE cause
      BY <1>9, <1>a, <3>2 DEF Collect, Judged
    <3>3. CASE ~Success(s)
      BY <3>1, <3>3
    <3> QED
      BY <1>9, <3>2, <3>3 DEF Collect
  <2> QED
    BY <1>9, <1>a, <2>1, <2>2 DEF Collect, Judged, Over, lifeVars
<1>10. ASSUME NEW s \in Streams, CleanupStream(s) PROVE Waiting' /\ Judged'
  <2>1. \A t \in Streams :
          /\ Running(t)' => Running(t)
          /\ asked' = asked
          /\ Ended(t) => Ended(t)'
          /\ Ended(t) /\ ~Success(t) => (Ended(t) /\ ~Success(t))'
          /\ (outcome[t] = "BOUNDED_COMPLETE" => task[t] = "returned") =>
               (outcome[t] = "BOUNDED_COMPLETE" => task[t] = "returned")'
    BY <1>10, EndedStays DEF CleanupStream
  <2>2. Waiting'
    BY <1>10, <2>1 DEF CleanupStream, Waiting, Over, TypeOK
  <2>3. cause' => \E t \in Streams : (Ended(t) /\ ~Success(t))'
    BY <1>10, <2>1 DEF CleanupStream, Judged
  <2> QED
    BY <1>10, <2>1, <2>2, <2>3 DEF CleanupStream, Judged, Over
<1>11. CASE ToldWaiting
  BY <1>11, <1>a DEF ToldWaiting, Waiting, Judged, Over, lifeVars
<1>12. CASE ToldGathering
  <2>1. CASE UNCHANGED lifeVars
    <3>1. CASE UNCHANGED runVars
      BY <2>1, <3>1, <1>b
    <3>2. CASE (\A s \in pending : ~Running(s)) /\ pc' = IF pc = "gather" THEN "cancelled" ELSE "escaped"
      <4>1. Waiting'
        BY <1>12, <2>1, <3>2, <1>a DEF ToldGathering, Waiting, Over
      <4>2. UNCHANGED <<cause, status, outcome, task, asked>> /\ pc \in {"gather", "stopping"}
        BY <1>12, <2>1, <3>2 DEF ToldGathering, lifeVars, runVars
      <4> QED
        BY <4>1, <4>2, <3>2, <1>a, <2>1 DEF Judged, Over
    <3> QED
      BY <1>12, <3>1, <3>2 DEF ToldGathering
  <2>2. CASE CancelTasks(pending) /\ UNCHANGED runVars
    <3>1. \A s \in Streams : /\ Running(s)' <=> Running(s)
                             /\ Ended(s)' <=> Ended(s)
                             /\ Success(s)' <=> Success(s)
      BY <2>2 DEF CancelTasks, Running, Ended, Success
    <3>2. Waiting'
      BY <1>12, <2>2, <3>1 DEF ToldGathering, runVars, Waiting, Over
    <3>3. pc \in {"gather", "stopping"} /\ UNCHANGED <<pc, cause, status, outcome, task>>
      BY <1>12, <2>2 DEF ToldGathering, CancelTasks, runVars
    <3>4. cause' => \E s \in Streams : Ended(s)' /\ ~Success(s)'
      BY <3>1, <3>3 DEF Judged
    <3>5. status # "BOUNDED_PROBE_COMPLETE"
      BY <3>3 DEF Judged
    <3> QED
      BY <3>2, <3>3, <3>4, <3>5 DEF Judged, Over
  <2> QED
    BY <1>12, <2>1, <2>2 DEF ToldGathering
<1>13. CASE CancelAll
  BY <1>13 DEF CancelAll, CancelTasks, Waiting, Judged, Over, Running, Ended, Success
<1>14. CASE Stopped
  BY <1>14, <1>a DEF Stopped, ReportAs, Waiting, Judged, Over, lifeVars
<1>15. CASE Judge
  BY <1>15, <1>a DEF Judge, Verdict, ReportAs, Waiting, Judged, Over, lifeVars
<1>16. CASE WriteReport
  BY <1>16, <1>a DEF WriteReport, Waiting, Judged, Over, lifeVars
<1>17. CASE Tell
  BY <1>17, <1>a DEF Tell, Waiting, Judged, Over, lifeVars, TypeOK
<1>18. ASSUME NEW s \in Streams, StreamEnds(s) \/ ThreadSettles(s) PROVE Waiting' /\ Judged'
  <2>1. \A t \in Streams :
          /\ Running(t)' => Running(t)
          /\ asked' = asked
          /\ Ended(t) => Ended(t)'
          /\ Ended(t) /\ ~Success(t) => (Ended(t) /\ ~Success(t))'
          /\ (outcome[t] = "BOUNDED_COMPLETE" => task[t] = "returned") =>
               (outcome[t] = "BOUNDED_COMPLETE" => task[t] = "returned")'
    BY <1>18, EndedStays DEF StreamEnds, ThreadSettles
  <2>2. UNCHANGED runVars
    BY <1>18 DEF StreamEnds, ThreadSettles
  <2>3. Waiting'
    BY <1>18, <2>1, <2>2 DEF StreamEnds, ThreadSettles, Settle, runVars, Waiting, Over, TypeOK
  <2>4. cause' => \E t \in Streams : (Ended(t) /\ ~Success(t))'
    BY <2>1, <2>2 DEF Judged, runVars
  <2>5. status # "BOUNDED_PROBE_COMPLETE"
    BY <1>18 DEF StreamEnds, ThreadSettles, Settle, Judged, Success
  <2> QED
    BY <2>1, <2>2, <2>3, <2>4, <2>5 DEF Judged, runVars, Over
<1>19. CASE UNCHANGED vars
  BY <1>19, <1>b DEF vars
<1> QED
  BY <1>1, <1>2, <1>3, <1>4, <1>5, <1>6, <1>7, <1>8, <1>9, <1>10, <1>11, <1>12, <1>13, <1>14,
     <1>15, <1>16, <1>17, <1>18, <1>19 DEF Next, Step, StreamStep, Done

LEMMA InvHolds == Spec => [](TypeOK /\ Waiting /\ Judged)
<1>1. Init => Waiting /\ Judged
  BY DEF Init, Waiting, Judged, Over, Running
<1>2. RunInv /\ TypeOK' /\ [Next]_vars => (Waiting /\ Judged)'
  BY InvStep
<1> QED
  BY <1>1, <1>2, TypeCorrect, PTL DEF Spec, RunInv

\* When run is over no task of a stream is left running, however many streams
\* fail, raise or complete at once and whenever run is cancelled.
THEOREM NothingLeftRunning == Spec => []NoTaskOutlivesRun
<1>1. Waiting => NoTaskOutlivesRun
  BY DEF Waiting, NoTaskOutlivesRun
<1> QED
  BY <1>1, InvHolds, PTL

\* A run reported complete was not disturbed in any stream.
THEOREM CompleteRunsUndisturbed == Spec => []CompleteIsUndisturbed
<1>1. Judged => CompleteIsUndisturbed
  BY DEF Judged, CompleteIsUndisturbed, Success
<1> QED
  BY <1>1, InvHolds, PTL

\* A step that cancels a stream has a cause.
LEMMA CancelsHaveACause ==
  ASSUME TypeOK, Waiting, Judged, [Next]_vars, asked' # asked
  PROVE  cancels > 0 \/ \E s \in Streams : Ended(s) /\ ~Success(s)
<1>0. bounded' = bounded
  BY BoundedStays
<1>1. CASE StopOthers
  BY <1>1 DEF StopOthers, Judged
<1>2. CASE ToldGathering
  BY <1>2 DEF ToldGathering, Waiting
<1>3. CASE CancelAll
  BY <1>3 DEF CancelAll, Waiting
<1>4. ASSUME NEW s \in Streams, StreamEnds(s) \/ ThreadSettles(s) \/ CleanupStream(s) PROVE FALSE
  BY <1>4, <1>0, EndedStays DEF StreamEnds, ThreadSettles, CleanupStream
<1>5. CASE UNCHANGED lifeVars
  BY <1>5 DEF lifeVars
<1> QED
  BY <1>1, <1>2, <1>3, <1>4, <1>5 DEF Next, Step, StreamStep, Preflight, Reconcile, Start, CreationFails, Wait,
     Continue, Gather, Collect, ToldWaiting, Stopped, Judge, WriteReport, Tell, Done, lifeVars, vars

\* Streams are cancelled only after one ended without success, or run was
\* cancelled.
THEOREM HealthyRunsCancelNobody == Spec => HealthyRunCancelsNobody
<1>1. TypeOK /\ Waiting /\ Judged /\ [Next]_vars =>
        [asked' # asked => cancels > 0 \/ \E s \in Streams : Ended(s) /\ ~Success(s)]_vars
  BY CancelsHaveACause
<1> QED
  BY <1>1, InvHolds, PTL DEF Spec, HealthyRunCancelsNobody

=============================================================================
