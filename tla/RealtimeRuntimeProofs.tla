----------------------- MODULE RealtimeRuntimeProofs -----------------------
(***************************************************************************)
(* Two things about run_realtime_runtime, for any number of runs, ticks    *)
(* and requests, with either prefetch policy, and with exceptions wherever *)
(* the model has them:                                                     *)
(*   - it uses its backend within the backend's specification, so what     *)
(*     ThreadedBackendProofs shows of the backend alone holds in a run;    *)
(*   - the scheduler's table of requests and the backend's mailbox agree.  *)
(***************************************************************************)
EXTENDS RealtimeRuntime, ThreadedBackendProofs, SequenceTheorems

(***************************************************************************)
(* A cancel_queued() for an id that waits no more does nothing.            *)
(***************************************************************************)
LEMMA WithdrawIsBackendStep ==
    ASSUME NEW id, Withdraw(id)
    PROVE  [Next]_vars
<1>1. CASE CancelQueued(id)
  <2>1. id \in Ids(queued)
    BY <1>1 DEF CancelQueued
  <2>2. QED
    BY <1>1, <2>1 DEF Next, Control
<1>2. CASE UNCHANGED vars
  BY <1>2
<1>3. QED
  BY <1>1, <1>2 DEF Withdraw

(***************************************************************************)
(* Every step of a run is a step of the backend or leaves it alone.        *)
(***************************************************************************)
LEMMA RuntimeStepIsBackendStep ==
    ASSUME episode \in Episodes, [RuntimeNext]_runtimeVars
    PROVE  [Next]_vars
<1>1. CASE UNCHANGED runtimeVars
  BY <1>1 DEF runtimeVars
<1>2. ASSUME NEW e \in Episodes, StartRun(e)
      PROVE  [Next]_vars
  BY <1>2 DEF StartRun, Next, Control
<1>3. CASE ControlThread
  <2>1. CASE \/ StartTick \/ PollRaises \/ EndPollStep \/ SkipStep
             \/ CaptureRaises \/ ExecuteStep \/ EndLoop \/ JoinStep
    BY <2>1 DEF StartTick, PollRaises, EndPollStep, SkipStep, CaptureRaises,
                ExecuteStep, EndLoop, JoinStep
  <2>2. CASE PollStep \/ CloseStep
    BY <2>2 DEF PollStep, CloseStep, Next, Control
  <2>3. CASE CollectStep
    BY <2>3, WithdrawIsBackendStep DEF CollectStep
  <2>4. ASSUME NEW id \in requests, ExpireStep(id)
        PROVE  [Next]_vars
    BY <2>4, WithdrawIsBackendStep DEF ExpireStep
  <2>5. CASE SubmitStep \/ CancelStep
    BY <2>5 DEF SubmitStep, CancelStep, Next, Control
  <2>6. QED
    BY <1>3, <2>1, <2>2, <2>3, <2>4, <2>5 DEF ControlThread
<1>4. CASE WorkerThread
  BY <1>4 DEF WorkerThread, Next
<1>5. CASE Clock
  BY <1>5 DEF Clock
<1>6. QED
  BY <1>1, <1>2, <1>3, <1>4, <1>5 DEF RuntimeNext

(***************************************************************************)
(* The episode of the run is one of the given ones.                        *)
(***************************************************************************)
LEMMA EpisodeStep ==
    ASSUME episode \in Episodes, [RuntimeNext]_runtimeVars
    PROVE  episode' \in Episodes
BY DEF RuntimeNext, ControlThread, runtimeVars, runtime, run, StartRun, StartTick,
       PollStep, PollRaises, CollectStep, ExpireStep, EndPollStep, SkipStep,
       SubmitStep, CaptureRaises, ExecuteStep, EndLoop, CancelStep, CloseStep,
       JoinStep, WorkerThread, Clock

LEMMA EpisodeIsOne == RuntimeSpec => [](episode \in Episodes)
<1>1. RuntimeInit => episode \in Episodes
  BY DEF RuntimeInit
<1>2. episode \in Episodes /\ [RuntimeNext]_runtimeVars => (episode \in Episodes)'
  BY EpisodeStep
<1>3. QED
  BY <1>1, <1>2, PTL DEF RuntimeSpec

(***************************************************************************)
(* run_realtime_runtime implements the control thread of ThreadedBackend:  *)
(* its calls, in the order the loop and its cleanup make them, are among   *)
(* those the backend's own specification allows.                           *)
(***************************************************************************)
THEOREM RuntimeUsesBackend == RuntimeSpec => Spec
<1>1. RuntimeInit => Init
  BY DEF RuntimeInit
<1>2. episode \in Episodes /\ [RuntimeNext]_runtimeVars => [Next]_vars
  BY RuntimeStepIsBackendStep
<1>3. QED
  BY <1>1, <1>2, EpisodeIsOne, PTL DEF RuntimeSpec, Spec

(***************************************************************************)
(* In a run, too, no outcome of an invalidated episode is left to be       *)
(* polled, nothing submitted is lost silently, every request is answered   *)
(* at most once, and the model is clean when it is used.                   *)
(***************************************************************************)
THEOREM RuntimeBackendSafe ==
    RuntimeSpec => [](NoStaleOutcome /\ NoSilentLoss /\ OutcomeOnce /\ CleanInference)
BY RuntimeUsesBackend, NoStaleOutcomes, NothingLost, OutcomesUnique, ModelAlwaysClean, PTL

----------------------------------------------------------------------------
(***************************************************************************)
(* Where the control thread may hold polled results, and what those are.   *)
(***************************************************************************)
BatchInv ==
    /\ batch \in Seq([id : Nat, kind : {"prediction", "failure"}])
    /\ stage # "polling" => batch = <<>>
    /\ stage = "polling" => loop \in {"loop", "draining"}
    /\ \A i \in DOMAIN batch :
           batch[i].id \in Ids(delivered) /\ batch[i].id >= runFloor

(***************************************************************************)
(* The present run began with a reset of the backend.                      *)
(***************************************************************************)
FloorInv ==
    /\ episode \in Episodes
    /\ runFloor \in Nat /\ runFloor <= nextRequestId
    /\ loop # "idle" => \A e \in Episodes : floor[e] >= runFloor
    /\ \A s \in queued : s.episode = episode

RunInv == BatchInv /\ FloorInv /\ WaitingIsWanted

LEMMA RunInvInit == RuntimeInit => RunInv
BY DEF RuntimeInit, Init, Scheduler!Init, RunInv, BatchInv, FloorInv, WaitingIsWanted, Ids

(***************************************************************************)
(* Of what a run does to the backend only a step of the worker, a poll and *)
(* a withdrawal happen while results are looked at.                        *)
(***************************************************************************)
LEMMA FloorStep ==
    ASSUME IndInv, FloorInv, [RuntimeNext]_runtimeVars
    PROVE  FloorInv'
<1> USE DEF FloorInv, IndInv, TypeOK, Submission
<1> USE DEF vars, control, dict, worker, model, history, runtime, run, scheduler
<1>1. CASE UNCHANGED runtimeVars
  BY <1>1 DEF runtimeVars
<1>2. ASSUME NEW e \in Episodes, StartRun(e)
      PROVE  FloorInv'
  BY <1>2 DEF StartRun, Reset
<1>3. CASE \/ StartTick \/ PollRaises \/ EndPollStep \/ SkipStep
           \/ CaptureRaises \/ ExecuteStep \/ EndLoop \/ JoinStep \/ Clock
  BY <1>3 DEF StartTick, PollRaises, EndPollStep, SkipStep, CaptureRaises, ExecuteStep,
              EndLoop, JoinStep, Clock, AtPoll
<1>4. CASE PollStep \/ CloseStep
  BY <1>4 DEF PollStep, CloseStep, Poll, Close
<1>5. ASSUME NEW id, Withdraw(id), UNCHANGED runtime
      PROVE  FloorInv'
  BY <1>5 DEF Withdraw, CancelQueued
<1>6. CASE CollectStep
  BY <1>5, <1>6 DEF CollectStep
<1>7. ASSUME NEW id \in requests, ExpireStep(id)
      PROVE  FloorInv'
  BY <1>5, <1>7 DEF ExpireStep
<1>8. CASE SubmitStep
  BY <1>8 DEF SubmitStep, Submit, Mailbox
<1>9. CASE CancelStep
  BY <1>9 DEF CancelStep, CancelEpisode
<1>10. CASE WorkerThread
  BY <1>10 DEF WorkerThread, Worker, WorkerWait, WorkerStop, WorkerDequeue, WorkerKeep,
               WorkerReset, WorkerResetFails, WorkerInfer, WorkerInferFails, WorkerPublish
<1>11. QED
  BY <1>1, <1>2, <1>3, <1>4, <1>6, <1>7, <1>8, <1>9, <1>10 DEF RuntimeNext, ControlThread

LEMMA FunctionIsSequence ==
    ASSUME NEW S, NEW n \in Nat, NEW s \in [1 .. n -> S]
    PROVE  s \in Seq(S)
BY SeqDef, Zenon

LEMMA BatchStep ==
    ASSUME IndInv, BatchInv, FloorInv, [RuntimeNext]_runtimeVars
    PROVE  BatchInv'
<1> USE DEF BatchInv, FloorInv, Ids
<1> USE DEF vars, control, dict, worker, model, history, runtime, run, scheduler
<1>1. CASE UNCHANGED runtimeVars
  BY <1>1 DEF runtimeVars
<1>2. ASSUME NEW e \in Episodes, StartRun(e)
      PROVE  BatchInv'
  BY <1>2 DEF StartRun, Reset
<1>3. CASE \/ StartTick \/ PollRaises \/ EndPollStep \/ SkipStep
           \/ CaptureRaises \/ ExecuteStep \/ EndLoop \/ JoinStep \/ Clock
  <2>1. CASE StartTick
    BY <2>1 DEF StartTick, Scheduler!BeginTick
  <2>2. CASE PollRaises
    BY <2>2 DEF PollRaises, AtPoll
  <2>3. CASE EndPollStep
    BY <2>3 DEF EndPollStep, Scheduler!EndPoll
  <2>4. CASE SkipStep
    BY <2>4 DEF SkipStep, Scheduler!Skip
  <2>5. CASE CaptureRaises
    BY <2>5 DEF CaptureRaises
  <2>6. CASE ExecuteStep
    BY <2>6 DEF ExecuteStep
  <2>7. CASE EndLoop
    BY <2>7 DEF EndLoop
  <2>8. CASE JoinStep
    BY <2>8 DEF JoinStep
  <2>9. CASE Clock
    BY <2>9 DEF Clock, Scheduler!TimePasses, Scheduler!position
  <2>10. QED
    BY <1>3, <2>1, <2>2, <2>3, <2>4, <2>5, <2>6, <2>7, <2>8, <2>9
<1>4. CASE PollStep
  <2>1. PICK n \in 0 .. MaxRequests : \E outcomes \in [1 .. n -> Outcomes] :
             OldestFirst(outcomes) /\ Scheduler!Poll(outcomes)
    BY <1>4 DEF PollStep
  <2>2. PICK outcomes \in [1 .. n -> Outcomes] : Scheduler!Poll(outcomes)
    BY <2>1
  <2>3. batch' = outcomes /\ stage' = "polling" /\ loop \in {"loop", "draining"}
        /\ UNCHANGED <<loop, runFloor>>
    BY <1>4, <2>2 DEF PollStep, AtPoll, Scheduler!Poll
  <2>4. \A o \in Outcomes : /\ o \in [id : Nat, kind : {"prediction", "failure"}]
                            /\ o.id \in Ids(results) /\ o.id >= runFloor
    BY <2>3 DEF Outcomes, IndInv, TypeOK, Result, GenerationInv
  <2>5. Ids(results) \subseteq Ids(delivered')
    BY <1>4 DEF PollStep, Poll
  <2>6. n \in Nat
    BY BoundsAssumption
  <2>7. batch' \in Seq([id : Nat, kind : {"prediction", "failure"}])
    <3>1. outcomes \in [1 .. n -> [id : Nat, kind : {"prediction", "failure"}]]
      BY <2>4, Zenon
    <3>2. outcomes \in Seq([id : Nat, kind : {"prediction", "failure"}])
      BY <2>6, <3>1, FunctionIsSequence
    <3>3. QED
      BY <2>3, <3>2
  <2>8. QED
    BY <2>2, <2>3, <2>4, <2>5, <2>7
<1>5. CASE CollectStep
  <2>1. batch # <<>> /\ batch' = Tail(batch) /\ UNCHANGED <<stage, loop, runFloor>>
    BY <1>5 DEF CollectStep, Scheduler!Collect, Scheduler!DiscardUnknown,
                Scheduler!DiscardInvalid, Scheduler!CollectFailure, Scheduler!CollectLate,
                Scheduler!CollectSuperseded, Scheduler!CollectCompleted, Scheduler!Handling
  <2>2. stage = "polling"
    BY <2>1
  <2>3. UNCHANGED delivered
    BY <1>5 DEF CollectStep, Withdraw, CancelQueued
  <2>4. /\ Tail(batch) \in Seq([id : Nat, kind : {"prediction", "failure"}])
        /\ \A i \in DOMAIN Tail(batch) : i + 1 \in DOMAIN batch /\ Tail(batch)[i] = batch[i + 1]
    BY <2>1
  <2>5. QED
    BY <2>1, <2>2, <2>3, <2>4
<1>6. ASSUME NEW id \in requests, ExpireStep(id)
      PROVE  BatchInv'
  BY <1>6 DEF ExpireStep, Scheduler!Expire, Scheduler!position, Withdraw, CancelQueued
<1>7. CASE SubmitStep
  BY <1>7 DEF SubmitStep, Submit, Scheduler!Submit
<1>8. CASE CancelStep
  BY <1>8 DEF CancelStep, CancelEpisode, Scheduler!CancelEpisode
<1>9. CASE CloseStep
  BY <1>9 DEF CloseStep, Close
<1>10. CASE WorkerThread
  BY <1>10 DEF WorkerThread, Worker, WorkerWait, WorkerStop, WorkerDequeue, WorkerKeep,
               WorkerReset, WorkerResetFails, WorkerInfer, WorkerInferFails, WorkerPublish
<1>11. QED
  BY <1>1, <1>2, <1>3, <1>4, <1>5, <1>6, <1>7, <1>8, <1>9, <1>10
     DEF RuntimeNext, ControlThread

(***************************************************************************)
(* What the scheduler strikes off its table is not in the mailbox: the     *)
(* requests of polled results were delivered, and no delivered request     *)
(* waits (OutcomeOnce); the others are withdrawn in the same step.         *)
(***************************************************************************)
LEMMA WaitingStep ==
    ASSUME IndInv, RunInv, [RuntimeNext]_runtimeVars
    PROVE  WaitingIsWanted'
<1> USE DEF RunInv, WaitingIsWanted, Ids
<1> USE DEF vars, control, dict, worker, model, history, runtime, run, scheduler, tables
<1>1. CASE UNCHANGED runtimeVars
  BY <1>1 DEF runtimeVars
<1>2. ASSUME NEW e \in Episodes, StartRun(e)
      PROVE  WaitingIsWanted'
  BY <1>2 DEF StartRun, Reset
<1>3. CASE \/ StartTick \/ PollRaises \/ EndPollStep \/ SkipStep
           \/ CaptureRaises \/ ExecuteStep \/ EndLoop \/ JoinStep \/ Clock
  BY <1>3 DEF StartTick, PollRaises, EndPollStep, SkipStep, CaptureRaises, ExecuteStep,
              EndLoop, JoinStep, Clock, Scheduler!BeginTick, Scheduler!EndPoll,
              Scheduler!Skip, Scheduler!TimePasses, Scheduler!tables
<1>4. CASE PollStep \/ CloseStep
  BY <1>4 DEF PollStep, CloseStep, Poll, Close, Scheduler!Poll, Scheduler!tables
<1>5. CASE CollectStep
  <2>1. /\ batch # <<>> /\ requests \ {Head(batch).id} \subseteq requests'
        /\ queued' \subseteq queued
    BY <1>5 DEF CollectStep, Withdraw, CancelQueued, Scheduler!Collect,
                Scheduler!DiscardUnknown, Scheduler!DiscardInvalid,
                Scheduler!CollectFailure, Scheduler!CollectLate,
                Scheduler!CollectSuperseded, Scheduler!CollectCompleted,
                Scheduler!Handling, Scheduler!Id, Scheduler!tables
  <2>2. Head(batch).id \in Ids(delivered)
    BY <2>1 DEF BatchInv
  <2>3. Head(batch).id \notin Ids(queued)
    BY <2>2 DEF IndInv, OutcomeOnce
  <2>4. QED
    BY <2>1, <2>3
<1>6. ASSUME NEW id \in requests, ExpireStep(id)
      PROVE  WaitingIsWanted'
  BY <1>6 DEF ExpireStep, Scheduler!Expire, Withdraw, CancelQueued
<1>7. CASE SubmitStep
  <2>1. /\ \A s \in queued' : s.id = nextRequestId
        /\ requests' = (requests \cup {nextRequestId}) \ Ids(queued)
    BY <1>7 DEF SubmitStep, Submit, Mailbox, Scheduler!Submit, Replaced
  <2>2. nextRequestId \notin Ids(queued)
    BY DEF IndInv, TypeOK, OrderInv, Submission
  <2>3. QED
    BY <2>1, <2>2
<1>8. CASE CancelStep
  BY <1>8 DEF CancelStep, CancelEpisode, Scheduler!CancelEpisode, FloorInv
<1>9. CASE WorkerThread
  BY <1>9 DEF WorkerThread, Worker, WorkerWait, WorkerStop, WorkerDequeue, WorkerKeep,
              WorkerReset, WorkerResetFails, WorkerInfer, WorkerInferFails, WorkerPublish
<1>10. QED
  BY <1>1, <1>2, <1>3, <1>4, <1>5, <1>6, <1>7, <1>8, <1>9 DEF RuntimeNext, ControlThread

LEMMA RuntimeInvariance == RuntimeSpec => [](IndInv /\ RunInv)
<1>1. RuntimeInit => RunInv
  BY RunInvInit
<1>2. IndInv /\ RunInv /\ [RuntimeNext]_runtimeVars => RunInv'
  BY BatchStep, FloorStep, WaitingStep DEF RunInv
<1>3. RuntimeSpec => []IndInv
  BY RuntimeUsesBackend, Invariance, PTL
<1>4. QED
  BY <1>1, <1>2, <1>3, PTL DEF RuntimeSpec

(***************************************************************************)
(* The mailbox never holds a request that timed out, was replaced or       *)
(* cancelled, so the model is never started on one.                        *)
(***************************************************************************)
THEOREM MailboxIsWanted == RuntimeSpec => []WaitingIsWanted
<1>1. IndInv /\ RunInv => WaitingIsWanted
  BY DEF RunInv
<1>2. QED
  BY <1>1, RuntimeInvariance, PTL

(***************************************************************************)
(* No run sees a result of an earlier one.                                 *)
(***************************************************************************)
THEOREM ResultsAreOwn == RuntimeSpec => []OwnResults
<1>1. IndInv /\ RunInv => OwnResults
  BY DEF RunInv, BatchInv, FloorInv, OwnResults, IndInv, GenerationInv, TypeOK, Result
<1>2. QED
  BY <1>1, RuntimeInvariance, PTL
----------------------------------------------------------------------------
(***************************************************************************)
(* What the scheduler waits for.  A run invalidates nothing before its     *)
(* cleanup: the floors stay where its reset put them, so what the worker   *)
(* publishes of this run is published and not dropped.                     *)
(***************************************************************************)
LiveInv ==
    loop \in {"loop", "executing"} =>
        /\ ~closed
        /\ \A e \in Episodes : floor[e] = runFloor
        /\ \A id \in requests : id >= runFloor

LEMMA LiveStep ==
    ASSUME IndInv, RunInv, LiveInv, [RuntimeNext]_runtimeVars
    PROVE  LiveInv'
<1> USE DEF LiveInv, RunInv, FloorInv
<1> USE DEF vars, control, dict, worker, model, history, runtime, run, scheduler, tables
<1>1. CASE UNCHANGED runtimeVars
  BY <1>1 DEF runtimeVars
<1>2. ASSUME NEW e \in Episodes, StartRun(e)
      PROVE  LiveInv'
  BY <1>2 DEF StartRun, Reset
<1>3. CASE \/ StartTick \/ PollRaises \/ EndPollStep \/ SkipStep
           \/ CaptureRaises \/ ExecuteStep \/ EndLoop \/ JoinStep \/ Clock
  <2>1. UNCHANGED <<closed, floor, runFloor, requests>>
    BY <1>3 DEF StartTick, PollRaises, EndPollStep, SkipStep, CaptureRaises, ExecuteStep,
                EndLoop, JoinStep, Clock, Scheduler!BeginTick, Scheduler!EndPoll,
                Scheduler!Skip, Scheduler!TimePasses, Scheduler!tables
  <2>2. loop' \in {"loop", "executing"} => loop \in {"loop", "executing"}
    BY <1>3 DEF StartTick, PollRaises, AfterPollRaised, EndPollStep, AfterDrained, SkipStep,
                CaptureRaises, ExecuteStep, EndLoop, JoinStep, Clock
  <2> QED
    BY <2>1, <2>2
<1>4. CASE PollStep
  BY <1>4 DEF PollStep, Poll, Scheduler!Poll, Scheduler!tables
<1>5. CASE CollectStep
  <2>1. requests' \subseteq requests /\ UNCHANGED <<closed, floor, loop, runFloor>>
    BY <1>5 DEF CollectStep, Withdraw, CancelQueued, Scheduler!Collect,
                Scheduler!DiscardUnknown, Scheduler!DiscardInvalid,
                Scheduler!CollectFailure, Scheduler!CollectLate,
                Scheduler!CollectSuperseded, Scheduler!CollectCompleted, Scheduler!tables
  <2> QED
    BY <2>1
<1>6. ASSUME NEW id \in requests, ExpireStep(id)
      PROVE  LiveInv'
  BY <1>6 DEF ExpireStep, Scheduler!Expire, Withdraw, CancelQueued
<1>7. CASE SubmitStep
  BY <1>7 DEF SubmitStep, Submit, Scheduler!Submit
<1>8. CASE CancelStep \/ CloseStep
  BY <1>8 DEF CancelStep, CloseStep
<1>9. CASE WorkerThread
  BY <1>9 DEF WorkerThread, Worker, WorkerWait, WorkerStop, WorkerDequeue, WorkerKeep,
              WorkerReset, WorkerResetFails, WorkerInfer, WorkerInferFails, WorkerPublish
<1>10. QED
  BY <1>1, <1>2, <1>3, <1>4, <1>5, <1>6, <1>7, <1>8, <1>9 DEF RuntimeNext, ControlThread

\* The mailbox holds one request, so a withdrawal takes no other.
LEMMA WithdrawTakesOne ==
    ASSUME IndInv, NEW id, Withdraw(id)
    PROVE  /\ Ids(queued) \subseteq Ids(queued') \cup {id}
           /\ UNCHANGED <<running, results>>
BY DEF Withdraw, CancelQueued, IndInv, TypeOK, Ids, vars, control, worker

LEMMA WorkerLosesNothing ==
    ASSUME IndInv, RunInv, LiveInv, loop \in {"loop", "executing"}, WorkerThread
    PROVE  \A id \in requests : id \in Ids(queued \cup running \cup results) =>
                                    id \in Ids(queued' \cup running' \cup results')
<1> USE DEF vars, control, dict, worker, model, history
<1>1. CASE WorkerDequeue
  <2>1. running = {} /\ running' = queued /\ results' = results
    BY <1>1 DEF WorkerDequeue, IndInv, ModelInv
  <2> QED
    BY <2>1 DEF Ids
<1>2. CASE WorkerPublish
  <2>1. ASSUME NEW s \in running, s.id \in requests
        PROVE  s \in Publishable
    <3>1. s.episode \in Episodes
      BY DEF IndInv, TypeOK, Submission
    <3>2. ~closed /\ s.id >= floor[s.episode]
      BY <2>1, <3>1 DEF LiveInv
    <3> QED
      BY <3>2 DEF IndInv, GenerationInv, Current, Publishable
  <2>2. ASSUME NEW s \in Publishable
        PROVE  s.id \in Ids(results')
    <3>1. [id |-> s.id, episode |-> s.episode, generation |-> s.generation, ok |-> succeeded]
              \in results'
      BY <1>2 DEF WorkerPublish
    <3> QED
      BY <3>1 DEF Ids
  <2>3. queued' = queued /\ results \subseteq results'
    BY <1>2 DEF WorkerPublish
  <2> QED
    BY <2>1, <2>2, <2>3 DEF Ids
<1>3. CASE ~WorkerDequeue /\ ~WorkerPublish
  <2>1. UNCHANGED <<queued, running, results>>
    BY <1>3 DEF WorkerThread, Worker, WorkerWait, WorkerStop, WorkerKeep, WorkerReset,
                WorkerResetFails, WorkerInfer, WorkerInferFails
  <2> QED
    BY <2>1
<1> QED
  BY <1>1, <1>2, <1>3

LEMMA OnItsWayStep ==
    ASSUME IndInv, RunInv, LiveInv, LiveIsOnItsWay, [RuntimeNext]_runtimeVars
    PROVE  LiveIsOnItsWay'
<1> USE DEF LiveIsOnItsWay
<1>a. ASSUME UNCHANGED <<queued, running, results, batch, requests>>,
             loop' \in {"loop", "executing"} => loop \in {"loop", "executing"}
      PROVE  LiveIsOnItsWay'
  BY <1>a DEF Ids
<1>1. CASE \/ StartTick \/ PollRaises \/ EndPollStep \/ SkipStep
           \/ CaptureRaises \/ ExecuteStep \/ EndLoop \/ JoinStep \/ Clock
           \/ UNCHANGED runtimeVars
  <2>1. UNCHANGED <<queued, running, results, batch, requests>>
    BY <1>1 DEF StartTick, PollRaises, EndPollStep, SkipStep, CaptureRaises, ExecuteStep,
                EndLoop, JoinStep, Clock, Scheduler!BeginTick, Scheduler!EndPoll,
                Scheduler!Skip, Scheduler!TimePasses, Scheduler!tables, Scheduler!position,
                runtimeVars, vars, control, worker, scheduler, tables
  <2>2. loop' \in {"loop", "executing"} => loop \in {"loop", "executing"}
    BY <1>1 DEF StartTick, PollRaises, AfterPollRaised, EndPollStep, AfterDrained, SkipStep,
                CaptureRaises, ExecuteStep, EndLoop, JoinStep, Clock, runtimeVars, runtime
  <2> QED
    BY <1>a, <2>1, <2>2
<1>2. ASSUME NEW e \in Episodes, StartRun(e)
      PROVE  LiveIsOnItsWay'
  BY <1>2 DEF StartRun
<1>3. CASE PollStep /\ loop = "loop"
  <2>1. PICK n \in 0 .. MaxRequests : \E outcomes \in [1 .. n -> Outcomes] :
             OldestFirst(outcomes) /\ Scheduler!Poll(outcomes)
    BY <1>3 DEF PollStep
  <2>2. PICK outcomes \in [1 .. n -> Outcomes] : OldestFirst(outcomes) /\ Scheduler!Poll(outcomes)
    BY <2>1
  <2>3. batch' = outcomes /\ batch = <<>> /\ UNCHANGED <<queued, running, requests>>
    BY <1>3, <2>2 DEF PollStep, AtPoll, Poll, Scheduler!Poll, Scheduler!tables, RunInv, BatchInv,
                      worker
  <2>4. Ids(results) \subseteq {batch'[i].id : i \in DOMAIN batch'}
    <3> SUFFICES ASSUME NEW s \in results
                 PROVE  \E i \in DOMAIN outcomes : outcomes[i].id = s.id
      BY <2>3 DEF Ids
    <3>1. \E o \in Outcomes : o.id = s.id
      <4>1. [id |-> s.id, kind |-> IF s.ok THEN "prediction" ELSE "failure"] \in Outcomes
        BY DEF Outcomes
      <4> QED
        BY <4>1
    <3> QED
      BY <2>2, <3>1 DEF OldestFirst
  <2> QED
    BY <1>3, <2>3, <2>4 DEF Ids
<1>4. CASE CollectStep
  <2>1. /\ batch # <<>> /\ batch' = Tail(batch) /\ requests' \subseteq requests
        /\ Head(batch).id \notin requests' /\ UNCHANGED loop
    BY <1>4 DEF CollectStep, Scheduler!Collect, Scheduler!DiscardUnknown,
                Scheduler!DiscardInvalid, Scheduler!CollectFailure, Scheduler!CollectLate,
                Scheduler!CollectSuperseded, Scheduler!CollectCompleted,
                Scheduler!Handling, Scheduler!Id, Scheduler!Known, Scheduler!tables, runtime
  <2>2. /\ Ids(queued) \subseteq Ids(queued') \cup {Head(batch).id}
        /\ UNCHANGED <<running, results>>
    BY <1>4, WithdrawTakesOne DEF CollectStep, Scheduler!Id, vars, control, worker
  <2>3. \A i \in DOMAIN batch : \/ batch[i].id = Head(batch).id
                                \/ batch[i].id \in {batch'[j].id : j \in DOMAIN batch'}
    <3> SUFFICES ASSUME NEW i \in DOMAIN batch, i # 1
                 PROVE  \E j \in DOMAIN batch' : batch'[j] = batch[i]
      BY <2>1 DEF RunInv, BatchInv
    <3>1. i - 1 \in DOMAIN Tail(batch) /\ Tail(batch)[i - 1] = batch[i]
      BY <2>1 DEF RunInv, BatchInv
    <3> QED
      BY <2>1, <3>1
  <2> QED
    BY <2>1, <2>2, <2>3 DEF Ids
<1>5. ASSUME NEW id \in requests, ExpireStep(id)
      PROVE  LiveIsOnItsWay'
  <2>1. requests' = requests \ {id} /\ UNCHANGED <<batch, loop>>
    BY <1>5 DEF ExpireStep, Scheduler!Expire, Scheduler!position, runtime
  <2>2. Ids(queued) \subseteq Ids(queued') \cup {id} /\ UNCHANGED <<running, results>>
    BY <1>5, WithdrawTakesOne DEF ExpireStep
  <2> QED
    BY <2>1, <2>2 DEF Ids
<1>6. CASE SubmitStep
  <2>1. /\ requests' = (requests \cup {nextRequestId}) \ Ids(queued)
        /\ nextRequestId \in Ids(queued') /\ UNCHANGED <<running, results, batch>>
        /\ loop = "loop"
    BY <1>6 DEF SubmitStep, Submit, Mailbox, Scheduler!Submit, Replaced, Ids
  <2> QED
    BY <2>1 DEF Ids
<1>7. CASE CancelStep \/ CloseStep
  BY <1>7 DEF CancelStep, CloseStep
<1>8. CASE WorkerThread
  <2>1. UNCHANGED <<batch, requests, loop>>
    BY <1>8 DEF WorkerThread, scheduler, tables, runtime
  <2> QED
    BY <1>8, <2>1, WorkerLosesNothing DEF Ids
<1>9. CASE PollStep /\ loop # "loop"
  BY <1>9 DEF PollStep, AtPoll, runtime
<1> QED
  BY <1>1, <1>2, <1>3, <1>4, <1>5, <1>6, <1>7, <1>8, <1>9 DEF RuntimeNext, ControlThread

(***************************************************************************)
(* While the loop runs, a request the scheduler waits for waits, runs or   *)
(* is answered; it never waits for what was replaced, withdrawn or lost    *)
(* (worker_async.py:254-297).                                              *)
(***************************************************************************)
THEOREM WaitsForRealWork == RuntimeSpec => []LiveIsOnItsWay
<1>1. RuntimeInit => LiveInv /\ LiveIsOnItsWay
  BY DEF RuntimeInit, LiveInv, LiveIsOnItsWay
<1>2. /\ IndInv /\ RunInv /\ LiveInv /\ LiveIsOnItsWay /\ [RuntimeNext]_runtimeVars
      => LiveInv' /\ LiveIsOnItsWay'
  BY LiveStep, OnItsWayStep
<1>3. QED
  BY <1>1, <1>2, RuntimeInvariance, PTL DEF RuntimeSpec
----------------------------------------------------------------------------
(***************************************************************************)
(* The end of a run.  What can still have an outcome belongs to the        *)
(* episode that the cleanup cancels; a model call of an earlier run cannot, *)
(* since the reset moved every generation on.                              *)
(***************************************************************************)
OwnWork ==
    /\ \A r \in results : r.episode = episode
    /\ \A s \in running : Current(s) => s.episode = episode

OverInv ==
    /\ loop \in {"idle", "closing", "joining"} =>
           /\ queued = {} /\ results = {} /\ requests = {}
           /\ \A s \in running : ~Current(s)
    /\ loop = "joining" => closed
    /\ loop = "idle" /\ closeBackend => closed

LEMMA OwnWorkStep ==
    ASSUME IndInv, RunInv, OwnWork, [RuntimeNext]_runtimeVars
    PROVE  OwnWork'
<1> USE DEF OwnWork, Current
<1> USE DEF vars, control, dict, worker, model, history, runtime, run
<1>a. ASSUME UNCHANGED <<running, results, generations, episode>>
      PROVE  OwnWork'
  BY <1>a
<1>1. ASSUME NEW e \in Episodes, StartRun(e)
      PROVE  OwnWork'
  <2>1. ASSUME NEW s \in running
        PROVE  ~Current(s)'
    <3>1. s.episode \in known /\ s.episode \in Episodes /\ s.generation \in Nat
          /\ s.generation <= generations[s.episode] /\ generations[s.episode] \in Nat
      BY DEF IndInv, TypeOK, Submission, GenerationInv
    <3>2. generations'[s.episode] = generations[s.episode] + 1
      BY <1>1, <3>1 DEF StartRun, Reset, Bumped
    <3> QED
      BY <3>1, <3>2
  <2>2. results' = {} /\ running' = running
    BY <1>1 DEF StartRun, Reset
  <2> QED
    BY <2>1, <2>2
<1>2. CASE \/ StartTick \/ PollRaises \/ EndPollStep \/ SkipStep
           \/ CaptureRaises \/ ExecuteStep \/ EndLoop \/ JoinStep \/ Clock
           \/ UNCHANGED runtimeVars
  <2>1. UNCHANGED <<running, results, generations, episode>>
    BY <1>2 DEF StartTick, PollRaises, EndPollStep, SkipStep, CaptureRaises, ExecuteStep,
                EndLoop, JoinStep, Clock, runtimeVars
  <2> QED
    BY <1>a, <2>1
<1>3. CASE PollStep
  BY <1>3 DEF PollStep, Poll, AfterPoll
<1>4. CASE \/ CollectStep \/ \E id \in requests : ExpireStep(id)
  <2>1. UNCHANGED <<running, results, generations, episode>>
    BY <1>4 DEF CollectStep, ExpireStep, Withdraw, CancelQueued
  <2> QED
    BY <1>a, <2>1
<1>5. CASE SubmitStep
  <2>1. UNCHANGED <<running, results, generations, episode>>
    BY <1>5 DEF SubmitStep, Submit
  <2> QED
    BY <1>a, <2>1
<1>6. CASE CloseStep
  <2>1. UNCHANGED <<running, results, generations, episode>>
    BY <1>6 DEF CloseStep, Close
  <2> QED
    BY <1>a, <2>1
<1>7. CASE CancelStep
  <2>1. ASSUME NEW s \in running, s.episode # episode
        PROVE  ~Current(s)'
    <3>1. s.episode \in Episodes /\ generations'[s.episode] = generations[s.episode]
      BY <1>7, <2>1 DEF CancelStep, CancelEpisode, Bumped, IndInv, TypeOK, Submission
    <3> QED
      BY <2>1, <3>1
  <2>2. running' = running /\ results' \subseteq results /\ episode' = episode
    BY <1>7 DEF CancelStep, CancelEpisode
  <2> QED
    BY <2>1, <2>2
<1>8. CASE WorkerThread
  <2>1. UNCHANGED <<generations, episode>>
    BY <1>8 DEF WorkerThread, Worker, WorkerWait, WorkerStop, WorkerDequeue, WorkerKeep,
                WorkerReset, WorkerResetFails, WorkerInfer, WorkerInferFails, WorkerPublish
  <2>2. CASE WorkerDequeue
    <3>1. running' = queued /\ results' = results
      BY <2>2 DEF WorkerDequeue
    <3> QED
      BY <2>1, <3>1 DEF RunInv, FloorInv
  <2>3. CASE WorkerPublish
    <3>1. /\ running' = {}
          /\ \A r \in results' : r \in results \/ \E s \in Publishable : r.episode = s.episode
      BY <2>3 DEF WorkerPublish
    <3> QED
      BY <2>1, <3>1 DEF Publishable
  <2>4. CASE ~WorkerDequeue /\ ~WorkerPublish
    <3>1. UNCHANGED <<running, results>>
      BY <1>8, <2>4 DEF WorkerThread, Worker, WorkerWait, WorkerStop, WorkerKeep, WorkerReset,
                        WorkerResetFails, WorkerInfer, WorkerInferFails
    <3> QED
      BY <1>a, <2>1, <3>1
  <2> QED
    BY <2>2, <2>3, <2>4
<1> QED
  BY <1>1, <1>2, <1>3, <1>4, <1>5, <1>6, <1>7, <1>8 DEF RuntimeNext, ControlThread

LEMMA OverStep ==
    ASSUME IndInv, RunInv, OwnWork, OverInv, [RuntimeNext]_runtimeVars
    PROVE  OverInv'
<1> USE DEF OverInv, Current
<1> USE DEF vars, control, dict, worker, model, history, runtime, run
<1>a. ASSUME loop' \notin {"idle", "closing", "joining"}
      PROVE  OverInv'
  BY <1>a
<1>1. ASSUME NEW e \in Episodes, StartRun(e)
      PROVE  OverInv'
  BY <1>1, <1>a DEF StartRun
<1>2. CASE \/ StartTick \/ PollRaises \/ EndPollStep \/ SkipStep \/ CaptureRaises
           \/ ExecuteStep \/ EndLoop \/ SubmitStep \/ PollStep
  <2>1. loop' \notin {"idle", "closing", "joining"}
    BY <1>2 DEF StartTick, PollRaises, AfterPollRaised, EndPollStep, AfterDrained, SkipStep,
                CaptureRaises, ExecuteStep, EndLoop, SubmitStep, PollStep, AtPoll,
                Scheduler!EndPoll, RunInv, BatchInv
  <2> QED
    BY <1>a, <2>1
<1>3. CASE \/ CollectStep \/ \E id \in requests : ExpireStep(id)
  <2>1. stage = "polling" /\ loop' = loop
    BY <1>3 DEF CollectStep, ExpireStep, Scheduler!Collect, Scheduler!DiscardUnknown,
                Scheduler!DiscardInvalid, Scheduler!CollectFailure, Scheduler!CollectLate,
                Scheduler!CollectSuperseded, Scheduler!CollectCompleted,
                Scheduler!Handling, Scheduler!Expire
  <2> QED
    BY <1>a, <2>1 DEF RunInv, BatchInv
<1>4. CASE CancelStep
  <2>1. /\ queued' = {s \in queued : s.episode # episode}
        /\ results' = {r \in results : r.episode # episode}
        /\ requests' = {} /\ UNCHANGED <<running, closeBackend>>
        /\ loop' = IF closeBackend THEN "closing" ELSE "idle"
        /\ generations' = Bumped({episode})
    BY <1>4 DEF CancelStep, CancelEpisode, Scheduler!CancelEpisode
  <2>2. ASSUME NEW s \in running
        PROVE  ~Current(s)'
    <3>1. /\ s.episode \in Episodes /\ s.generation \in Nat /\ generations[s.episode] \in Nat
          /\ s.generation <= generations[s.episode]
      BY DEF IndInv, TypeOK, Submission, GenerationInv
    <3>2. CASE s.episode = episode
      <4>1. generations'[s.episode] = generations[s.episode] + 1
        BY <2>1, <3>1, <3>2 DEF Bumped
      <4> QED
        BY <3>1, <4>1
    <3>3. CASE s.episode # episode
      <4>1. generations'[s.episode] = generations[s.episode]
        BY <2>1, <3>1, <3>3 DEF Bumped, IndInv, TypeOK
      <4> QED
        BY <3>3, <4>1 DEF OwnWork
    <3> QED
      BY <3>2, <3>3
  <2> QED
    BY <2>1, <2>2 DEF OwnWork, RunInv, FloorInv
<1>5. CASE CloseStep
  BY <1>5 DEF CloseStep, Close, scheduler, tables
<1>6. CASE JoinStep
  BY <1>6 DEF JoinStep, scheduler, tables
<1>7. CASE Clock
  BY <1>7 DEF Clock, Scheduler!TimePasses, Scheduler!tables
<1>8. CASE UNCHANGED runtimeVars
  BY <1>8 DEF runtimeVars, scheduler, tables
<1>9. CASE WorkerThread /\ loop \in {"idle", "closing", "joining"}
  <2>1. UNCHANGED <<loop, closeBackend, requests, generations, closed>>
    BY <1>9 DEF WorkerThread, Worker, WorkerWait, WorkerStop, WorkerDequeue, WorkerKeep,
                WorkerReset, WorkerResetFails, WorkerInfer, WorkerInferFails, WorkerPublish,
                scheduler, tables
  <2>2. ~WorkerDequeue
    BY <1>9 DEF WorkerDequeue
  <2>3. Publishable = {}
    BY <1>9 DEF Publishable
  <2>4. queued' = {} /\ results' = {} /\ running' \subseteq running
    BY <1>9, <2>2, <2>3 DEF WorkerThread, Worker, WorkerWait, WorkerStop, WorkerKeep,
         WorkerReset, WorkerResetFails, WorkerInfer, WorkerInferFails, WorkerPublish
  <2> QED
    BY <1>9, <2>1, <2>4
<1>10. CASE WorkerThread /\ loop \notin {"idle", "closing", "joining"}
  BY <1>10, <1>a DEF WorkerThread
<1> QED
  BY <1>1, <1>2, <1>3, <1>4, <1>5, <1>6, <1>7, <1>8, <1>9, <1>10 DEF RuntimeNext, ControlThread

(***************************************************************************)
(* However a run ended, also by exceptions in the loop and in the cleanup, *)
(* nothing of it waits, is answered or can still be answered, and the      *)
(* backend is closed if that was asked for (runtime.py:301-316).           *)
(***************************************************************************)
THEOREM RunsCleanUp == RuntimeSpec => []CleanedUp
<1>1. RuntimeInit => OwnWork /\ OverInv
  BY DEF RuntimeInit, Init, Scheduler!Init, OwnWork, OverInv
<1>2. /\ IndInv /\ RunInv /\ OwnWork /\ OverInv /\ [RuntimeNext]_runtimeVars
      => OwnWork' /\ OverInv'
  BY OwnWorkStep, OverStep
<1>3. OverInv => CleanedUp
  BY DEF OverInv, CleanedUp
<1>4. QED
  BY <1>1, <1>2, <1>3, RuntimeInvariance, PTL DEF RuntimeSpec
============================================================================
