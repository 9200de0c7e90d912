-------------------------- MODULE RealtimeRuntime --------------------------
(***************************************************************************)
(* run_realtime_runtime (src/robovla_runtime/runtime.py): the control loop *)
(* of an episode, with its WorkerAsyncScheduler and a                      *)
(* ThreadedPolicyBackend.  The control thread walks through the loop and   *)
(* its cleanup; the worker thread, the model and the clock run beside it.  *)
(* Runs follow one another on the same backend as long as it stays open.   *)
(***************************************************************************)
EXTENDS ThreadedBackend, Sequences

CONSTANTS
    Modes, HistorySize,      \* as in WorkerScheduler
    TickCount,               \* ticks of a run
    MaxRuns                  \* bound: runs on the same backend

ASSUME RuntimeAssumption ==
    TickCount \in Nat /\ MaxRuns \in Nat

VARIABLES
    adaptive, requests, retired, latestAccepted, now, stage, batch, clock,
    fate, accepted, sampled, cancelledBelow, polledAt,   \* of the scheduler
    loop,      \* where the control thread stands in run_realtime_runtime
    ticks,     \* tick_id
    runs,      \* runs started so far
    episode,   \* episode_id
    closeBackend,  \* the close_backend argument of the present run
    runFloor   \* the first request id of the present run

Scheduler == INSTANCE WorkerScheduler
                 WITH submitted <- nextRequestId, MaxBatch <- MaxRequests

tables      == <<requests, retired, latestAccepted>>
log         == <<fate, accepted, sampled, cancelledBelow, polledAt>>
scheduler   == <<adaptive, tables, now, stage, batch, clock, log>>
run         == <<runs, episode, closeBackend, runFloor>>
runtime     == <<loop, ticks, run>>
runtimeVars == <<vars, scheduler, runtime>>

RuntimeInit ==
    /\ Init /\ Scheduler!Init
    /\ loop = "idle" /\ ticks = 0
    /\ runs = 0 /\ episode \in Episodes /\ closeBackend = FALSE /\ runFloor = 0

(***************************************************************************)
(* Definitions named Faulty... are not part of the model: each is a slip   *)
(* the code could have made, to be put in the place of the definition      *)
(* after it to see that a property notices.                                *)
(***************************************************************************)
FaultyWithdraw(id) == UNCHANGED vars         \* the mailbox is not told
Withdraw(id) == \/ CancelQueued(id)
                \/ id \notin Ids(queued) /\ UNCHANGED vars

FaultyAfterPollRaised == IF loop = "draining" THEN "idle" ELSE "draining"
AfterPollRaised == IF loop = "draining" THEN "cancelling" ELSE "draining"

FaultyJoined == pc = "stopped"               \* join without a timeout
Joined == TRUE

FaultyReplaced == {}                         \* the receipt does not name it
Replaced == Ids(queued)

AfterDrained == "cancelling"

----------------------------------------------------------------------------
\* What backend.poll() returns, oldest first.
Outcomes == {[id |-> r.id, kind |-> IF r.ok THEN "prediction" ELSE "failure"] : r \in results}
OldestFirst(outcomes) ==
    /\ {outcomes[i] : i \in DOMAIN outcomes} = Outcomes
    /\ \A i, j \in DOMAIN outcomes : i < j => outcomes[i].id < outcomes[j].id

\* The preparation: a new scheduler, a new buffer, and a reset of the backend.
StartRun(e) ==
    /\ loop = "idle" /\ runs < MaxRuns
    /\ Reset(e)
    /\ adaptive' \in Modes
    /\ requests' = {} /\ retired' = <<>> /\ latestAccepted' = -1
    /\ loop' = "loop" /\ ticks' = 0
    /\ runs' = runs + 1 /\ episode' = e /\ runFloor' = nextRequestId
    /\ closeBackend' \in BOOLEAN
    /\ UNCHANGED <<now, stage, batch, clock, log>>

StartTick ==
    /\ loop = "loop" /\ ticks < TickCount
    /\ Scheduler!BeginTick
    /\ UNCHANGED <<vars, runtime>>

\* In tick(), and once more in the cleanup.
AtPoll == \/ loop = "loop" /\ stage = "ticking"
          \/ loop = "draining" /\ stage = "out"

PollStep ==
    /\ AtPoll
    /\ \E n \in 0 .. MaxRequests : \E outcomes \in [1 .. n -> Outcomes] :
           OldestFirst(outcomes) /\ Scheduler!Poll(outcomes)
    /\ Poll
    /\ UNCHANGED runtime

\* An exception leaves the loop for the finally clause, and this clause's poll
\* for the clause inside it.
PollRaises ==
    /\ AtPoll
    /\ loop' = AfterPollRaised
    /\ stage' = "out" /\ now' = 0
    /\ UNCHANGED <<vars, adaptive, tables, batch, clock, log, ticks, run>>

\* Looking at one result; one that turns out to be late is also withdrawn.
CollectStep ==
    /\ Scheduler!Collect
    /\ IF Scheduler!Timeout(Scheduler!Id) = <<>> THEN UNCHANGED vars
                                                 ELSE Withdraw(Scheduler!Id)
    /\ UNCHANGED runtime

ExpireStep(id) ==
    /\ Scheduler!Expire(id) /\ Withdraw(id)
    /\ UNCHANGED runtime

EndPollStep ==
    /\ Scheduler!EndPoll
    /\ loop' = IF loop = "draining" THEN AfterDrained ELSE loop
    /\ UNCHANGED <<vars, ticks, run>>

SkipStep ==
    /\ loop = "loop" /\ Scheduler!Skip
    /\ loop' = "executing"
    /\ UNCHANGED <<vars, ticks, run>>

SubmitStep ==
    /\ loop = "loop" /\ Scheduler!Submit(Replaced) /\ Submit(episode)
    /\ loop' = "executing"
    /\ UNCHANGED <<ticks, run>>

\* environment.observe or the payload factory raised.
CaptureRaises ==
    /\ loop = "loop" /\ stage = "polled" /\ Scheduler!MaySubmit
    /\ loop' = "draining" /\ stage' = "out"
    /\ UNCHANGED <<vars, adaptive, tables, now, batch, clock, log, ticks, run>>

\* executor.tick, which waits for nobody.
ExecuteStep ==
    /\ loop = "executing"
    /\ \/ loop' = "loop" /\ ticks' = ticks + 1
       \/ loop' = "draining" /\ UNCHANGED ticks          \* the environment raised
    /\ UNCHANGED <<vars, scheduler, run>>

EndLoop ==
    /\ loop = "loop" /\ ticks = TickCount /\ stage = "out"
    /\ loop' = "draining"
    /\ UNCHANGED <<vars, scheduler, ticks, run>>

CancelStep ==
    /\ loop = "cancelling"
    /\ Scheduler!CancelEpisode /\ CancelEpisode(episode)
    /\ loop' = IF closeBackend THEN "closing" ELSE "idle"
    /\ UNCHANGED <<ticks, run>>

CloseStep ==
    /\ loop = "closing" /\ Close
    /\ loop' = "joining"
    /\ UNCHANGED <<scheduler, ticks, run>>

\* The join ends with the thread or with worker_close_timeout_s.
JoinStep ==
    /\ loop = "joining" /\ Joined
    /\ loop' = "idle"
    /\ UNCHANGED <<vars, scheduler, ticks, run>>

ControlThread ==
    \/ StartTick \/ PollStep \/ PollRaises \/ CollectStep
    \/ \E id \in requests : ExpireStep(id)
    \/ EndPollStep \/ SkipStep \/ SubmitStep \/ CaptureRaises \/ ExecuteStep
    \/ EndLoop \/ CancelStep \/ CloseStep \/ JoinStep

WorkerThread == Worker /\ UNCHANGED <<scheduler, runtime>>

Clock == Scheduler!TimePasses /\ UNCHANGED <<vars, runtime>>

RuntimeNext ==
    \/ \E e \in Episodes : StartRun(e)
    \/ ControlThread \/ WorkerThread \/ Clock

RuntimeSpec == RuntimeInit /\ [][RuntimeNext]_runtimeVars

\* Only the control thread: a model call may never return.
RuntimeFairSpec == RuntimeSpec /\ WF_runtimeVars(ControlThread)

----------------------------------------------------------------------------
RuntimeTypeOK ==
    /\ loop \in {"idle", "loop", "executing", "draining", "cancelling", "closing", "joining"}
    /\ loop \notin {"loop", "draining", "cancelling"} => stage = "out" /\ batch = <<>>
    /\ ticks \in 0 .. TickCount /\ runs \in 0 .. MaxRuns /\ episode \in Episodes
    /\ runFloor \in 0 .. nextRequestId

(***************************************************************************)
(* While the loop runs, a request the scheduler waits for is really on its *)
(* way: it waits, runs, or its result is there; it never waits for what    *)
(* was replaced, cancelled or lost (worker_async.py:254-297).              *)
(***************************************************************************)
LiveIsOnItsWay ==
    loop \in {"loop", "executing"} =>
        requests \subseteq Ids(queued \cup running \cup results)
                           \cup {batch[i].id : i \in DOMAIN batch}

(***************************************************************************)
(* What waits in the mailbox is still wanted: a request that timed out,    *)
(* was replaced or cancelled is never started later                        *)
(* (worker_async.py:69-84, docs/WORKER_ADAPTIVE.md:44).                    *)
(***************************************************************************)
WaitingIsWanted == Ids(queued) \subseteq requests

(***************************************************************************)
(* A run only sees results of its own requests, although the episode and   *)
(* the buffer generation of an earlier run on the same backend are the     *)
(* same and a model call of it may still be running.                       *)
(***************************************************************************)
OwnResults ==
    loop # "idle" =>
        /\ \A r \in results : r.id >= runFloor
        /\ \A i \in DOMAIN batch : batch[i].id >= runFloor

(***************************************************************************)
(* However a run ended - an exception anywhere, in the cleanup's poll too  *)
(* - the episode is cancelled, and the backend closed if that was asked    *)
(* for (runtime.py:301-316).                                               *)
(***************************************************************************)
CleanedUp ==
    loop = "idle" /\ runs > 0 =>
        /\ queued = {} /\ results = {} /\ requests = {}
        /\ closeBackend => closed

(***************************************************************************)
(* docs/ROADMAP.md:131: the worker never blocks the control loop.  A run   *)
(* ends even if a model call does not return, during it or at the end.     *)
(***************************************************************************)
RunEnds == loop # "idle" ~> loop = "idle"
============================================================================
