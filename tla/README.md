# TLA+ models of RoboVLARuntime

RoboVLARuntime executes the action chunks of a slow vision-language-action
policy on a robot with a fixed control period.  The policy runs beside the
control loop, in a thread or in a child process; its predictions arrive late,
out of turn, or not at all, and the loop must go on regardless.  This directory
holds TLA+ specifications of that machinery, the TLC configurations that check
them on small instances, and TLAPS proofs.

Paths below are relative to the repository; `src/robovla_runtime/` is left out
of the paths of implementation files.

## Inventory

### Components with state and protocol

**Threaded policy backend** (`backends/threaded.py`).
*State*: a mailbox of one waiting submission, the outcomes not yet polled, a
generation per episode, the next request id, `_closed`; the worker thread has
the key (episode and generation) the model was last reset for and the submission
it works on.
*Operations*: `reset`, `submit`, `poll`, `cancel_queued`, `cancel_episode`,
`close` on the control thread; the worker's loop waits, dequeues, resets the
model if the key changed, calls it, publishes.
*Interaction*: one `Condition`; the model is called outside the lock.
*Hard*: invalidation while a call runs, failed calls that leave the model dirty,
lost wake-ups, close beside publication.
*Correct when*: no outcome of invalidated work is published, no request is lost
without the caller's knowledge, one outcome a request, the model is used only
after a successful reset for that episode and generation.

**Process policy backend** (`backends/process.py`).
*State*: mailbox, active request, one abort reason, results, epoch, restart
budget, `_exhausted`, `_closed`; the supervisor's process handle with its epoch
and generation; the child and what the transport delivered.
*Operations*: the same control operations plus `expire_request` and
`submit_with_deadline`; the supervisor starts, feeds, watches, kills and reaps
the child, records faults and refuses requests when the budget is spent.
*Interaction*: `Condition` with the control thread, queues and a pipe with the
child.
*Hard*: a child that crashes or cannot be killed, an abort that races an answer,
a reset in any state of the supervisor, several critical sections where one
would be simpler, an unexpected end of the supervisor.
*Correct when*: never two models, no model state across a reset, expired or
cancelled requests never succeed, a cancellation hits only its own request,
every request ends in an outcome, close reaps.

**Action buffer and executor** (`execution/`, chunk checks in `core/types.py`).
*State*: one chunk, request ids seen, actions consumed, episode id and
generation.
*Operations*: `reset`, `accept`, `pop`, `coverage_s`; `Executor.tick` pops and
falls back to the environment's command.
*Hard*: jittering ticks, chunks that are late, duplicated, malformed or of
another generation, the boundary of a period.
*Correct when*: an action is executed in its period, once, in order and in its
generation; a chunk that is not taken leaves the valid tail alone.

**Worker scheduler** (`scheduling/worker_async.py`).
*State*: the live requests with deadlines, a bounded history of retired ones
with the reason, the newest observation accepted.
*Operations*: `tick` (poll, then perhaps submit), `poll` (match each result,
settle it, then expire what is overdue), `cancel_episode`.
*Hard*: a result in the poll of its deadline, late results of timed-out requests
that count for the latency estimate and for nothing else, duplicates, eviction.
*Correct when*: a request is settled once, chunks are accepted in time and from
ever newer observations, cancelled episodes stay silent.

**Real-time runtime** (`runtime.py`, `run_realtime_runtime`).
*State*: the tick and the place in the loop or its cleanup.
*Operations*: prepare, tick the scheduler, tick the executor, and a nested
`try/finally` of poll, cancel, close.
*Interaction*: calls the scheduler, which calls the backend; the backend may
outlive the run (`close_backend=False`).
*Hard*: exceptions anywhere, a model call that never returns, a second run with
the episode id and buffer generation of the first.
*Correct when*: the scheduler's requests and the backend's mailbox agree, a run
sees only its own results, the cleanup is complete, the run ends.

**Virtual runtime and deterministic schedulers** (`runtime.py` `run_runtime`;
`scheduling/base.py`, `sync.py`, `fixed_async.py`, `adaptive.py`;
`backends/mock.py`, `core/clock.py`).
*State*: one pending prediction, the time of the last request, and the adaptive
controller's samples, threshold and supply state.
*Operations*: each tick collects, perhaps requests and collects again, executes,
and moves the clock.
*Hard*: chunks begin at the observation, so what is left of one when it arrives
depends on latency, ticks and the minimum interval together; quantile, cap and
deadband interact.
*Correct when*: the robot is never idle with nobody asked, the threshold follows
the recent latencies and forgets older ones, the supply diagnosis is right.

**Model process** (`_child_main` and `_transport` in `backends/process.py`,
`integrations/fluxvla_process.py`, `backends/fluxvla.py`).
*State*: the recipe (reset hook, statelessness, warm-up steps, declared
observation), the child's place in start-up and service, the observation
contract, the key the model was last reset for, the history kept by model,
preprocessor and dataset, the pipe, and the two queues of the transport thread.
*Operations*: load, warm up, clear, announce, then receive, perhaps reset,
predict, answer; forward start-up messages, then one request out and one message
back in turn; the supervisor hears, dispatches, gives up, stops.
*Interaction*: supervisor, transport thread and child, by queues and a pipe.
*Hard*: warm-up uses the model before its first episode; a child that dies
while the thread reads or writes; a stop in any place.
*Correct when*: the handshake is in order and an answer is that of the present
request, the model and dataset remember nothing of warm-up or other episodes, it
sees one shape of observation, nobody waits for ever.

**Offline replay** (`integrations/offline_inference.py`).
*State*: position in the samples, attempt, the present receipt and result,
`exhausted`, the generation of the process that got each request, the records of
attempts, the exit code.
*Operations*: reset at a new episode, submit, a bounded loop of drain, poll,
drain and sort, expire, record and retry, close and judge.
*Interaction*: is the control thread of the process backend, and reads its
diagnostics.
*Hard*: late results of earlier attempts, outcomes and diagnostics that come by
different ways, a supervisor that dies or stalls, a process that cannot be
killed.
*Correct when*: an attempt is recorded with the outcome of its own request, exit
code 0 means that all succeeded and all is gone, the replay ends.

### Components not modelled, or in part

| component | state, operations | why |
|---|---|---|
| `backends/sleeping_mock.py`, `latency.py` | a counter; `request` | a model call is anything that returns or raises, and takes any time |
| `integrations/offline_observations.py`, `fluxvla_cli_config.py`, `cli.py` | parsing and validation | no state |
| `integrations/fluxvla_libero.py`, `fluxvla_mock.py` | construction, injected faults | no protocol; the faults are those the child has in the models anyway |
| `profiling/`, `metrics/` | measurement, reports | sequential aggregation |
| `environments/`, `core/events.py` | plant, append-only log | may return or raise; history variables stand for the log |

## Plan

In the order of importance.  Done:

1. `ThreadedBackend`, with its proofs.
2. `ProcessBackend`, with its proofs.
3. `ActionBuffer`, with its proofs.
4. `WorkerScheduler`, against an arbitrary backend, with its proofs.
5. `RealtimeRuntime`, which composes 4 with 1, with its proofs: the runtime
   implements the control thread `ThreadedBackend` assumes.
6. `VirtualRuntime`, which composes the deterministic schedulers and the mock
   backend with 3.
7. `LatestOnlyBackend`: what both backends promise their caller; refinement of
   it by `ThreadedBackend` and by `ProcessBackend`, checked and proved.
8. `ModelProcess`: the child, its pipe and its transport thread in detail, with
   its proofs.
9. `OfflineInference`, which composes the replay with 2, with its proofs on top
   of those of 2.
10. `VirtualRuntimeProofs`: idling, the threshold and the supply criterion of 6.

Open:

11. The runtime as an implementation of `WorkerScheduler`, so that the
    scheduler's theorems hold in every run too.
12. `ProcessRuntime`: the loop and the scheduler on the process backend
    (`expire_request`, deadlines passed down).

Modules with theorems, and those they use, contain no recursive operators.

## Modules and the code

| module | models |
|---|---|
| `ThreadedBackend` | `ThreadedPolicyBackend` |
| `ThreadedBackendProofs` | its invariants, and that it implements `LatestOnlyBackend` |
| `LatestOnlyBackend` | nothing: the abstract specification of `AsyncPolicyBackend` |
| `ProcessBackend` | `ProcessPolicyBackend`, with the child as ready, answer, failure, crash |
| `ProcessBackendProofs` | its invariants, and that it implements `LatestOnlyBackend` |
| `ModelProcess` | `_child_main`, `_transport`, `FluxVLAProcessFactory`, `_StartingFluxVLA`, `FluxVLABackend` and its preprocessor, the supervisor's use of the channel |
| `ModelProcessProofs` | the invariants of model, histories and channel |
| `OfflineInference` | `run_offline_inference`, extending `ProcessBackend` |
| `OfflineInferenceProofs` | that it uses the backend as its specification has it, and its invariants |
| `ActionBuffer` | `ActionBuffer`, `Executor.tick`, `ActionChunk.validate_timestamps` |
| `ActionBufferProofs` | its invariants and the action property |
| `WorkerScheduler` | `WorkerAsyncScheduler` |
| `WorkerSchedulerProofs` | its invariants and action properties |
| `VirtualRuntime` | `run_runtime`, `SyncScheduler`, `FixedAsyncScheduler`, `AdaptiveAsyncScheduler`, `AdaptivePrefetchController`, `MockBackend`, composed with `ActionBuffer` |
| `VirtualRuntimeProofs` | its invariants |
| `RealtimeRuntime` | `run_realtime_runtime`, composing `WorkerScheduler` and `ThreadedBackend` |
| `RealtimeRuntimeProofs` | the composition's invariants |
| `MC...` | instances for TLC |

Conventions.  Variables carry the names of the attributes they stand for; an
optional attribute is a set of at most one element.  A method whose body holds
the lock is one action; a worker loop has one action per critical section or
model call, with `pc` for the place.  Deques of results are sets where one
`poll()` takes everything and the order is recovered from the ids.  *History
variables* record what the caller or the log saw; no guard reads them.
Definitions named `Faulty...` are not part of a model.  Each is a slip the code
could plausibly have had; put in the place of the definition that follows it,
it breaks a property, which shows that the property depends on that code.

**ThreadedBackend.**  `Reset`, `Submit`, `Poll`, `CancelQueued`,
`CancelEpisode`, `Close` are the methods; `WorkerWait` ... `WorkerPublish` are
the loop in `_run`.  `pc = "asleep"` is a wait on the condition, which only
`Notify` and `Close` end.  A model call that fails, in `reset` or in `request`,
marks the model `dirty`; `touched` collects the keys it served since its last
reset.  `floor` holds, per episode, the first id not invalidated.  A result
carries the episode of its submission: the code passes on the label the wrapped
backend put on the chunk (`threaded.py:205-209`) and `cancel_episode` compares
that label (`threaded.py:157-162`), so the model assumes it is the right one.

**ProcessBackend.**  The supervisor's `pc` names the places between its critical
sections, the inner and outer `try`/`finally` included.  `_check_cancelled` is
`CancelReason`; a watchdog or deadline may fire whenever the code compares it
with the clock.  `_stop` ends in one of five ways: the child is reaped, it
cannot be killed, its transport thread is stuck, or an operating-system call
raises, before the child is reaped or after.  `living` are the operating system's processes; that the supervisor's
handle `process` never loses sight of one is proved (`HandleInv`).  `inbox` is what the transport thread
delivered from the present channel.  `dead` is a thread that has ended, which
`is_alive()` only reports after its last critical section.  The refusal of a
waiting request in `_run` (`process.py:417-424`) is not an action: its condition,
a request waiting for an exhausted backend, never holds there, which
`BudgetRespected` checks.

**LatestOnlyBackend.**  A request waits, runs, is failing, is ready, was
returned or is gone, and never goes back; each step of the caller and of the
worker moves requests along.  `ThreadedBackend` implements it with the mailbox
as `waiting`, the running submission as `running` as long as it may still be
published (`Wanted`), and ids, episodes and success as all that is seen of
outcomes.  In `ProcessBackend` a waiting request counts as long as the backend
is not exhausted, the supervisor's as long as nothing aborted it (`Held`); one
whose cancellation it did not notice is `failing` (`Unnoticed`), which is the
first divergence below and the only laxity the abstract backend has for it.

**ModelProcess.**  The recipe is chosen initially.  `child` is the place in
`_child_main` and the factory's start-up, `transport` that of the thread.  The
histories are the sets of keys (episode and generation) of the calls since the
last clearing: a model with a reset hook is cleared by `ResetBackend`, a dataset
when the preprocessor, which remembers the last key, tells it that an episode is
new.  Calls may raise, and the child may crash, anywhere.  `ParentFault` covers
the wrong message, the reported failure and the silent death; `ParentGivesUp`
any watchdog, abort, reset or close.

**OfflineInference.**  The control thread of `ProcessBackend` does what the
replay does; supervisor and child are as they are there, and additionally emit
the diagnostics the replay reads (`Emitted`) and mark refused requests
(`unserved`).  `PollStep` is drain and poll, `SortStep` the second drain and the
choice of the own result, so supervisor steps between them are seen;
`DeadlinePasses` is the bounded wait.  `Interrupt` is a `KeyboardInterrupt`
anywhere in the body of the `try`, `CreationRaises` has one while the backend is
created, `LeaveWith` and `Finish` are the `finally`.

**ActionBuffer.**  Time is an integer, `Period` units an action.  Every
prediction ever made may be delivered any number of times; ticks of the executor
come whenever they like.  `Accept` is all of `accept()`: a chunk it refuses
(`Refused`, which includes the duplicate) changes nothing, one that is wholly
expired is only remembered, any other takes the place of the stored one
(`StoredAfter`).  `TailKept` says what may cost the executor actions it could
still execute: a reset, or a valid and unseen chunk, and nothing else.  The
code's tolerances (1e-9) absorb float rounding and
vanish with integers.

**WorkerScheduler.**  `poll()` is a loop over results and then one over live
requests; each iteration is an action, `stage` and `batch` say where it stands.
Ids stand for observation keys, since observations are captured in the order of
submissions.  Only the order of times matters: the deadline of request *i* is
the instant 2*i*+1, the even instants lie between.  Coverage and thresholds only
decide whether `tick` submits, so both are allowed.  A batch holds any results,
mislabelled, duplicated or of unknown requests.

**VirtualRuntime.**  Instantiates `ActionBuffer`, whose actions are steps of the
tick: `phase` is the place in it.  `Collect` is `_poll` and, for the adaptive
scheduler, `observe_completion`; `Request` is `_request` with
`MockBackend.request` (`Predicted`), which stamps the chunk with the time of the
observation.  The latency of each request is any one of a set.  Thresholds and
estimates are multiplied by the quantile's denominator, so that interpolation
stays exact in integers.  The entry at a position of the sorted samples is the
sample that fewer than so many others are below and at least so many not above
(`AtRank`).  An episode of no ticks is over at once.  The scheduler and its settings are chosen initially.

**RealtimeRuntime.**  Extends `ThreadedBackend` and instantiates
`WorkerScheduler` with the backend's id counter.  `loop` is the place of the
control thread.  A step of the scheduler that calls the backend is one step of
both; the worker thread and the clock interleave.  An exception in `poll`,
`observe` or `executor.tick` goes to the cleanup; one in the cleanup's poll
still reaches cancel and close.  Runs repeat on the same backend.

## What the runs check

| run | instance | shows |
|---|---|---|
| `threaded` | 2 episodes, 2 requests, 2 invalidations an episode, fair worker | it implements the latest-only backend; accounting, clean model; every request settled, close ends the worker |
| `process_safety` | 2 episodes, 2 requests, 1 reset, no restart, all endings of `_stop` | it implements the latest-only backend; one model, fresh model, response pairing, innocents survive, no silent loss, budget |
| `process_live` | 1 episode, 2 requests, 1 reset, 1 restart, reapable children, fair supervisor | every request settled, close reaps |
| `process_cancel_leak`, `process_stuck`, `process_dead_reset` | 1 episode | three divergences, below |
| `model_process` | 2 episodes, 2 generations, 2 shapes, 2 warm-up calls, 3 requests, every recipe | handshake in order, own history, one shape; start-up, calls and transport thread end |
| `offline` | 1 sample with 3 attempts, 2 samples of one or two episodes with 1; 1 restart, reapable or unkillable processes | attempts are recorded with their own outcome, exit code 0 is honest, the replay ends |
| `action_buffer` | 2 episodes, 2 predictions, horizon 2, 5 instants | period, order, no revival, generation, coverage; the tail is lost only to a reset or a valid new chunk |
| `scheduler` | fixed and adaptive, 3 requests, history of 2 | life cycle, order and punctuality of acceptance, bounded history, one sample each, silence after cancellation |
| `virtual` | 3 schedulers, 14 ticks of 2 units, horizon 4, window 2, latencies 0, 2, 3, 9, intervals 1, 5, thresholds 0, 4 | never idle unasked, threshold follows recent latencies, supply criterion exact |
| `runtime` | fixed and adaptive, 2 requests, 3 ticks, 2 runs on one backend, closed or left open by each, fair control thread | scheduler and mailbox agree, runs see only their own results, complete cleanup after exceptions anywhere; a run ends though the model hangs |

**Bounds.** Two requests show every race between a request and its successor, a
running one beside a waiting one, and a replacement; the scheduler gets a
third, for an accepted, a superseded and a late one at once. That the backend
holds with more is proved. Two invalidations let a generation move on before a
request and again during its call. A budget of no restart is exhausted by the
first fault, one of one restart is used first. In `process_safety` and
`process_live` requests have a deadline that may pass or not, which includes
what a request without one can do; the replay gives none. A history of two is
evicted by the third request. The horizon of two with chunks of one and three
has a shorter and a truncated chunk. In `virtual` a latency of 9 outlasts the
horizon of 8 units, one of 3 falls between two ticks, and with the interval of
5 it is the interval that decides the supply criterion; fourteen ticks let a
window of two fill and forget. In `model_process` two warm-up calls fill the
history and fix the shape, and three requests change the key, keep it, and come
back to an earlier one. Three attempts let the late result of the first meet
the second and third; a budget of one restart is used by one fault and
exhausted by the next, and reset by a second episode. The bounds `MaxWarmups`,
`MaxRequests`, `MaxInvalidations`, `MaxResets`, `MaxRuns`, `MaxTime`,
`MaxTicks` appear only in guards. Episodes are interchangeable, hence the
symmetry sets, used in runs without liveness properties only.

**Deadlock** is checked except where a system comes to rest: an episode whose
clock has stopped (`action_buffer`), the last tick (`virtual`), a finished run
or replay (`runtime`, `offline`) and a stopped process (`model_process`).

**Fairness.**  `threaded` assumes the worker thread is scheduled and model
calls return, which is what the code can rely on: it has no watchdog.
`process_live` assumes only the supervisor thread is scheduled: its waits have
timeouts (`_receive`'s watchdog, `terminate_grace_s`), so every step of it
returns, and nothing is assumed of the child.  `model_process` assumes the two
threads of the parent are scheduled and the child's calls return or raise, or
it dies: a hanging call is what the watchdog of `ProcessBackend` is for.
`offline` assumes only the replay's own thread.  What ends a wait is a premise
of `ReplayEnds`, either its deadline (strongly fair, since polls interrupt the
wait: time passes meanwhile) or the supervisor; each is enough without the
other.  `runtime` assumes only the control thread, whose sleep and join are
bounded; the worker and its model may stop for ever.

## Divergences the models show

1. **A cancelled request may still fail aloud** (`process_cancel_leak`).
   `docs/PROCESS_BACKEND.md:49` has `cancel_episode` withdraw waiting requests
   and results.  After a start failure the supervisor takes the waiting request
   in one critical section (`process.py:472-476`) and records its failure in
   another (`381-386`); a cancellation in between finds it nowhere, and its
   `PredictionFailure` is published.  `ImplementsLatestOnly` still holds,
   whose `failing` requests may fail and never succeed, and the scheduler has
   retired the id.
2. **A waiting request may get no outcome** (`process_stuck`).
   `docs/PROCESS_BACKEND.md:39` has failures reported by `PredictionFailure`.
   When `_stop` returns False the supervisor ends with `_exhausted` set, and the
   request in the mailbox is never answered.  The scheduler's own timeout
   retires it.
3. **A reset may revive a backend nobody serves** (`process_dead_reset`).
   `docs/PROCESS_BACKEND.md:51` forbids it.  Between the supervisor's last
   critical section and the end of its thread `is_alive()` is true; a `reset()`
   there clears `_exhausted` and succeeds.

## What is proved

`ThreadedBackendProofs`, for any set of episodes and any bounds, from no
assumption but that bounds are natural numbers.  `IndInv` is the conjunction of

- `TypeOK`;
- `OrderInv`: the running submission precedes the waiting one, every result
  stems from an issued submission, ids are below the counter.  Without it two
  outcomes with one id could not be excluded;
- `GenerationInv`: a submission or result whose generation is the current one is
  at or above the floor.  `NoStaleOutcome` alone is not inductive: publication
  compares generations, the property speaks of ids;
- `ModelInv`: what `activeEpisode` says at each `pc` of `dirty` and `touched`;
- `OutcomeOnce` and `NoSilentLoss`.

Each conjunct has a lemma with a step per action; `IndInvStep` combines them.
Theorems: `TypeCorrect`, `NoStaleOutcomes`, `NothingLost`, `OutcomesUnique`,
`ModelAlwaysClean`.  No run lists `NoStaleOutcome` and `OutcomeOnce`, since the
refinement that `threaded` checks implies what they say.

The same module shows `ThreadedImplementsLatestOnly`: the initial
states map to initial states and, under `IndInv`, each action to an abstract one
or a stutter, with one lemma an action.  `GenerationInv` is what makes an
invalidated call vanish from `running` in the step that invalidates it, and
`OrderInv` what keeps a withdrawal from reaching the running submission.

`RealtimeRuntimeProofs` first shows that every step of the runtime is a step of
the backend's specification or leaves it alone (`RuntimeUsesBackend`), so the
theorems above hold in every run (`RuntimeBackendSafe`).  `RunInv` then relates
the two components: what the control thread holds in `batch` was delivered by
the backend in this run, every floor is at or above the run's first id, and what
waits is live (`WaitingIsWanted`).  The proof of the last needs `OutcomeOnce`:
a request whose outcome was polled cannot be waiting too.  Theorems:
`MailboxIsWanted`, `ResultsAreOwn`.

Two more invariants of the runtime are needed for the other two properties.
`LiveInv`: as long as the loop runs nothing was closed or invalidated since the
run's reset, so the outcome of a live request cannot be dropped on publication;
with `NoSilentLoss` this gives `WaitsForRealWork`.  `OwnWork` and `OverInv`:
results and current work belong to the run's one episode, so the cleanup's
cancellation of that episode leaves nothing, and nothing comes back between it
and the end; this gives `RunsCleanUp`.

`ProcessBackendProofs`, for any episodes, bounds, budget of restarts and set of
endings of `_stop`.  `IndInv` is the conjunction of

- `TypeOK`;
- `HandleInv`: a living process is the one held, and is used in the epoch it was
  launched in.  `OneModel` alone would not survive a launch;
- `ChannelInv`: where the next request may be dispatched, the process works on
  nothing and no old answer is left in the inbox;
- `HoldInv`: at which `pc` the local `request` and `_active` are set, and agree;
- `OrderInv`: ids are distinct, waiting and held requests and all outcomes stem
  from submissions;
- `AnswerInv`: what waits was never answered.  When an exhausted backend refuses
  a submission, its receipt still names the request in the mailbox as replaced,
  and this request must be one the abstract backend has neither at work nor
  answered;
- `EpochInv`: the code compares epochs, the properties speak of ids; a request
  is of an earlier epoch exactly when a reset came after it;
- `AbortInv`: one `_abort_reason` serves all requests in turn, so while it is set
  in the present epoch the held request itself was given up, and while it is not
  no cancellation has hit the active one;
- `BudgetInv`: on the way to a fault the budget is not yet spent;
- `NoSilentLoss`.

Theorems: `TypeCorrect`, `NeverTwoModels`, `RequestsRunAlone`,
`AbortsHitTheirTarget`, `NothingIsLost`, `BudgetIsRespected`.

The same module shows `ProcessImplementsLatestOnly` from this invariant, one lemma an action.  `HoldInv` and `AbortInv` make an aborted
request leave `Held` in the very step that aborts it, and `OrderInv` keeps the
mapping, which forgets epoch and deadline, from merging two requests.

`ActionBufferProofs`, for any period, horizon, chunk length and length of an
episode.  The log of executed actions is tied to the clock: `LogInv` says that
nothing in it is of the future and that `_consumed` is what it says of the
present generation; `ChunkInv` that the stored chunk passed `accept()`;
`TailInv` that from a chunk's first executed action on only its actions were
executed, which is why a replaced chunk cannot return; `SentInv` that
predictions are numbered.  With `IndexBounds` (`_index_at` is the period that
contains the time) the invariant `IndInv` yields `ExecutedOnceInOrder`,
`ExecutedInTime` and `CoverageHonest`; `TailIsKept` is an action property over
`accept()` with all its early returns: a chunk is only accepted when an action of
it is left (`LeftInTime`), and a fallback only drops one that has none.

`ModelProcessProofs`, for any recipe and number of warm-ups and requests, has
three independent invariants.  `ShapeInv` fixes the observation contract
(`ModelSeesOneShape`).  `HistoryInv` says for each place of the child what model
and dataset remember; its core is that the preprocessor's last key is either
forgotten or the present one, together with the dataset's history
(`ModelForgets`).  `ChannelInv` follows the messages: those of start-up are known
by their position, and while the supervisor waits, its request is in exactly one
place - on its way out, with the child, or answered - with nothing but failures
besides (`HandshakeIsOrdered`).

`WorkerSchedulerProofs`, for any number of requests, size of batches and of the
history, both modes, and a backend that returns anything.  `SchedulerInv` is the
conjunction of

- `TypeInv`;
- `FateInv`: a live request has no fate yet; afterwards it has one reason, or a
  timeout and a late outcome;
- `RetiredInv`: one entry a request in the history, and an entry that may still
  be claimed is that of a request whose whole fate is its timeout, of the present
  episode.  This is what a result of a request no longer live is matched with:
  without it neither `Lifecycle` nor the silence after a cancellation is
  inductive;
- `CancelInv`: what lives was submitted since the last cancellation;
- `AcceptInv`, `SampleInv`: what was accepted or measured has a fate that never
  changes again;
- `ClockInv`: the local `now` of `poll()` is the time of the backend's return.

`RetireKeeps` is the lemma about `_retire` all actions share; it rests on lemmas
about eviction (`TrimmedProperties`), replacement in the table
(`OthersProperties`) and the order of cancellation (`IncreasingExists`: a finite
set of numbers has an increasing enumeration).  Theorems: `TypeCorrect`,
`RetiredOnce`, `AcceptsNewerOnly`, `MeasuredOnce`, and the action properties
`NothingAcceptedLate` and `CancelledResultsIgnored`.

`OfflineInferenceProofs`, for any list of samples, number of repeats and limit
of attempts, and for whatever `ProcessBackendProofs` allows.  A replay is a use
of the backend (`ReplayIsUseOfBackend`): each of its steps is one of the control
thread that `ProcessBackend` assumes, so `IndInv` and all that follows from it
hold in a replay.  This needs a backend that takes requests without a deadline,
which is what the replay sends and `ReplayAssumption` says.  `ReplayInv` adds

- `PlaceInv`: types, the present sample is one of the list, the present attempt
  within the limit, an exit code comes last;
- `ReceiptInv`: the request asked for is newer than every recorded one;
- `RecordsInv`: the records of the present sample are the last ones, as many as
  it had attempts, and none of them ended it.  Without it a sample could be
  recorded again after its success;
- `OutcomesInv`: what `poll()` gave came from the backend, and a process whose
  request runs or succeeded has been reported, or is in the diagnostics of the
  next drain.  The second drain, after the poll, is why a successful result in
  hand has a known generation;
- the two properties themselves, `AttemptsOwn` and `ExitHonest`.

`VirtualRuntimeProofs`, for every scheduler, period, horizon, latency, window,
quantile, margin, deadband and interval.  `VirtualInv` is the conjunction of

- `ClockInv`, `ChunkInv`, `ConsumedInv`: the clock stands on a multiple of the
  period, chunks begin there, what was consumed of the stored one lies in the
  past, and the prediction in flight is one `accept()` does not refuse.  So before `execute` the buffer is empty exactly when the chunk's
  time is over, which is `IdleInv` and then `NobodyIdlesUnasked`;
- `WindowInv`: the samples are the last latencies measured;
- `LogInv`: types and order of the log;
- `SteadyInv`: under one latency *L* every measurement is *L* rounded up to a
  tick, so every estimate is that number, and the deadband changes nothing
  after the first (`ObserveEqual`);
- `PaceInv`: when the present chunk began, that it lasts exactly `Budget` from
  there, and whether the pending request was made early enough for its answer to
  come before that end.  `SupplyCriterion` speaks of the past, `PaceInv` says
  what will happen at the next acceptance; the proof that the request is made in
  time (`WantsInTime`) is where threshold, margin, interval and period meet;
- `ThresholdTracks` and `SupplyCriterion`.

`ThresholdKeepsUp` rests on `EstimateBetween`: the interpolated quantile lies
between two of the samples.  The ranks it interpolates between exist
(`RankExists`); the least sample of enough others not above it is taken by the
well-founded minimum of a set of numbers (`Minimum`), where one would otherwise
argue by induction over the samples.

TLC checked every one of these invariants on the instances of the runs before it
was proved.  The proofs assume of the constants what the modules' `ASSUME`s say:
that bounds are natural numbers, period, horizon and history size are not zero,
and the like.

**Only model-checked**: all liveness properties, which are out of TLAPS's reach
as they rest on fairness and `ENABLED` (`EveryRequestSettled`,
`CloseStopsWorker`, `CloseReaps`, `EveryCallReturns`, `TransportEnds`,
`ReplayEnds`, `RunEnds`), and the three violations.  Every invariant and every
other action property of a run is a theorem.

What the refinement of `ProcessBackend` adds to its other properties: an id has
one outcome, which is returned once; nothing submitted before a `reset()` has an
outcome after it; a request that was cancelled, by `cancel_episode`, has none but
possibly a failure; and one that was replaced, withdrawn or expired while it was
waiting or running gets no outcome from then on.  It does not say that an id
reported as replaced has no outcome at all: a receipt may name it when it had
one.

**Not modelled**: values of actions, observations and timings; event logging;
the bytes between parent and child; float rounding; spurious wake-ups, which the
loop's condition makes harmless; errors of the replay's files, which leave it as
an error of `reset()` does, from other places and with exit code 1, and an
interrupt while it closes; a wrapped backend that labels its chunk with another
episode; in `RealtimeRuntime`, results with an invalid timestamp or a foreign
identity, since the threaded backend builds them itself (`WorkerScheduler` has
them from an arbitrary backend); the real-time loop on the process backend; and
the components in the table above.

## Running

    tlc -config MCThreadedBackend.cfg MCThreadedBackend
    tlapm ThreadedBackendProofs.tla
    tlapm WorkerSchedulerProofs.tla

`PROJECT.json` lists the components, runs, theorems, the hazards the properties
are for, and for each definition the lines of code it models.
