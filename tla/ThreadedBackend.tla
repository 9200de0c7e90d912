-------------------------- MODULE ThreadedBackend --------------------------
(***************************************************************************)
(* ThreadedPolicyBackend (src/robovla_runtime/backends/threaded.py): one   *)
(* worker thread calls a blocking model; the control thread submits        *)
(* observations into a mailbox that keeps only the newest one, and drains  *)
(* outcomes with poll().  Every method body runs under one Condition, so   *)
(* it is one step; the worker's model calls run outside the lock and are   *)
(* steps of their own.  Times and payloads are abstracted away.            *)
(*                                                                         *)
(* The optional fields of the code (None or a value) are sets of at most   *)
(* one element here.  The deque of results is a set: one worker fills it   *)
(* and poll() takes all of it.                                             *)
(***************************************************************************)
EXTENDS Integers

CONSTANTS
    Episodes,         \* episode ids the control thread uses
    MaxRequests,      \* bound: submissions in a behaviour
    MaxInvalidations  \* bound: generations an episode goes through

ASSUME BoundsAssumption == MaxRequests \in Nat /\ MaxInvalidations \in Nat

VARIABLES
    queued,         \* _queued: the waiting submission
    results,        \* _results: outcomes not yet polled
    generations,    \* _episode_generations (0 for an episode not in the dict)
    known,          \* the keys of _episode_generations
    nextRequestId,  \* _next_request_id
    closed,         \* _closed
    activeEpisode,  \* _active_episode: the key the model was last reset for
    pc,             \* where the worker thread stands in _run
    running,        \* _run's local submission
    succeeded       \* whether the running model call returned

(***************************************************************************)
(* What the outside of the backend saw; no step reads these.               *)
(***************************************************************************)
VARIABLES
    dirty,      \* the wrapped model: a call failed since its last reset
    touched,    \* and the keys whose calls it served since then
    issued,     \* every submission ever accepted
    withdrawn,  \* ids reported to the caller as replaced or cancelled
    delivered,  \* outcomes returned by poll()
    floor       \* per episode, the first id not invalidated by the caller

dict    == <<generations, known>>
control == <<queued, results, dict, nextRequestId, closed>>
worker  == <<activeEpisode, pc, running, succeeded>>
model   == <<dirty, touched>>
history == <<model, issued, withdrawn, delivered, floor>>
vars    == <<control, worker, history>>

Key        == [episode : Episodes, generation : Nat]
Submission == [id : Nat, episode : Episodes, generation : Nat]
Result     == [id : Nat, episode : Episodes, generation : Nat, ok : BOOLEAN]

KeyOf(s) == [episode |-> s.episode, generation |-> s.generation]
Ids(S)   == {s.id : s \in S}

Init ==
    /\ queued = {} /\ results = {}
    /\ generations = [e \in Episodes |-> 0] /\ known = {}
    /\ nextRequestId = 0 /\ closed = FALSE
    /\ activeEpisode = {} /\ pc = "awake" /\ running = {} /\ succeeded = FALSE
    /\ dirty = FALSE /\ touched = {}
    /\ issued = {} /\ withdrawn = {} /\ delivered = {}
    /\ floor = [e \in Episodes |-> 0]

(***************************************************************************)
(* Definitions named Faulty... are not part of the model: each is a slip   *)
(* the code could have made, to be put in the place of the definition      *)
(* after it to see that a property notices.                                *)
(***************************************************************************)
FaultyMailbox(s) == queued \cup {s}          \* a backlog instead of the latest
Mailbox(s) == {s}

AfterPoll == {}

FaultyAfterException == "stopped"            \* the exception ends the thread
AfterException == "publishing"

FaultyKeyAfterException == activeEpisode     \* the model counts as reset still
KeyAfterException == {}

FaultyBumped(K) == [e \in Episodes |-> generations[e] + 1]   \* every one
Bumped(K) == [e \in Episodes |-> generations[e] + (IF e \in K THEN 1 ELSE 0)]

FaultyPublishableStale  == {s \in running : ~closed}
FaultyPublishableClosed == {s \in running : s.generation = generations[s.episode]}
Publishable == {s \in running : ~closed /\ s.generation = generations[s.episode]}

FaultyNotify == pc' = pc                     \* the notification is forgotten

(***************************************************************************)
(* Condition.notify: the one waiting thread, if it waits, will run again.  *)
(***************************************************************************)
Notify == pc' = IF pc = "asleep" THEN "awake" ELSE pc

(***************************************************************************)
(* The control thread.                                                     *)
(***************************************************************************)
\* reset(episode_id): every known generation moves on, whoever owns it.
Reset(e) ==
    /\ ~closed
    /\ \A f \in Episodes : generations[f] < MaxInvalidations
    /\ known' = known \cup {e}
    /\ generations' = Bumped(known')
    /\ queued' = {} /\ results' = {}
    /\ floor' = [f \in Episodes |-> nextRequestId]
    /\ UNCHANGED <<nextRequestId, closed, worker, model, issued, withdrawn,
                   delivered>>

\* submit(): the new observation takes the mailbox; the receipt names the old.
Submit(e) ==
    /\ ~closed
    /\ nextRequestId < MaxRequests
    /\ nextRequestId' = nextRequestId + 1
    /\ known' = known \cup {e}
    /\ LET new == [id |-> nextRequestId, episode |-> e, generation |-> generations[e]]
       IN queued' = Mailbox(new) /\ issued' = issued \cup {new}
    /\ Notify
    /\ withdrawn' = withdrawn \cup Ids(queued)
    /\ UNCHANGED <<results, generations, closed, activeEpisode, running,
                   succeeded, model, delivered, floor>>

Poll ==
    /\ results' = AfterPoll
    /\ delivered' = delivered \cup results
    /\ UNCHANGED <<queued, dict, nextRequestId, closed, worker, model, issued,
                   withdrawn, floor>>

CancelQueued(id) ==
    /\ id \in Ids(queued)
    /\ queued' = {}
    /\ withdrawn' = withdrawn \cup {id}
    /\ UNCHANGED <<results, dict, nextRequestId, closed, worker, model, issued,
                   delivered, floor>>

CancelEpisode(e) ==
    /\ generations[e] < MaxInvalidations
    /\ known' = known \cup {e}
    /\ generations' = Bumped({e})
    /\ queued' = {s \in queued : s.episode # e}
    /\ results' = {r \in results : r.episode # e}
    /\ floor' = [floor EXCEPT ![e] = nextRequestId]
    /\ UNCHANGED <<nextRequestId, closed, worker, model, issued, withdrawn,
                   delivered>>

\* close(): queued work is dropped, finished outcomes stay to be polled; the
\* join that follows waits for pc = "stopped" and changes nothing.
Close ==
    /\ closed' = TRUE
    /\ queued' = {}
    /\ Notify
    /\ UNCHANGED <<results, dict, nextRequestId, activeEpisode, running,
                   succeeded, history>>

(***************************************************************************)
(* The worker thread.                                                      *)
(***************************************************************************)
WorkerWait ==
    /\ pc = "awake" /\ ~closed /\ queued = {} /\ pc' = "asleep"
    /\ UNCHANGED <<control, activeEpisode, running, succeeded, history>>

WorkerStop ==
    /\ pc = "awake" /\ closed /\ pc' = "stopped"
    /\ UNCHANGED <<control, activeEpisode, running, succeeded, history>>

WorkerDequeue ==
    /\ pc = "awake" /\ ~closed /\ queued # {}
    /\ pc' = "dequeued"
    /\ running' = queued
    /\ queued' = {}
    /\ UNCHANGED <<results, dict, nextRequestId, closed, activeEpisode,
                   succeeded, history>>

\* The model already belongs to this episode and generation: no reset.
WorkerKeep ==
    /\ pc = "dequeued"
    /\ {KeyOf(s) : s \in running} = activeEpisode
    /\ pc' = "inferring"
    /\ UNCHANGED <<control, activeEpisode, running, succeeded, history>>

WorkerReset ==
    /\ pc = "dequeued"
    /\ {KeyOf(s) : s \in running} # activeEpisode
    /\ pc' = "inferring"
    /\ activeEpisode' = {KeyOf(s) : s \in running}
    /\ dirty' = FALSE /\ touched' = {}
    /\ UNCHANGED <<control, running, succeeded, issued, withdrawn, delivered,
                   floor>>

\* backend.reset raised: the model may be half reset.
WorkerResetFails ==
    /\ pc = "dequeued"
    /\ {KeyOf(s) : s \in running} # activeEpisode
    /\ pc' = AfterException
    /\ activeEpisode' = KeyAfterException
    /\ succeeded' = FALSE
    /\ dirty' = TRUE
    /\ UNCHANGED <<control, running, touched, issued, withdrawn, delivered,
                   floor>>

WorkerInfer ==
    /\ pc = "inferring"
    /\ pc' = "publishing"
    /\ succeeded' = TRUE
    /\ touched' = touched \cup {KeyOf(s) : s \in running}
    /\ UNCHANGED <<control, activeEpisode, running, dirty, issued, withdrawn,
                   delivered, floor>>

\* backend.request raised, or returned what replace() cannot wrap.
WorkerInferFails ==
    /\ pc = "inferring"
    /\ pc' = AfterException
    /\ succeeded' = FALSE
    /\ activeEpisode' = KeyAfterException
    /\ dirty' = TRUE
    /\ touched' = touched \cup {KeyOf(s) : s \in running}
    /\ UNCHANGED <<control, running, issued, withdrawn, delivered, floor>>

\* The wrapped model is taken to label its chunk with the observation's episode;
\* nothing here checks it, and cancel_episode() goes by that label.
WorkerPublish ==
    /\ pc = "publishing"
    /\ pc' = "awake"
    /\ running' = {}
    /\ results' = results \cup
         {[id |-> s.id, episode |-> s.episode, generation |-> s.generation,
           ok |-> succeeded] : s \in Publishable}
    /\ UNCHANGED <<queued, dict, nextRequestId, closed, activeEpisode,
                   succeeded, history>>

Worker ==
    \/ WorkerWait \/ WorkerStop \/ WorkerDequeue \/ WorkerKeep \/ WorkerReset
    \/ WorkerResetFails \/ WorkerInfer \/ WorkerInferFails \/ WorkerPublish

Control ==
    \/ \E e \in Episodes : Reset(e) \/ Submit(e) \/ CancelEpisode(e)
    \/ \E id \in Ids(queued) : CancelQueued(id)
    \/ Poll \/ Close

Next == Worker \/ Control

\* The worker thread runs when it can and every model call returns.
Fairness == WF_vars(Worker)

Spec == Init /\ [][Next]_vars
FairSpec == Spec /\ Fairness

----------------------------------------------------------------------------
(***************************************************************************)
(* Types; the mailbox and the worker hold one request each, so a slow      *)
(* model never builds a backlog (threaded.py:60-65).                       *)
(***************************************************************************)
TypeOK ==
    /\ queued \in SUBSET Submission /\ \A s, t \in queued : s = t
    /\ results \in SUBSET Result
    /\ generations \in [Episodes -> Nat]
    /\ known \in SUBSET Episodes
    /\ nextRequestId \in Nat
    /\ closed \in BOOLEAN
    /\ activeEpisode \in SUBSET Key
    /\ pc \in {"awake", "asleep", "dequeued", "inferring", "publishing", "stopped"}
    /\ running \in SUBSET Submission /\ \A s, t \in running : s = t
    /\ succeeded \in BOOLEAN
    /\ dirty \in BOOLEAN
    /\ touched \in SUBSET Key
    /\ issued \in SUBSET Submission
    /\ withdrawn \in SUBSET Nat
    /\ delivered \in SUBSET Result
    /\ floor \in [Episodes -> Nat]

(***************************************************************************)
(* Once reset() or cancel_episode() returned, no outcome of an earlier     *)
(* submission of an invalidated episode is ever left for poll() to return, *)
(* even if its model call was running at the time (threaded.py:89-95,      *)
(* 235-243).                                                               *)
(***************************************************************************)
NoStaleOutcome == \A r \in results : r.id >= floor[r.episode]

(***************************************************************************)
(* Until close(), a submission whose loss the caller could not know of -   *)
(* not replaced in a receipt, not cancelled, not invalidated by a reset -  *)
(* is waiting, running, or answered (threaded.py:107-127, 89-105).         *)
(***************************************************************************)
NoSilentLoss ==
    ~closed =>
        \A s \in issued :
            s.id >= floor[s.episode] /\ s.id \notin withdrawn =>
                s.id \in Ids(queued \cup running \cup results \cup delivered)

(***************************************************************************)
(* A request has one outcome and poll() returns it once; it is never still *)
(* to come when it was already returned or withdrawn.                      *)
(***************************************************************************)
OutcomeOnce ==
    /\ \A r, s \in results \cup delivered : r.id = s.id => r = s
    /\ results \cap delivered = {}
    /\ Ids(queued \cup running) \cap Ids(results \cup delivered) = {}
    /\ Ids(queued \cup running \cup results) \cap withdrawn = {}

(***************************************************************************)
(* When the model is asked for actions it was reset successfully for this  *)
(* episode and generation, no call failed since, and no other episode or   *)
(* generation used it since (threaded.py:192-201, 221-226).                *)
(***************************************************************************)
CleanInference ==
    pc = "inferring" =>
        ~dirty /\ touched \subseteq {KeyOf(s) : s \in running}

(***************************************************************************)
(* Seen from the control thread this is a LatestOnlyBackend: of what runs  *)
(* only a submission whose generation is the current one may still have an *)
(* outcome, and nothing fails after its cancellation.                      *)
(***************************************************************************)
Requests(S) == {[id |-> s.id, episode |-> s.episode] : s \in S}
Answers(R)  == {[id |-> r.id, episode |-> r.episode, ok |-> r.ok] : r \in R}
Wanted == {s \in running : ~closed /\ s.generation = generations[s.episode]}

Promise == INSTANCE LatestOnlyBackend
               WITH waiting <- Requests(queued), running <- Requests(Wanted),
                    failing <- {}, ready <- Answers(results),
                    returned <- Answers(delivered), handedOut <- nextRequestId

(***************************************************************************)
(* Every step of the backend is one its caller may expect: the newest      *)
(* request waits, an outcome comes only from what runs and was neither     *)
(* reset, cancelled nor closed, each id once (threaded.py:89-177, 235-243).*)
(***************************************************************************)
ImplementsLatestOnly == Promise!Spec

(***************************************************************************)
(* Every request gets its outcome, unless it is replaced, cancelled or     *)
(* invalidated or the backend closes: the worker never sleeps through its  *)
(* notification, and a failed call is an outcome, not a dead worker        *)
(* (threaded.py:126, 182-183, 221-233).                                    *)
(***************************************************************************)
Settled(id) ==
    \/ id \in Ids(results \cup delivered)
    \/ id \in withdrawn
    \/ \E s \in issued : s.id = id /\ id < floor[s.episode]
    \/ closed

EveryRequestSettled ==
    \A id \in 0 .. MaxRequests - 1 : id \in Ids(issued) ~> Settled(id)

(***************************************************************************)
(* close() always gets its worker thread to end, so an unbounded join()    *)
(* returns (threaded.py:172-177).                                          *)
(***************************************************************************)
CloseStopsWorker == closed ~> pc = "stopped"
============================================================================
