--------------------------- MODULE ProcessBackend ---------------------------
(***************************************************************************)
(* ProcessPolicyBackend (src/robovla_runtime/backends/process.py): the     *)
(* model lives in a spawned child; a supervisor thread starts it, hands it *)
(* one request at a time, watches it, and kills it on a fault, a timeout,  *)
(* a cancellation or a reset.  The control thread only touches the mailbox *)
(* and flags, under one Condition; each critical section is one step.      *)
(*                                                                         *)
(* Optional fields are sets of at most one element, the deque of results   *)
(* is a set.  Time is abstract: a watchdog or a deadline may fire at any   *)
(* moment the code compares it with the clock.                             *)
(***************************************************************************)
EXTENDS Integers

CONSTANTS
    Episodes,      \* episode ids the control thread uses
    MaxRestarts,   \* config.max_restarts
    StopOutcomes,  \* how _stop may end, of the five below
    Deadlines,     \* {FALSE}: submit(), {TRUE}: submit_with_deadline(), or both
    MaxRequests,   \* bound: submissions in a behaviour
    MaxResets      \* bound: calls of reset()

AllStopOutcomes == {"reaped", "unkillable", "transport_stuck", "raises", "raises_late"}

ASSUME ProcessAssumption ==
    /\ MaxRestarts \in Nat /\ MaxRequests \in Nat /\ MaxResets \in Nat
    /\ Deadlines \subseteq BOOLEAN
    /\ "reaped" \in StopOutcomes /\ StopOutcomes \subseteq AllStopOutcomes

VARIABLES   \* shared under the Condition
    queued,         \* _queued
    active,         \* _active
    abortReason,    \* _abort_reason
    results,        \* _results
    epoch,          \* _epoch
    nextRequestId,  \* _next_request_id
    closed,         \* _closed
    exhausted,      \* _exhausted
    failures        \* _failures

VARIABLES   \* the supervisor's own
    pc,             \* where _run stands
    localEpoch,     \* its local epoch
    request,        \* its local request
    process,        \* _process: the generation of the process it holds
    processEpoch,   \* _process_epoch
    generation      \* _generation

VARIABLES   \* the operating system and the child
    living,         \* generations of the model processes that are alive
    serving,        \* ids of requests the held child works on
    inbox           \* _incoming: what the transport thread delivered

VARIABLES   \* what the caller saw; no step reads these
    issued,         \* every submission ever accepted
    withdrawn,      \* ids reported to it as replaced or cancelled
    expired,        \* ids expire_request() withdrew or aborted
    delivered,      \* outcomes returned by poll()
    resetFloor,     \* the first id since the last reset()
    cancelFloor     \* per episode, the first id since its last cancellation

mailbox    == <<queued, results>>
call       == <<active, abortReason>>
budget     == <<exhausted, failures>>
identity   == <<epoch, nextRequestId, closed>>
handle     == <<process, processEpoch, generation>>
childVars  == <<living, serving, inbox>>
supervisor == <<pc, localEpoch, request, handle, childVars>>
told       == <<withdrawn, expired, delivered>>
floors     == <<resetFloor, cancelFloor>>
history    == <<issued, told, floors>>
vars       == <<mailbox, call, budget, identity, supervisor, history>>

Request == [id : Nat, episode : Episodes, epoch : Nat, deadline : BOOLEAN]
Result  == [id : Nat, episode : Episodes, ok : BOOLEAN]

Ids(S) == {s.id : s \in S}
Outcome(R, ok) == {[id |-> r.id, episode |-> r.episode, ok |-> ok] : r \in R}

Init ==
    /\ queued = {} /\ active = {} /\ abortReason = "none" /\ results = {}
    /\ epoch = 0 /\ nextRequestId = 0 /\ closed = FALSE
    /\ exhausted = FALSE /\ failures = 0
    /\ pc = "top" /\ localEpoch = 0 /\ request = {}
    /\ process = {} /\ processEpoch = -1 /\ generation = 0
    /\ living = {} /\ serving = {} /\ inbox = {}
    /\ issued = {} /\ withdrawn = {} /\ expired = {} /\ delivered = {}
    /\ resetFloor = 0 /\ cancelFloor = [e \in Episodes |-> 0]

(***************************************************************************)
(* Definitions named Faulty... are not part of the model: each is a slip   *)
(* the code could have made, to be put in the place of the definition      *)
(* after it to see that a property notices.                                *)
(***************************************************************************)
Mailbox(r) == {r}

AfterPoll == {}

FaultyExpiryAbort == abortReason          \* the supervisor is not told
ExpiryAbort == "request_timeout"

CancelAbort(e) == IF \E r \in active : r.episode = e
                  THEN "episode_cancelled" ELSE abortReason

FaultyStale == FALSE                      \* a process is kept across resets
Stale == process # {} /\ processEpoch # epoch

Channel == {}       \* a new process has a channel of its own

FaultyDispatchAbort == abortReason        \* an earlier abort stays pending
DispatchAbort == "none"

FaultyExpiredOutcome == {}                \* dropped without an outcome
ExpiredOutcome == Outcome(queued, FALSE)

OverBudget(n) == n > MaxRestarts

FaultyRefused(n) == {}                    \* the waiting request waits on
Refused(n) == IF OverBudget(n) THEN queued ELSE {}

FaultyRetired == {}                       \* cleared but not reported
Retired == IF epoch = localEpoch THEN queued ELSE {}

\* _check_cancelled: "none", or the reason it raises _Cancelled with.
CancelReason(activeCall) ==
    IF closed THEN "closed"
    ELSE IF localEpoch # epoch THEN "episode_reset"
    ELSE IF activeCall THEN abortReason
    ELSE "none"

MayPublish == CancelReason(TRUE) = "none"

FaultyReaped == living                    \* signalled but not joined
Reaped == living \ process

----------------------------------------------------------------------------
(***************************************************************************)
(* The control thread.                                                     *)
(***************************************************************************)
\* Refused when closed or when the supervisor thread is no longer alive.
Reset ==
    /\ ~closed /\ pc # "dead" /\ epoch < MaxResets
    /\ epoch' = epoch + 1
    /\ queued' = {} /\ results' = {}
    /\ abortReason' = "episode_reset"
    /\ exhausted' = FALSE /\ failures' = 0
    /\ resetFloor' = nextRequestId
    /\ UNCHANGED <<active, nextRequestId, closed, supervisor, issued, told, cancelFloor>>

\* submit() and, with a deadline, submit_with_deadline().
Submit(e, deadline) ==
    /\ ~closed /\ nextRequestId < MaxRequests
    /\ nextRequestId' = nextRequestId + 1
    /\ LET new == [id |-> nextRequestId, episode |-> e, epoch |-> epoch,
                   deadline |-> deadline]
       IN /\ issued' = issued \cup {new}
          /\ queued' = IF exhausted THEN queued ELSE Mailbox(new)
          /\ results' = IF exhausted THEN results \cup Outcome({new}, FALSE)
                                     ELSE results
    /\ withdrawn' = withdrawn \cup Ids(queued)   \* receipt.replaced_request_id
    /\ UNCHANGED <<call, budget, epoch, closed, supervisor, expired, delivered, floors>>

Poll ==
    /\ results' = AfterPoll
    /\ delivered' = delivered \cup results
    /\ UNCHANGED <<queued, call, budget, identity, supervisor, issued,
                   withdrawn, expired, floors>>

CancelQueued(id) ==
    /\ id \in Ids(queued)
    /\ queued' = {}
    /\ withdrawn' = withdrawn \cup {id}
    /\ UNCHANGED <<results, call, budget, identity, supervisor, issued,
                   expired, delivered, floors>>

\* expire_request(): "queued" or "active"; the third answer changes nothing.
ExpireRequest(id) ==
    /\ \/ id \in Ids(queued) /\ queued' = {} /\ UNCHANGED abortReason
       \/ /\ id \notin Ids(queued) /\ id \in Ids(active)
          /\ abortReason' = ExpiryAbort /\ UNCHANGED queued
    /\ expired' = expired \cup {id}
    /\ UNCHANGED <<results, active, budget, identity, supervisor, issued,
                   withdrawn, delivered, floors>>

CancelEpisode(e) ==
    /\ queued' = {r \in queued : r.episode # e}
    /\ abortReason' = CancelAbort(e)
    /\ results' = {r \in results : r.episode # e}
    /\ cancelFloor' = [cancelFloor EXCEPT ![e] = nextRequestId]
    /\ UNCHANGED <<active, budget, identity, supervisor, issued, told, resetFloor>>

Close ==
    /\ closed' = TRUE
    /\ queued' = {} /\ results' = {}
    /\ UNCHANGED <<call, budget, epoch, nextRequestId, supervisor, history>>

Control ==
    \/ Reset \/ Poll \/ Close
    \/ \E e \in Episodes : CancelEpisode(e) \/ \E d \in Deadlines : Submit(e, d)
    \/ \E id \in Ids(queued \cup active) : CancelQueued(id) \/ ExpireRequest(id)

----------------------------------------------------------------------------
(***************************************************************************)
(* The child process.  What it sends reaches inbox unless it is killed.    *)
(***************************************************************************)
Alive == process # {} /\ process \subseteq living

Parent == <<mailbox, call, budget, identity, pc, localEpoch, request, handle, history>>

ChildReady ==
    /\ Alive /\ pc = "starting"
    /\ inbox' = inbox \cup {[kind |-> "ready", id |-> -1]}
    /\ UNCHANGED <<Parent, living, serving>>

ChildAnswer ==
    /\ Alive /\ serving # {}
    /\ inbox' = inbox \cup {[kind |-> "result", id |-> i] : i \in serving}
    /\ serving' = {}
    /\ UNCHANGED <<Parent, living>>

\* Construction, startup, reset or request raised: it reports and exits.
ChildFails ==
    /\ Alive
    /\ serving # {} \/ (pc = "starting" /\ \A m \in inbox : m.kind # "ready")
    /\ inbox' = inbox \cup {[kind |-> "failure", id |-> -1]}
    /\ living' = living \ process /\ serving' = {}
    /\ UNCHANGED Parent

\* It dies without a word, at any time.
ChildCrash ==
    /\ Alive
    /\ living' = living \ process /\ serving' = {}
    /\ UNCHANGED <<Parent, inbox>>

Child == ChildReady \/ ChildAnswer \/ ChildFails \/ ChildCrash

----------------------------------------------------------------------------
(***************************************************************************)
(* The supervisor thread, _run.                                            *)
(***************************************************************************)
Steady == <<localEpoch, handle, childVars, identity, history>>
Goto(label) == pc' = label /\ UNCHANGED <<mailbox, call, budget, request, Steady>>

\* The head of the loop; with nothing to do it waits and looks again.
SupTop ==
    /\ pc = "top"
    /\ closed \/ Stale \/ queued # {}
    /\ pc' = IF closed THEN "exiting" ELSE IF Stale THEN "stop_stale" ELSE "admit"
    /\ localEpoch' = IF closed THEN localEpoch ELSE epoch
    /\ request' = {}
    /\ UNCHANGED <<mailbox, call, budget, identity, handle, childVars, history>>

\* The refusal of a waiting request when the budget is spent (process.py:417-424)
\* is no action here: BudgetRespected says its condition never holds.
Admitted == pc = "admit"

SupKeep == Admitted /\ process # {} /\ Goto("dispatch")

SupStart ==
    /\ Admitted /\ process = {}
    /\ generation' = generation + 1
    /\ process' = {generation'} /\ processEpoch' = localEpoch
    /\ living' = living \cup process' /\ serving' = {} /\ inbox' = Channel
    /\ pc' = "starting"
    /\ UNCHANGED <<mailbox, call, budget, identity, localEpoch, request, history>>

\* The factory does not pickle, or Process.start raises: there is no process.
SupStartFails ==
    /\ Admitted /\ process = {}
    /\ generation' \in {generation, generation + 1}
    /\ processEpoch' = IF generation' = generation THEN processEpoch ELSE localEpoch
    /\ pc' = "start_fault"
    /\ UNCHANGED <<mailbox, call, budget, identity, localEpoch, request,
                   process, childVars, history>>

\* _check_cancelled raised: in _receive, before dispatch, or before publishing.
\* Of the cancellations only an expired request also counts as a fault.
SupCancelled ==
    /\ pc \in {"starting", "dispatch", "executing", "publish"}
    /\ LET reason == CancelReason(pc \in {"executing", "publish"})
       IN /\ reason # "none"
          /\ Goto(IF reason = "request_timeout" THEN "record_fault" ELSE "stopping")

\* _receive raises _Fault: the watchdog, an exited child, a reported failure,
\* or a response to another request.
SupFault ==
    /\ pc \in {"starting", "executing"}
    /\ Goto(IF request = {} THEN "start_fault" ELSE "record_fault")

\* The response _receive waits for; every other one is a fault.
Expected(m) == \/ pc = "starting" /\ m.kind = "ready"
               \/ pc = "executing" /\ m.kind = "result" /\ m.id \in Ids(request)

SupReceive ==
    /\ \E m \in inbox : Expected(m) /\ inbox' = inbox \ {m}
    /\ pc' = IF pc = "starting" THEN "dispatch" ELSE "publish"
    /\ UNCHANGED <<mailbox, call, budget, identity, localEpoch, request,
                   handle, living, serving, history>>

Dispatching == pc = "dispatch" /\ CancelReason(FALSE) = "none"

\* Replaced, cancelled or expired while the model loaded: nothing to do.
SupDispatchNothing == Dispatching /\ queued = {} /\ Goto("finally")

\* Past its deadline before it reached the model.
SupDispatchExpired ==
    /\ Dispatching /\ \E r \in queued : r.deadline
    /\ results' = results \cup ExpiredOutcome
    /\ request' = queued /\ queued' = {}
    /\ pc' = "finally"
    /\ UNCHANGED <<call, budget, Steady>>

SupDispatch ==
    /\ Dispatching /\ queued # {}
    /\ request' = queued /\ active' = queued /\ queued' = {}
    /\ abortReason' = DispatchAbort
    /\ serving' = IF Alive THEN Ids(queued) ELSE {}
    /\ pc' = "executing"
    /\ UNCHANGED <<results, budget, identity, localEpoch, handle, living, inbox, history>>

SupPublish ==
    /\ pc = "publish" /\ MayPublish
    /\ results' = results \cup Outcome(request, TRUE)
    /\ failures' = 0
    /\ pc' = "finally"
    /\ UNCHANGED <<queued, call, exhausted, request, Steady>>

\* A startup failure also retires the request that waits for the process.
SupStartFault ==
    /\ pc = "start_fault"
    /\ pc' = "record_fault"
    /\ request' = Retired
    /\ queued' = IF epoch = localEpoch THEN {} ELSE queued
    /\ abortReason' = IF epoch = localEpoch THEN "none" ELSE abortReason
    /\ UNCHANGED <<results, active, budget, Steady>>

\* An aborted request gets no outcome: the caller gave it up.
Failed == IF abortReason = "none" THEN request ELSE {}

\* _record_fault: nothing after a reset or close; else one failure more, and
\* past the budget the waiting request is refused too.
SupRecordFault ==
    /\ pc = "record_fault"
    /\ pc' = "stopping"
    /\ IF localEpoch # epoch \/ closed THEN UNCHANGED <<mailbox, budget>>
       ELSE /\ failures' = failures + 1
            /\ exhausted' = (exhausted \/ OverBudget(failures'))
            /\ queued' = queued \ Refused(failures')
            /\ results' = results \cup Outcome(Failed \cup Refused(failures'), FALSE)
    /\ UNCHANGED <<call, request, Steady>>

(***************************************************************************)
(* _stop: terminate, kill, join, close the pipe, join the transport.  The  *)
(* process goes unless it cannot be killed or an OS call raises before.    *)
(***************************************************************************)
Stop(outcome) ==
    /\ outcome \in StopOutcomes
    /\ outcome = "unkillable" => Alive
    /\ outcome # "reaped" => process # {}
    /\ IF outcome \in {"reaped", "transport_stuck", "raises_late"}
       THEN living' = Reaped /\ process' = {} /\ serving' = {}
       ELSE UNCHANGED <<living, process, serving>>
    /\ UNCHANGED <<mailbox, call, budget, identity, localEpoch, request,
                   processEpoch, generation, inbox, history>>

AfterStop(outcome, reaped, raised, gaveUp) ==
    pc' = CASE outcome = "reaped"                     -> reaped
            [] outcome \in {"raises", "raises_late"} -> raised
            [] OTHER                                  -> gaveUp

\* In the handlers of the inner try, ...
SupStop(outcome) ==
    /\ pc = "stopping" /\ Stop(outcome)
    /\ AfterStop(outcome, "finally", "finally_fail", "finally_exit")

\* ... at the head of the loop, for a process of an earlier epoch, ...
SupStopStale(outcome) ==
    /\ pc = "stop_stale" /\ Stop(outcome)
    /\ AfterStop(outcome, "top", "failing", "exiting")

\* ... and in the outer finally, before the thread ends.
SupExit(outcome) ==
    /\ pc = "exiting" /\ Stop(outcome)
    /\ AfterStop(outcome, "fail_closed", "ended", "fail_closed")

\* The inner finally, on the way to the next iteration or out of the loop.
SupFinally ==
    /\ pc \in {"finally", "finally_exit", "finally_fail"}
    /\ active' = {} /\ abortReason' = "none"
    /\ pc' = CASE pc = "finally"      -> "top"
               [] pc = "finally_exit" -> "exiting"
               [] pc = "finally_fail" -> "failing"
    /\ UNCHANGED <<mailbox, budget, request, Steady>>

\* The outer except: an error of the supervisor itself.
SupFailing ==
    /\ pc = "failing"
    /\ results' = results \cup
         Outcome({r \in active \cup queued : ~closed /\ r.epoch = epoch}, FALSE)
    /\ queued' = {}
    /\ pc' = "exiting"
    /\ UNCHANGED <<call, budget, request, Steady>>

\* The backend is marked unavailable; then the thread is gone.
SupFailClosed ==
    /\ pc = "fail_closed"
    /\ exhausted' = TRUE
    /\ pc' = "ended"
    /\ UNCHANGED <<mailbox, call, failures, request, Steady>>

SupEnd == pc = "ended" /\ Goto("dead")

Supervisor ==
    \/ SupTop \/ SupKeep \/ SupStart \/ SupStartFails
    \/ SupCancelled \/ SupFault \/ SupReceive
    \/ SupDispatchNothing \/ SupDispatchExpired \/ SupDispatch \/ SupPublish
    \/ SupStartFault \/ SupRecordFault
    \/ \E o \in AllStopOutcomes : SupStop(o) \/ SupStopStale(o) \/ SupExit(o)
    \/ SupFinally \/ SupFailing \/ SupFailClosed \/ SupEnd

Next == Control \/ Child \/ Supervisor

\* The supervisor thread runs; its joins and receives are all bounded by
\* timeouts, so every one of its steps returns.
Fairness == WF_vars(Supervisor)

Spec == Init /\ [][Next]_vars
FairSpec == Spec /\ Fairness

----------------------------------------------------------------------------
TypeOK ==
    /\ queued \in SUBSET Request /\ \A r, s \in queued : r = s
    /\ active \in SUBSET Request /\ \A r, s \in active : r = s
    /\ abortReason \in {"none", "episode_reset", "request_timeout", "episode_cancelled"}
    /\ results \in SUBSET Result
    /\ epoch \in Nat /\ nextRequestId \in Nat /\ failures \in Nat
    /\ closed \in BOOLEAN /\ exhausted \in BOOLEAN
    /\ pc \in {"top", "admit", "starting", "dispatch", "executing", "publish",
               "start_fault", "record_fault", "stopping", "stop_stale",
               "finally", "finally_exit", "finally_fail", "failing",
               "exiting", "fail_closed", "ended", "dead"}
    /\ localEpoch \in Nat
    /\ request \in SUBSET Request /\ \A r, s \in request : r = s
    /\ generation \in Nat /\ processEpoch \in Nat \cup {-1}
    /\ process \in SUBSET Nat /\ living \in SUBSET Nat
    /\ serving \in SUBSET Nat
    /\ inbox \in SUBSET [kind : {"ready", "result", "failure"}, id : Nat \cup {-1}]
    /\ issued \in SUBSET Request /\ delivered \in SUBSET Result
    /\ withdrawn \in SUBSET Nat /\ expired \in SUBSET Nat
    /\ resetFloor \in Nat /\ cancelFloor \in [Episodes -> Nat]

(***************************************************************************)
(* There are never two model processes at once, even if one could not be   *)
(* killed (process.py:360, docs/PROCESS_BACKEND.md:51).                    *)
(***************************************************************************)
OneModel == \A p, q \in living : p = q

(***************************************************************************)
(* A request runs in a process launched since the last reset() before its  *)
(* submission, so that no model state crosses a reset, and what it gets is *)
(* its own answer, never the late one of an aborted request before it      *)
(* (process.py:318, 405-413, 428).                                         *)
(***************************************************************************)
OwnProcess ==
    pc = "executing" =>
        /\ \A r \in request : r.epoch = processEpoch
        /\ \A m \in inbox : m.kind = "result" => m.id \in Ids(request)

(***************************************************************************)
(* docs/PROCESS_BACKEND.md:49, which says more than the refinement:        *)
(* cancel_episode withdraws the waiting request and the results; nothing   *)
(* of them follows.                                                        *)
(***************************************************************************)
CancelledIsSilent == \A r \in results : r.id >= cancelFloor[r.episode]

(***************************************************************************)
(* A running request is stopped only because it was itself expired or      *)
(* cancelled, or because of a reset or close: an abort meant for an        *)
(* earlier request never hits the next one (process.py:441, 483-484).      *)
(***************************************************************************)
InnocentSurvives ==
    pc = "executing" /\ localEpoch = epoch /\ abortReason # "none" =>
        \A r \in request : r.id \in expired \/ r.id < cancelFloor[r.episode]

(***************************************************************************)
(* A request whose loss the caller could not know of is waiting, with the  *)
(* supervisor, or answered; nothing vanishes in a fault path.              *)
(***************************************************************************)
NoSilentLoss ==
    ~closed =>
        \A s \in issued :
            \/ s.id < resetFloor \/ s.id < cancelFloor[s.episode]
            \/ s.id \in withdrawn \cup expired
            \/ s.id \in Ids(queued \cup results \cup delivered)
            \/ s.id \in Ids(request)
               /\ pc \in {"executing", "publish", "record_fault"}

(***************************************************************************)
(* Seen from the control thread this is a LatestOnlyBackend too.  An       *)
(* exhausted backend keeps nobody waiting.  What the supervisor holds may  *)
(* still have an outcome until it is aborted; after a cancellation it did  *)
(* not notice, a failure only (process.py:381-386, 472-476).               *)
(***************************************************************************)
Requests(S) == {[id |-> r.id, episode |-> r.episode] : r \in S}
Held == {r \in request : /\ pc \in {"executing", "publish", "record_fault"}
                         /\ ~closed /\ localEpoch = epoch /\ abortReason = "none"}
Unnoticed == {r \in Held : r.id < cancelFloor[r.episode]}

Promise == INSTANCE LatestOnlyBackend
               WITH waiting <- Requests({r \in queued : ~exhausted}),
                    running <- Requests(Held \ Unnoticed),
                    failing <- Requests(Unnoticed),
                    ready <- results, returned <- delivered, withdrawn <- withdrawn \cup expired,
                    handedOut <- nextRequestId

(***************************************************************************)
(* Through every fault, refusal, expiry, reset and way _stop can end: an   *)
(* outcome comes only from a request that waits or is worked on, once,     *)
(* and what was replaced, expired or reset has none from then on.          *)
(***************************************************************************)
ImplementsLatestOnly == Promise!Spec

(***************************************************************************)
(* The model only runs while the consecutive faults are within the budget, *)
(* also when a reset re-arms it in the middle of a fault; and until the    *)
(* supervisor has ended no request waits for a backend that is exhausted   *)
(* (process.py:203-207, 377-397, 417).                                     *)
(***************************************************************************)
BudgetRespected ==
    /\ pc \in {"starting", "executing"} => failures <= MaxRestarts
    /\ failures <= MaxRestarts + 1
    /\ exhausted /\ queued # {} => pc \in {"ended", "dead"}

(***************************************************************************)
(* Every request is answered, unless the caller withdrew it, invalidated   *)
(* it or closed the backend: hangs, crashes and faults all end in one.     *)
(***************************************************************************)
Settled(id) ==
    \/ id \in Ids(results \cup delivered)
    \/ id \in withdrawn \cup expired
    \/ id < resetFloor
    \/ \E s \in issued : s.id = id /\ id < cancelFloor[s.episode]
    \/ closed

EveryRequestSettled ==
    \A id \in 0 .. MaxRequests - 1 : id \in Ids(issued) ~> Settled(id)

(***************************************************************************)
(* close() always ends with the child reaped and the supervisor gone.      *)
(***************************************************************************)
CloseReaps == closed ~> pc = "dead" /\ living = {}

(***************************************************************************)
(* docs/PROCESS_BACKEND.md:51: once the supervisor has stopped for good a  *)
(* reset must not pretend to recover; the backend stays unavailable.       *)
(***************************************************************************)
DeadIsUnavailable == pc = "dead" /\ ~closed => exhausted
============================================================================
