--------------------------- MODULE OfflineInference ---------------------------
(***************************************************************************)
(* run_offline_inference (src/robovla_runtime/integrations/                *)
(* offline_inference.py): samples are replayed one after the other through *)
(* a process backend.  One request is outstanding at a time; each attempt  *)
(* has a bounded wait, a failed one is repeated, and diagnostics of the    *)
(* supervisor tell when to give up.  The control thread of ProcessBackend  *)
(* does what the replay does; supervisor and child are as they are there.  *)
(*                                                                         *)
(* Files and counts written at the end are left out, except the exit code  *)
(* and the attempts, and so are errors in writing them: such an error      *)
(* leaves the replay the way that of reset() does.                         *)
(***************************************************************************)
EXTENDS ProcessBackend, Sequences, FiniteSets

CONSTANT Configs   \* inputs: the episode of each sample, repeats, attempts

\* The replay submits without a deadline, and the bounds of ProcessBackend
\* never keep it from anything.
ASSUME ReplayAssumption ==
    /\ FALSE \in Deadlines
    /\ \A c \in Configs :
           /\ c.samples \in Seq(Episodes) /\ c.repeats \in Nat /\ c.attempts \in Nat \ {0}
           /\ MaxRequests >= Len(c.samples) * c.repeats * c.attempts
           /\ MaxResets >= Len(c.samples) * c.repeats

VARIABLES   \* kept by the backend
    diagnostics,  \* _diagnostics, of the kinds the replay looks at
    unserved      \* ids of outcomes with error type ProcessUnavailable

VARIABLES   \* local to run_offline_inference
    config,       \* what it is called with
    phase,        \* where it stands
    position,     \* samples done so far, over all repeats
    attempt,      \* attempts made for the present one
    receipt,      \* the id of the present request
    batch,        \* what poll() returned
    result,       \* the outcome of the present request
    unavailable,  \* its exhausted
    generations,  \* request_generations
    attempts,     \* the records of attempts.jsonl
    ending,       \* none, interrupted or fatal
    exitCode

backend == vars
answer  == <<receipt, batch, result>>
records == <<generations, attempts>>
outcome == <<ending, exitCode>>
replay  == <<config, phase, position, attempt, answer, unavailable, records, outcome>>
replayVars == <<backend, diagnostics, unserved, replay>>

ReplayInit ==
    /\ Init
    /\ diagnostics = {} /\ unserved = {}
    /\ config \in Configs
    /\ phase = "opening" /\ position = 0 /\ attempt = 0
    /\ receipt = {} /\ batch = {} /\ result = {}
    /\ unavailable = FALSE /\ generations = {} /\ attempts = <<>>
    /\ ending = "none" /\ exitCode = -1

Count == Len(config.samples)
Total == Count * config.repeats

----------------------------------------------------------------------------
\* See ProcessBackend for the definitions named Faulty...
FaultyOwn(r) == TRUE                       \* any outcome will do
Own(r) == r.id \in receipt

FaultyAlarming == {}                       \* what stopped is not noticed
Alarming == {d \in diagnostics : d.kind = "alarm"}

FaultySucceeded(good, closedWell) == good = Total /\ ending = "none"   \* closed or not
Succeeded(good, closedWell) == good = Total /\ closedWell /\ ending = "none"

----------------------------------------------------------------------------
(***************************************************************************)
(* The supervisor tells of the process that got a request, of an exhausted *)
(* budget, of a process or transport that would not end and of an error of *)
(* its own.  (One that will not end during close() changes nothing more.)  *)
(***************************************************************************)
Alarm ==
    \/ pc = "record_fault" /\ failures' # failures /\ failures' > MaxRestarts
    \/ pc' \in {"failing", "finally_exit"}
    \/ pc = "stop_stale" /\ pc' = "exiting"

Emitted ==
    {[kind |-> "started", id |-> r.id, process |-> generation] : r \in active' \ active}
        \cup IF Alarm THEN {[kind |-> "alarm"]} ELSE {}

\* What becomes of both after the replay has returned is left out.
SupervisorStep ==
    /\ Supervisor /\ phase # "finished"
    /\ diagnostics' = diagnostics \cup Emitted
    /\ unserved' = unserved \cup
          IF pc = "record_fault" THEN Ids(queued) \ Ids(queued') ELSE {}
    /\ UNCHANGED replay

ChildStep == Child /\ phase # "finished" /\ UNCHANGED <<diagnostics, unserved, replay>>

----------------------------------------------------------------------------
(***************************************************************************)
(* The replay.                                                             *)
(***************************************************************************)
Episode(p) == config.samples[(p % Count) + 1]
NewEpisode == position % Count = 0 \/ Episode(position) # Episode(position - 1)

Step(from, to) == phase = from /\ phase' = to
Local == UNCHANGED <<backend, diagnostics, unserved>>

CreateBackend ==
    /\ Step("opening", "sample") /\ Local
    /\ UNCHANGED <<config, position, attempt, answer, unavailable, records, outcome>>

\* An error or a keyboard interrupt comes first; there is nothing to close then.
CreationRaises ==
    /\ Step("opening", "finished") /\ Local
    /\ \/ ending' = "fatal" /\ exitCode' = 1
       \/ ending' = "interrupted" /\ exitCode' = 130
    /\ UNCHANGED <<config, position, attempt, answer, unavailable, records>>

\* The try statement is left, and its finally closes the backend.
LeaveWith(how) ==
    /\ phase' = "joining"
    /\ ending' = how
    /\ Close
    /\ UNCHANGED <<diagnostics, unserved, config, position, attempt, answer, unavailable,
                   records, exitCode>>

EndReplay ==
    /\ phase = "sample"
    /\ unavailable \/ position = Total
    /\ LeaveWith("none")

Continues == phase = "sample" /\ ~unavailable /\ position < Total

ResetEpisode ==
    /\ Continues /\ NewEpisode
    /\ phase' = "submit"
    /\ Reset
    /\ UNCHANGED <<diagnostics, unserved, config, position, attempt, answer, unavailable,
                   records, outcome>>

\* reset() raises: the supervisor is gone.
ResetRaises ==
    /\ Continues /\ NewEpisode /\ pc = "dead"
    /\ LeaveWith("fatal")

SubmitSample ==
    /\ phase = "submit" \/ (Continues /\ ~NewEpisode)
    /\ phase' = "waiting"
    /\ Submit(Episode(position), FALSE)
    /\ receipt' = {nextRequestId} /\ result' = {}
    /\ unserved' = IF exhausted THEN unserved \cup receipt' ELSE unserved
    /\ UNCHANGED <<diagnostics, config, position, attempt, batch, unavailable, records, outcome>>

\* drain()
Drain ==
    /\ diagnostics' = {}
    /\ unavailable' = (unavailable \/ Alarming # {})
    /\ generations' = generations \cup
          {[id |-> d.id, process |-> d.process] : d \in {e \in diagnostics : e.kind = "started"}}

\* drain() and poll(): what the supervisor does between the two is drained
\* after the poll all the same.
PollStep ==
    /\ Step("waiting", "sorting")
    /\ Drain
    /\ Poll
    /\ batch' = results
    /\ UNCHANGED <<unserved, config, position, attempt, receipt, result, attempts, outcome>>

\* Outcomes of earlier attempts are discarded.
SortStep ==
    /\ phase = "sorting"
    /\ Drain
    /\ result' = {r \in batch : Own(r)} /\ batch' = {}
    /\ phase' = IF result' # {} \/ unavailable' THEN "collecting" ELSE "waiting"
    /\ UNCHANGED <<backend, unserved, config, position, attempt, receipt, attempts, outcome>>

DeadlinePasses ==
    /\ Step("waiting", "collecting") /\ Local
    /\ UNCHANGED <<config, position, attempt, answer, unavailable, records, outcome>>

\* A success, or an end of the attempts, leads to the next sample.
Record(status) ==
    /\ phase = "collecting"
    /\ \E id \in receipt :
           attempts' = Append(attempts, [position |-> position, id |-> id, status |-> status])
    /\ IF status = "succeeded" \/ unavailable' \/ attempt + 1 = config.attempts
       THEN phase' = "sample" /\ position' = position + 1 /\ attempt' = 0
       ELSE phase' = "submit" /\ attempt' = attempt + 1 /\ UNCHANGED position
    /\ receipt' = {} /\ result' = {}
    /\ UNCHANGED <<diagnostics, unserved, config, batch, generations, outcome>>

\* The request is withdrawn or aborted, unless its outcome came just now.
RecordUnanswered ==
    /\ result = {}
    /\ \/ \E id \in receipt : ExpireRequest(id)
       \/ receipt \cap Ids(queued \cup active) = {} /\ UNCHANGED backend
    /\ UNCHANGED unavailable
    /\ Record("unanswered")

RecordFailure ==
    /\ \E r \in result : ~r.ok /\ unavailable' = (unavailable \/ r.id \in unserved)
    /\ UNCHANGED backend
    /\ Record("failed")

\* _validate_result: the prediction may contradict the request or the
\* contract; nothing the process says is believed after that.
RecordInvalid ==
    /\ \E r \in result : r.ok
    /\ unavailable' = TRUE
    /\ UNCHANGED backend
    /\ Record("invalid")

RecordSuccess ==
    /\ \E r \in result : r.ok /\ r.id \in receipt
    /\ UNCHANGED <<backend, unavailable>>
    /\ Record("succeeded")

\* A keyboard interrupt before the finally; one during close() is left out.  How
\* the backend closes does not matter to the code.
Interrupt ==
    /\ phase \in {"sample", "submit", "waiting", "sorting", "collecting"}
    /\ phase' = "finished"
    /\ ending' = "interrupted" /\ exitCode' = 130
    /\ Close
    /\ UNCHANGED <<diagnostics, unserved, config, position, attempt, answer, unavailable,
                   records>>

GoodSamples == {attempts[i].position :
                   i \in {j \in DOMAIN attempts : attempts[j].status = "succeeded"}}

\* After the bounded join, and a last drain; both may fail.
Finish ==
    /\ Step("joining", "finished") /\ Local
    /\ \E closedWell \in {FALSE, pc = "dead" /\ process = {}} :
           exitCode' = IF Succeeded(Cardinality(GoodSamples), closedWell) THEN 0 ELSE 1
    /\ UNCHANGED <<config, position, attempt, answer, unavailable, records, ending>>

ReplayStep ==
    \/ CreateBackend \/ EndReplay \/ ResetEpisode \/ ResetRaises
    \/ SubmitSample \/ PollStep \/ SortStep
    \/ RecordUnanswered \/ RecordFailure \/ RecordInvalid \/ RecordSuccess
    \/ Finish

ReplayNext ==
    \/ ReplayStep
    \/ CreationRaises \/ Interrupt \/ DeadlinePasses
    \/ SupervisorStep \/ ChildStep

\* The replay's thread runs.  Nothing is assumed of supervisor and child.
ReplaySpec == ReplayInit /\ [][ReplayNext]_replayVars /\ WF_replayVars(ReplayStep)

----------------------------------------------------------------------------
(***************************************************************************)
(* Each attempt has a request of its own and is recorded with the outcome  *)
(* of just that request, never the late one of an attempt before it; a     *)
(* sample is tried again only after a failure and within the limit; and    *)
(* the process that made a saved prediction is known                       *)
(* (offline_inference.py:196-245, docs/FLUXVLA_CLI.md:123).                *)
(***************************************************************************)
AttemptsAreOwn ==
    /\ \A i, j \in DOMAIN attempts : i < j =>
           /\ attempts[i].id < attempts[j].id
           /\ attempts[i].position = attempts[j].position =>
                  attempts[i].status \in {"failed", "unanswered"} /\ j - i < config.attempts
    /\ \A i \in DOMAIN attempts :
           LET own == {r \in delivered : r.id = attempts[i].id}
           IN CASE attempts[i].status = "failed" -> \E r \in own : ~r.ok
                [] attempts[i].status = "succeeded" ->
                       /\ \E r \in own : r.ok
                       /\ \E g \in generations : g.id = attempts[i].id
                [] OTHER -> TRUE

(***************************************************************************)
(* docs/FLUXVLA_CLI.md:150: exit code 0 means that every sample succeeded  *)
(* and that the worker is gone: no process lives, no thread serves it.     *)
(***************************************************************************)
ExitIsHonest ==
    exitCode = 0 => /\ GoodSamples = 0 .. Total - 1
                    /\ living = {} /\ pc = "dead"

(***************************************************************************)
(* The replay ends whatever the process does.  Its own deadline is enough  *)
(* for that, though the supervisor stall for ever; and so are the          *)
(* supervisor's outcomes and diagnostics, though the deadline never pass   *)
(* (offline_inference.py:160, 186-205).                                    *)
(***************************************************************************)
Ends == <>(phase = "finished")

ReplayEnds ==
    /\ SF_replayVars(DeadlinePasses) => Ends
    /\ WF_replayVars(SupervisorStep) => Ends
============================================================================
