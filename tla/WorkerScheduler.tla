-------------------------- MODULE WorkerScheduler --------------------------
(***************************************************************************)
(* WorkerAsyncScheduler (src/robovla_runtime/scheduling/worker_async.py),  *)
(* the control thread's bookkeeping of the requests it sent to a worker:   *)
(* which are live, which were retired and why, and which results may still *)
(* reach the ActionBuffer.                                                 *)
(*                                                                         *)
(* Here the backend is anything that satisfies the AsyncPolicyBackend      *)
(* protocol's signatures: results come in any order, twice, mislabelled,   *)
(* for requests nobody made, or never.  RealtimeRuntime puts a real one in *)
(* its place.                                                              *)
(*                                                                         *)
(* Request ids count up, and requests are submitted in the order of their  *)
(* observations, so an id also stands for the observation key.  Time only  *)
(* matters relative to the deadlines: the deadline of request i is the     *)
(* instant 2i + 1, the even instants lie between two deadlines.            *)
(***************************************************************************)
EXTENDS Integers, Sequences, FiniteSets, SequencesExt

CONSTANTS
    Modes,        \* the modes tried: {FALSE} "fixed", {TRUE} "adaptive", or both
    HistorySize,  \* how many retired requests are remembered, 256 in the code
    MaxRequests,  \* bound: submissions in a behaviour
    MaxBatch      \* bound: results one backend.poll() returns

ASSUME SchedulerAssumption ==
    /\ Modes \subseteq BOOLEAN /\ HistorySize \in Nat \ {0}
    /\ MaxRequests \in Nat /\ MaxBatch \in Nat

VARIABLES
    adaptive,        \* worker_prefetch = "adaptive"
    requests,        \* _requests: ids of the live requests
    retired,         \* _retired, oldest first
    latestAccepted,  \* _latest_accepted_observation, -1 for None
    now,             \* the local now of tick() and poll()
    stage,           \* where the control thread stands in tick() or poll()
    batch            \* results polled and not yet looked at

VARIABLES
    clock,           \* the real time
    submitted        \* ids handed out by the backend so far

VARIABLES   \* what the event log shows; no step reads these
    fate,            \* per request, the reasons it was retired for, in order
    accepted,        \* chunks that went into the ActionBuffer, in order
    sampled,         \* requests whose latency the adaptive estimate took
    cancelledBelow,  \* the first id since the last cancel_episode()
    polledAt         \* the time when the backend's last poll() returned

tables   == <<requests, retired, latestAccepted>>
position == <<now, stage, batch>>
world    == <<adaptive, clock, submitted>>
log      == <<fate, accepted, sampled, cancelledBelow, polledAt>>
vars     == <<tables, position, world, log>>

RequestId == 0 .. MaxRequests - 1
Reasons   == {"request_timeout", "invalid_timestamp", "identity_mismatch", "failed",
              "late_completion", "completed", "mailbox_replaced", "episode_cancelled"}
Result    == [id : RequestId,
              kind : {"prediction", "failure", "invalid_timestamp", "identity_mismatch"}]

DeadlineOf(id) == 2 * id + 1

Init ==
    /\ requests = {} /\ retired = <<>> /\ latestAccepted = -1
    /\ now = 0 /\ stage = "out" /\ batch = <<>>
    /\ adaptive \in Modes /\ clock = 0 /\ submitted = 0
    /\ fate = [id \in RequestId |-> <<>>]
    /\ accepted = <<>> /\ sampled = <<>> /\ cancelledBelow = 0 /\ polledAt = 0

(***************************************************************************)
(* Definitions named Faulty... are not part of the model: each is a slip   *)
(* the code could have made, to be put in the place of the definition      *)
(* after it to see that a property notices.                                *)
(***************************************************************************)
FaultyTrimmed(history) == history            \* never evicted
Trimmed(history) == IF Len(history) <= HistorySize THEN history
                    ELSE SubSeq(history, Len(history) - HistorySize + 1, Len(history))

FaultyRefreshed == now                       \* the caller's time, before the poll
Refreshed == clock

RetiredAs(id) == {retired[i].reason : i \in {j \in DOMAIN retired : retired[j].id = id}}

FaultyKnown(id) == id \in requests \/ RetiredAs(id) # {}   \* also the completed ones
Known(id) == id \in requests \/ "request_timeout" \in RetiredAs(id)

FaultySuperseded(id) == FALSE                \* no look at the newest observation
Superseded(id) == id <= latestAccepted

FaultyRelabelled(entry) == entry             \* timed-out requests stay claimable
Relabelled(entry) == IF entry.reason = "request_timeout"
                     THEN [entry EXCEPT !.reason = "episode_cancelled"] ELSE entry

----------------------------------------------------------------------------
\* _retire, here with the reasons it is called with one after the other.
Others(id) == IF RetiredAs(id) = {} THEN retired
              ELSE RemoveAt(retired, CHOOSE i \in DOMAIN retired : retired[i].id = id)
Retire(id, reasons) ==
    /\ retired' = Trimmed(Append(Others(id), [id |-> id, reason |-> reasons[Len(reasons)]]))
    /\ fate' = [fate EXCEPT ![id] = @ \o reasons]

\* A live request whose deadline passed is timed out before its result counts.
Late(id) == id \notin requests \/ now > DeadlineOf(id)
Timeout(id) == IF id \in requests /\ Late(id) THEN <<"request_timeout">> ELSE <<>>

Sample(id) == sampled' = IF adaptive THEN Append(sampled, id) ELSE sampled

\* tick() is entered with the time its caller read.
BeginTick ==
    /\ stage = "out"
    /\ stage' = "ticking" /\ now' = clock
    /\ UNCHANGED <<tables, batch, world, log>>

\* poll() drains the backend and reads the clock again.
Poll(results) ==
    /\ stage \in {"out", "ticking"}
    /\ stage' = "polling"
    /\ batch' = results
    /\ now' = Refreshed /\ polledAt' = clock
    /\ UNCHANGED <<tables, world, fate, accepted, sampled, cancelledBelow>>

\* The next result of the batch.
Handling(kinds) ==
    /\ stage = "polling" /\ batch # <<>>
    /\ Head(batch).kind \in kinds
    /\ batch' = Tail(batch)
    /\ UNCHANGED <<now, stage, world, cancelledBelow, polledAt>>

Id == Head(batch).id

\* Unknown, evicted, replaced, cancelled, or already answered.
DiscardUnknown ==
    /\ Handling({"prediction", "failure", "invalid_timestamp", "identity_mismatch"})
    /\ ~Known(Id)
    /\ UNCHANGED <<tables, fate, accepted, sampled>>

DiscardInvalid ==
    /\ Handling({"invalid_timestamp", "identity_mismatch"})
    /\ Known(Id)
    /\ requests' = requests \ {Id}
    /\ Retire(Id, <<Head(batch).kind>>)
    /\ UNCHANGED <<latestAccepted, accepted, sampled>>

CollectFailure ==
    /\ Handling({"failure"})
    /\ Known(Id)
    /\ requests' = requests \ {Id}
    /\ Retire(Id, Timeout(Id) \o <<"failed">>)
    /\ UNCHANGED <<latestAccepted, accepted, sampled>>

CollectLate ==
    /\ Handling({"prediction"})
    /\ Known(Id) /\ Late(Id)
    /\ requests' = requests \ {Id}
    /\ Retire(Id, Timeout(Id) \o <<"late_completion">>)
    /\ Sample(Id)
    /\ UNCHANGED <<latestAccepted, accepted>>

CollectSuperseded ==
    /\ Handling({"prediction"})
    /\ Known(Id) /\ ~Late(Id) /\ Superseded(Id)
    /\ requests' = requests \ {Id}
    /\ Retire(Id, <<"completed">>)
    /\ UNCHANGED <<latestAccepted, accepted, sampled>>

\* The ActionBuffer takes the chunk or finds every action of it expired.
CollectCompleted(taken) ==
    /\ Handling({"prediction"})
    /\ Known(Id) /\ ~Late(Id) /\ ~Superseded(Id)
    /\ requests' = requests \ {Id}
    /\ Retire(Id, <<"completed">>)
    /\ Sample(Id)
    /\ latestAccepted' = IF taken THEN Id ELSE latestAccepted
    /\ accepted' = IF taken THEN Append(accepted, Id) ELSE accepted

Collect ==
    \/ DiscardUnknown \/ DiscardInvalid \/ CollectFailure \/ CollectLate
    \/ CollectSuperseded \/ \E taken \in BOOLEAN : CollectCompleted(taken)

\* The requests whose deadline has come and whose result was not in the batch.
Overdue == {id \in requests : now >= DeadlineOf(id)}

Expire(id) ==
    /\ stage = "polling" /\ batch = <<>>
    /\ id \in Overdue /\ \A other \in Overdue : id <= other
    /\ requests' = requests \ {id}
    /\ Retire(id, <<"request_timeout">>)
    /\ UNCHANGED <<latestAccepted, position, world, accepted, sampled,
                   cancelledBelow, polledAt>>

EndPoll ==
    /\ stage = "polling" /\ batch = <<>> /\ Overdue = {}
    /\ stage' = "polled" /\ now' = 0 /\ polledAt' = 0     \* poll()'s local is gone
    /\ UNCHANGED <<tables, batch, world, fate, accepted, sampled, cancelledBelow>>

\* There is coverage enough, or it is too early for the next request.
Skip ==
    /\ stage = "polled"
    /\ stage' = "out"
    /\ UNCHANGED <<tables, now, batch, world, log>>

MaySubmit == adaptive => requests = {}

\* _submit: the receipt names the new id and the waiting request it replaced.
Submit(replaced) ==
    /\ stage = "polled" /\ MaySubmit
    /\ submitted < MaxRequests /\ submitted' = submitted + 1
    /\ stage' = "out"
    /\ requests' = (requests \cup {submitted}) \ replaced
    /\ IF replaced \cap requests = {} THEN UNCHANGED <<retired, fate>>
       ELSE \E id \in replaced : Retire(id, <<"mailbox_replaced">>)
    /\ UNCHANGED <<latestAccepted, now, batch, adaptive, clock, accepted, sampled,
                   cancelledBelow, polledAt>>

\* cancel_episode(): the live requests are retired in the order of their
\* submission, and what timed out before can no longer be claimed.
InOrder(S) == CHOOSE s \in [1 .. Cardinality(S) -> S] :
                  \A i, j \in DOMAIN s : i < j => s[i] < s[j]

CancelEpisode ==
    /\ stage \in {"out", "polled"} /\ stage' = "out"
    /\ requests' = {}
    /\ LET entries == [i \in 1 .. Cardinality(requests) |->
                          [id |-> InOrder(requests)[i], reason |-> "episode_cancelled"]]
           history == Trimmed(retired \o entries)
       IN retired' = [i \in DOMAIN history |-> Relabelled(history[i])]
    /\ fate' = [id \in RequestId |->
                   IF id \in requests THEN Append(fate[id], "episode_cancelled") ELSE fate[id]]
    /\ cancelledBelow' = submitted
    /\ UNCHANGED <<latestAccepted, now, batch, world, accepted, sampled, polledAt>>

\* Time goes on, up to the last deadline there is.
TimePasses ==
    /\ clock < 2 * submitted
    /\ clock' = clock + 1
    /\ UNCHANGED <<tables, position, adaptive, submitted, log>>

Batches == UNION {[1 .. n -> Result] : n \in 0 .. MaxBatch}

Next ==
    \/ BeginTick
    \/ \E results \in Batches : Poll(results)
    \/ Collect
    \/ \E id \in requests : Expire(id)
    \/ EndPoll \/ Skip
    \/ \E replaced \in {{}} \cup {{id} : id \in 0 .. submitted - 1} : Submit(replaced)
    \/ CancelEpisode
    \/ TimePasses

Spec == Init /\ [][Next]_vars

----------------------------------------------------------------------------
(***************************************************************************)
(* Types; the history stays bounded, and an adaptive worker has at most    *)
(* one live logical request (worker_async.py:62-67, 102-110).              *)
(***************************************************************************)
TypeOK ==
    /\ adaptive \in Modes
    /\ requests \in SUBSET RequestId
    /\ adaptive => Cardinality(requests) <= 1
    /\ retired \in Seq([id : RequestId, reason : Reasons])
    /\ Len(retired) <= HistorySize
    /\ latestAccepted \in RequestId \cup {-1}
    /\ now \in Nat /\ clock \in Nat /\ submitted \in 0 .. MaxRequests
    /\ stage \in {"out", "ticking", "polling", "polled"}
    /\ batch \in Seq(Result)
    /\ fate \in [RequestId -> Seq(Reasons)]
    /\ accepted \in Seq(RequestId) /\ sampled \in Seq(RequestId)
    /\ cancelledBelow \in 0 .. MaxRequests /\ polledAt \in Nat

(***************************************************************************)
(* A request is live until it is retired, once; only a timed-out request   *)
(* is retired again, once, when its outcome comes late.  So it times out   *)
(* at most once, and an answered, replaced or cancelled one never does     *)
(* (worker_async.py:127-136, 170-172, 189).                                *)
(***************************************************************************)
Lifecycle ==
    \A id \in RequestId :
        /\ Len(fate[id]) <= 2
        /\ Len(fate[id]) = 2 =>
               /\ fate[id][1] = "request_timeout"
               /\ fate[id][2] \in {"late_completion", "failed", "invalid_timestamp",
                                   "identity_mismatch"}
        /\ id \in requests => fate[id] = <<>>
        /\ id < submitted /\ id \notin requests => fate[id] # <<>>

(***************************************************************************)
(* The chunks given to the ActionBuffer come from ever newer observations, *)
(* each from a request that completed and nothing else                     *)
(* (worker_async.py:196-216).                                              *)
(***************************************************************************)
AcceptedInOrder ==
    /\ \A i, j \in DOMAIN accepted : i < j => accepted[i] < accepted[j]
    /\ \A i \in DOMAIN accepted : fate[accepted[i]] = <<"completed">>

(***************************************************************************)
(* A chunk is accepted only if its deadline had not passed when the        *)
(* backend's poll() returned it, however long that poll took               *)
(* (worker_async.py:120-122, 170; docs/WORKER_ADAPTIVE.md:41-43).          *)
(***************************************************************************)
AcceptedOnTime ==
    [][\A i \in DOMAIN accepted' \ DOMAIN accepted :
           polledAt <= DeadlineOf(accepted'[i])]_vars

(***************************************************************************)
(* A request enters the latency estimate at most once, late or not, even   *)
(* if its result is delivered again (docs/WORKER_ADAPTIVE.md:50).          *)
(***************************************************************************)
SampledOnce == \A i, j \in DOMAIN sampled : sampled[i] = sampled[j] => i = j

(***************************************************************************)
(* Results of a cancelled episode are neither executed nor measured, also  *)
(* those of requests that had timed out (worker_async.py:249-252).         *)
(***************************************************************************)
CancelledStaysSilent ==
    [][/\ \A i \in DOMAIN accepted' \ DOMAIN accepted : accepted'[i] >= cancelledBelow
       /\ \A i \in DOMAIN sampled' \ DOMAIN sampled : sampled'[i] >= cancelledBelow]_vars
============================================================================
