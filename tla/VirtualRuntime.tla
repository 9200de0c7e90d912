--------------------------- MODULE VirtualRuntime ---------------------------
(***************************************************************************)
(* run_runtime (src/robovla_runtime/runtime.py): an episode in virtual     *)
(* time.  Each tick the scheduler collects the pending prediction if it is *)
(* ready, perhaps asks for the next one, and the executor takes an action  *)
(* from the ActionBuffer.  There are three schedulers: sync asks when the  *)
(* buffer is empty, fixed_async when its coverage falls to a threshold,    *)
(* adaptive_async to one it estimates from the latencies it measures.      *)
(*                                                                         *)
(* The backend is MockBackend, with any latency for each request.  Time is *)
(* an integer; thresholds and estimates, which the interpolation of the    *)
(* quantile may leave between two integers, are kept QuantileDen times as  *)
(* large.                                                                  *)
(***************************************************************************)
EXTENDS Integers, Sequences, FiniteSets

CONSTANTS
    Episode,           \* the episode id
    Schedulers,        \* config.scheduler, of "sync", "fixed_async", "adaptive_async"
    Period,            \* period_s
    ChunkSize,         \* chunk_size
    ExecuteHorizon,    \* execute_horizon
    Latencies,         \* latencies a request may have
    Thresholds,        \* prefetch_threshold_s, of these
    WindowSize,        \* adaptive window_size
    QuantileNum, QuantileDen,  \* adaptive quantile
    Margin,            \* adaptive margin_s
    Hysteresis,        \* adaptive hysteresis_s
    MinIntervals,      \* adaptive min_request_interval_s, of these
    TickCount          \* ticks of the episode

ASSUME VirtualAssumption ==
    /\ Schedulers \subseteq {"sync", "fixed_async", "adaptive_async"}
    /\ Period \in Nat \ {0} /\ ChunkSize \in Nat /\ ExecuteHorizon \in 1 .. ChunkSize
    /\ Latencies \subseteq Nat /\ Thresholds \subseteq Nat
    /\ WindowSize \in Nat \ {0}
    /\ QuantileDen \in Nat \ {0} /\ QuantileNum \in 1 .. QuantileDen
    /\ Margin \in Nat /\ Hysteresis \in Nat /\ MinIntervals \subseteq Nat \ {0}
    /\ TickCount \in Nat

VARIABLES
    episodeId, episodeGeneration, chunk, seenRequests, consumed,
    now,              \* the VirtualClock
    sent, executed    \* of the ActionBuffer

VARIABLES
    config,           \* the RuntimeConfig of this episode
    phase,            \* where the loop stands in a tick
    pending,          \* the scheduler's pending prediction
    lastRequestedAt,  \* _last_requested_at, -1 for None
    samples,          \* the controller's latencies, oldest first
    threshold,        \* threshold_s
    limited           \* _supply_limited

VARIABLES   \* what the event log shows; no step reads these
    latencies,        \* the latency of each request, in order
    measured,         \* every latency the controller measured
    acceptedAt,       \* when a chunk was accepted
    fallbackAt        \* when a fallback was executed

buffer     == <<episodeId, episodeGeneration, chunk, seenRequests, consumed, sent, executed>>
controller == <<samples, threshold, limited>>
log        == <<latencies, measured, acceptedAt, fallbackAt>>
vars       == <<buffer, now, config, phase, pending, lastRequestedAt, controller, log>>

Buffer == INSTANCE ActionBuffer
              WITH Episodes <- {Episode}, MaxActionsPerChunk <- ExecuteHorizon,
                   ChunkLengths <- {ChunkSize}, MaxRequests <- TickCount + 1,
                   MaxTime <- TickCount * Period, MaxTicks <- TickCount, MaxResets <- 1

Configs == [scheduler : Schedulers, prefetchThreshold : Thresholds,
            minRequestInterval : MinIntervals]

Budget    == ExecuteHorizon * Period        \* coverage_budget_s
Scaled(t) == t * QuantileDen
Least(s, t) == IF s <= t THEN s ELSE t
Most(s, t)  == IF s <= t THEN t ELSE s

Init ==
    /\ episodeId = Episode /\ episodeGeneration = 1
    /\ chunk = {} /\ seenRequests = {} /\ consumed = {}
    /\ now = 0 /\ sent = {} /\ executed = <<>>
    /\ config \in Configs
    /\ phase = IF TickCount > 0 THEN "poll" ELSE "finished"
    /\ pending = {} /\ lastRequestedAt = -1
    /\ samples = <<>> /\ limited = FALSE
    /\ threshold = Scaled(Least(config.prefetchThreshold, Budget))
    /\ latencies = <<>> /\ measured = <<>> /\ acceptedAt = <<>> /\ fallbackAt = {}

(***************************************************************************)
(* Definitions named Faulty... are not part of the model: each is a slip   *)
(* the code could have made, to be put in the place of the definition      *)
(* after it to see that a property notices.                                *)
(***************************************************************************)
FaultyWindow(values) == values               \* nothing is forgotten
Window(values) == IF Len(values) <= WindowSize THEN values ELSE Tail(values)

Candidate(estimate) == Least(estimate + Scaled(Margin), Scaled(Budget))

FaultyShortfall(estimate) == 2 * estimate - Scaled(Budget) \* no minimum interval
Shortfall(estimate) ==
    estimate + Most(estimate, Scaled(config.minRequestInterval)) - Scaled(Budget)

----------------------------------------------------------------------------
(***************************************************************************)
(* The estimator: the linear interpolation between the two ranks next to   *)
(* the quantile, here from ranks 1 .. Len instead of positions from 0.     *)
(***************************************************************************)
AtRank(values, k) ==
    CHOOSE v \in {values[i] : i \in DOMAIN values} :
        /\ Cardinality({i \in DOMAIN values : values[i] < v}) < k
        /\ Cardinality({i \in DOMAIN values : values[i] <= v}) >= k

Between(s, t, rest) == Scaled(s) + (t - s) * rest

Estimate(values) ==
    LET position == (Len(values) - 1) * QuantileNum
        lower    == position \div QuantileDen + 1
        rest     == position % QuantileDen
        upper    == IF rest = 0 THEN lower ELSE lower + 1
    IN Between(AtRank(values, lower), AtRank(values, upper), rest)

\* observe_completion: the first estimate is always adopted, a later one if it
\* leaves the deadband.
Observe(latency) ==
    LET values    == Window(Append(samples, latency))
        candidate == Candidate(Estimate(values))
        distance  == Most(candidate - threshold, threshold - candidate)
    IN /\ samples' = values
       /\ threshold' = IF samples = <<>> \/ distance > Scaled(Hysteresis)
                       THEN candidate ELSE threshold
       /\ limited' = (Shortfall(Estimate(values)) > 0)
       /\ measured' = Append(measured, latency)

Ready == \E p \in pending : now >= p.readyAt

AfterPolling == IF phase = "poll" THEN "decide" ELSE "execute"

\* _poll and, for the adaptive scheduler, _collect: the chunk is accepted, or is
\* wholly expired, and its latency measured in either case.
Collect ==
    /\ phase \in {"poll", "repoll"} /\ Ready
    /\ phase' = AfterPolling
    /\ pending' = {}
    /\ \E p \in pending :
           /\ Buffer!Accept(p.chunk)
           /\ IF config.scheduler = "adaptive_async"
              THEN Observe(now - p.requestedAt)
              ELSE UNCHANGED <<controller, measured>>
           /\ acceptedAt' = IF Buffer!Accepted(p.chunk) THEN Append(acceptedAt, now)
                            ELSE acceptedAt
    /\ UNCHANGED <<config, lastRequestedAt, latencies, fallbackAt>>

NotReady ==
    /\ phase \in {"poll", "repoll"} /\ ~Ready
    /\ phase' = AfterPolling
    /\ UNCHANGED <<buffer, now, config, pending, lastRequestedAt, controller, log>>

FaultyBelow(coverage, limit) == coverage < limit
Below(coverage, limit) == coverage <= limit

\* sync: is_empty; adaptive: at most one request in each minimum interval.
WantsRequest ==
    /\ pending = {}
    /\ CASE config.scheduler = "sync" -> Buffer!Coverage(now) = 0
         [] config.scheduler = "fixed_async" ->
                Below(Buffer!Coverage(now), config.prefetchThreshold)
         [] config.scheduler = "adaptive_async" ->
                /\ \/ lastRequestedAt = -1
                   \/ now - lastRequestedAt >= config.minRequestInterval
                /\ Below(Scaled(Buffer!Coverage(now)), threshold)

\* MockBackend.request: the chunk begins at the observation, not when it is ready.
Predicted(latency) ==
    /\ Buffer!Predict(now, ChunkSize, "none")
    /\ pending' = {[requestedAt |-> now, readyAt |-> now + latency, chunk |-> c] :
                      c \in sent' \ sent}

\* _request, with an observation captured now.
Request(latency) ==
    /\ phase = "decide" /\ WantsRequest
    /\ phase' = "repoll"
    /\ Predicted(latency)
    /\ lastRequestedAt' = now
    /\ latencies' = Append(latencies, latency)
    /\ UNCHANGED <<config, controller, measured, acceptedAt, fallbackAt>>

NoRequest ==
    /\ phase = "decide" /\ ~WantsRequest
    /\ phase' = "execute"
    /\ UNCHANGED <<buffer, now, config, pending, lastRequestedAt, controller, log>>

\* Executor.tick
Execute ==
    /\ phase = "execute" /\ phase' = "advance"
    /\ \/ (\E c \in chunk : Buffer!Execute(c)) /\ UNCHANGED fallbackAt
       \/ Buffer!Fallback /\ fallbackAt' = fallbackAt \cup {now}
    /\ UNCHANGED <<config, pending, lastRequestedAt, controller,
                   latencies, measured, acceptedAt>>

\* clock.advance_by, and the loop's next tick if there is one.
Advance ==
    /\ phase = "advance"
    /\ now' = now + Period
    /\ phase' = IF now' < TickCount * Period THEN "poll" ELSE "finished"
    /\ UNCHANGED <<buffer, config, pending, lastRequestedAt, controller, log>>

Next ==
    \/ Collect \/ NotReady
    \/ \E latency \in Latencies : Request(latency)
    \/ NoRequest \/ Execute \/ Advance

Spec == Init /\ [][Next]_vars

----------------------------------------------------------------------------
(***************************************************************************)
(* Types; one prediction in flight, samples that fit the window, and a     *)
(* threshold that never exceeds what a chunk can cover.                    *)
(***************************************************************************)
VirtualTypeOK ==
    /\ now \in 0 .. TickCount * Period
    /\ config.scheduler \in Schedulers
    /\ phase \in {"poll", "decide", "repoll", "execute", "advance", "finished"}
    /\ \A p, q \in pending : p = q /\ p.chunk \in sent
    /\ lastRequestedAt \in -1 .. now
    /\ samples \in Seq(Nat) /\ Len(samples) <= WindowSize
    /\ threshold \in 0 .. Scaled(Budget) /\ limited \in BOOLEAN

(***************************************************************************)
(* The robot never idles with nobody asked: when the executor finds no     *)
(* action, a prediction is on its way, or the adaptive scheduler's minimum *)
(* interval has not passed yet (adaptive.py:156-163, sync.py:20-23).       *)
(***************************************************************************)
IdleOnlyWhenAsked ==
    phase = "execute" /\ ~(\E c \in chunk : Buffer!Poppable(c)) =>
        \/ pending # {}
        \/ /\ config.scheduler = "adaptive_async"
           /\ now - lastRequestedAt < config.minRequestInterval

(***************************************************************************)
(* docs/ADAPTIVE_PREFETCH.md, the supply criterion: under a latency that   *)
(* stays the same, L + max(L, min_request_interval) <= E * dt says exactly *)
(* whether each chunk takes over from the last without a fallback, and     *)
(* _supply_limited knows it from the first completion on.                  *)
(***************************************************************************)
Steady == \A i, j \in DOMAIN latencies : latencies[i] = latencies[j]

GapAfter(i) ==
    \E t \in fallbackAt : acceptedAt[i] <= t /\ t < acceptedAt[i + 1]

SupplyCriterion ==
    config.scheduler = "adaptive_async" /\ Steady =>
        \A i \in 1 .. Len(acceptedAt) - 1 : GapAfter(i) <=> limited

(***************************************************************************)
(* A spike is forgotten once WindowSize later predictions were measured,   *)
(* and until a prediction was measured the threshold is the configured     *)
(* one: it stays within the deadband of what the last WindowSize measured  *)
(* latencies call for (adaptive.py:76-92).                                 *)
(***************************************************************************)
Recent ==
    {measured[i] : i \in {k \in DOMAIN measured : k > Len(measured) - WindowSize}}

CalledFor(latency) == Scaled(Least(latency + Margin, Budget))

ThresholdTracks ==
    IF measured = <<>>
    THEN threshold = Scaled(Least(config.prefetchThreshold, Budget))
    ELSE /\ \E l \in Recent : threshold <= CalledFor(l) + Scaled(Hysteresis)
         /\ \E l \in Recent : threshold >= CalledFor(l) - Scaled(Hysteresis)
============================================================================
