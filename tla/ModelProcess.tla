---------------------------- MODULE ModelProcess ----------------------------
(***************************************************************************)
(* One model process from its start to its end: the child that builds,     *)
(* warms up and calls a FluxVLA model (_child_main in backends/process.py, *)
(* integrations/fluxvla_process.py, backends/fluxvla.py), the transport    *)
(* thread between it and the supervisor, and what the supervisor does with *)
(* this channel.  ProcessBackend sees all of it as ready, answer, failure  *)
(* and crash.                                                              *)
(*                                                                         *)
(* The model and the dataset keep history of their own: here, the keys     *)
(* (episode and generation) of what they were called for since they were   *)
(* last cleared.  Only the shape of an observation matters.                *)
(***************************************************************************)
EXTENDS Integers, Sequences

CONSTANTS
    Episodes,     \* episode ids of requests
    Generations,  \* generations of observations
    Shapes,       \* what ObservationSpec tells apart
    MaxWarmups,   \* bound: warmup_steps
    MaxRequests   \* bound: requests sent to the process

ASSUME ModelAssumption ==
    MaxWarmups \in Nat /\ MaxRequests \in Nat /\ Generations \subseteq Nat

VARIABLES   \* the supervisor and the queues to its transport thread
    parent,      \* starting, idle, executing, stopping or stopped
    current,     \* the request that executes
    dispatched,  \* requests sent so far
    progress,    \* start-up stages it was told of
    incoming,    \* _incoming
    outgoing     \* _outgoing

VARIABLES   \* the transport thread and the two directions of the pipe
    transport, toChild, toParent

VARIABLES   \* the child
    recipe,      \* the arguments of FluxVLAProcessFactory
    child,       \* where it stands in _child_main and startup
    warmed,      \* warm-up calls made
    spec,        \* observation_spec, once known
    request,     \* the request it works on
    episodeKey,  \* episode_key: the key it was last reset for
    lastKey      \* the preprocessor's last episode id and generation

VARIABLES   \* inside the model and the dataset; and what the model was shown
    modelHistory, datasetHistory, shown

supervisor == <<parent, current, dispatched, progress>>
pipe       == <<toChild, toParent>>
state      == <<spec, lastKey, modelHistory, datasetHistory, shown>>
process    == <<recipe, child, warmed, request, episodeKey, state>>
vars       == <<supervisor, incoming, outgoing, transport, pipe, process>>

WarmupKey == [episode |-> "__fluxvla_warmup__", generation |-> 0]
Key       == [episode : Episodes, generation : Generations]
Recipes   == [hasReset : BOOLEAN, stateless : BOOLEAN, steps : 0 .. MaxWarmups,
              spec : {{}} \cup {{s} : s \in Shapes}]

Stages == <<"model_loaded", "warmup_started", "warmup_completed", "warmup_state_reset">>
Stage(s) == [kind |-> "startup_progress", stage |-> s]
Answer(r) == [kind |-> "result", id |-> r.id, key |-> r.key]
Failure == [kind |-> "failure"]
Stop == [kind |-> "stop"]     \* the None in _outgoing

Init ==
    /\ parent = "starting" /\ current = {} /\ dispatched = 0 /\ progress = <<>>
    /\ incoming = <<>> /\ outgoing = <<>>
    /\ transport = "forwarding" /\ toChild = <<>> /\ toParent = <<>>
    /\ recipe \in Recipes
    /\ child = "loading" /\ warmed = 0 /\ spec = recipe.spec
    /\ request = {} /\ episodeKey = {} /\ lastKey = {}
    /\ modelHistory = {} /\ datasetHistory = {} /\ shown = {}

(***************************************************************************)
(* Definitions named Faulty... are not part of the model: each is a slip   *)
(* the code could have made, to be put in the place of the definition      *)
(* after it to see that a property notices.                                *)
(***************************************************************************)
FaultyAfterForwarding(m) == "waiting"            \* one message, then requests
AfterForwarding(m) == IF m.kind = "startup_progress" THEN "forwarding" ELSE "waiting"

FaultySpecAfter(shape) == recipe.spec            \* checked, not remembered
SpecAfter(shape) == {shape}

FaultySameEpisode(key) == \E k \in episodeKey : k.episode = key.episode
SameEpisode(key) == episodeKey = {key}           \* generation and all

FaultyAtStop == <<>>                             \* the None is forgotten
AtStop == <<Stop>>

FaultyAfterWarmup == "announcing"                \* ready before it is reset
AfterWarmup == "clearing"

----------------------------------------------------------------------------
(***************************************************************************)
(* FluxVLABackend and its LIBERO preprocessor.                             *)
(***************************************************************************)
Send(m) == toParent' = Append(toParent, m)

\* reset(): the preprocessor forgets its last episode; the model, if it can.
ResetBackend ==
    /\ lastKey' = {}
    /\ modelHistory' = IF recipe.hasReset THEN {} ELSE modelHistory
    /\ UNCHANGED <<spec, datasetHistory, shown>>

Valid(shape) == spec \subseteq {shape}

\* The preprocessor tells the dataset when an episode is new; then the
\* dataset starts anew.
Preprocess(key) ==
    /\ datasetHistory' = IF lastKey = {key} THEN datasetHistory \cup {key} ELSE {key}
    /\ lastKey' = {key}

\* request(): validate, preprocess and call the model, which remembers.
CallModel(key, shape) ==
    /\ Valid(shape)
    /\ spec' = SpecAfter(shape)
    /\ Preprocess(key)
    /\ modelHistory' = modelHistory \cup {key}
    /\ shown' = shown \cup {shape}

----------------------------------------------------------------------------
(***************************************************************************)
(* The child: start-up, then one request after the other.                  *)
(***************************************************************************)
Outside == <<supervisor, incoming, outgoing, transport, recipe>>
Start(from, to) == child = from /\ child' = to /\ UNCHANGED <<Outside, toChild, request, episodeKey>>

\* A model with history must have a reset hook, or the recipe says it has none.
ChildLoads ==
    /\ Start("loading", "loaded")
    /\ recipe.hasReset \/ recipe.stateless
    /\ Send(Stage("model_loaded"))
    /\ UNCHANGED <<warmed, state>>

ChildBeginsWarmup ==
    /\ Start("loaded", "warming")
    /\ Send(Stage("warmup_started"))
    /\ ResetBackend
    /\ UNCHANGED warmed

ChildWarmsUp(shape) ==
    /\ Start("warming", "warming")
    /\ warmed < recipe.steps /\ warmed' = warmed + 1
    /\ CallModel(WarmupKey, shape)
    /\ UNCHANGED toParent

ChildEndsWarmup ==
    /\ Start("warming", AfterWarmup)
    /\ warmed = recipe.steps
    /\ Send(Stage("warmup_completed"))
    /\ UNCHANGED <<warmed, state>>

ChildClears ==
    /\ Start("clearing", "announcing")
    /\ ResetBackend
    /\ Send(Stage("warmup_state_reset"))
    /\ UNCHANGED warmed

ChildAnnounces ==
    /\ Start("announcing", "serving")
    /\ Send([kind |-> "ready"])
    /\ UNCHANGED <<warmed, state>>

ChildReceives ==
    /\ child = "serving" /\ toChild # <<>>
    /\ toChild' = Tail(toChild)
    /\ request' = {Head(toChild)}
    /\ child' = IF SameEpisode(Head(toChild).key) THEN "predicting" ELSE "switching"
    /\ UNCHANGED <<Outside, toParent, warmed, episodeKey, state>>

ChildResets ==
    /\ child = "switching" /\ child' = "predicting"
    /\ ResetBackend
    /\ episodeKey' = {r.key : r \in request}
    /\ UNCHANGED <<Outside, pipe, warmed, request>>

ChildPredicts ==
    /\ child = "predicting" /\ child' = "serving"
    /\ \E r \in request : CallModel(r.key, r.shape) /\ Send(Answer(r))
    /\ request' = {}
    /\ UNCHANGED <<Outside, toChild, warmed, episodeKey>>

\* Any call into the recipe, the backend or the model may raise, and does so
\* for an observation of another shape: the child reports it and ends.
ChildRaises ==
    /\ child \in {"loading", "warming", "clearing", "switching", "predicting"}
    /\ child' = "ended"
    /\ Send(Failure)
    /\ UNCHANGED <<Outside, toChild, warmed, request, episodeKey, state>>

ChildCrashes ==
    /\ child # "ended" /\ child' = "ended"
    /\ UNCHANGED <<Outside, pipe, warmed, request, episodeKey, state>>

ChildRuns ==
    \/ ChildLoads \/ ChildBeginsWarmup \/ \E shape \in Shapes : ChildWarmsUp(shape)
    \/ ChildEndsWarmup \/ ChildClears \/ ChildAnnounces
    \/ ChildReceives \/ ChildResets \/ ChildPredicts \/ ChildRaises

----------------------------------------------------------------------------
(***************************************************************************)
(* The transport thread: start-up messages up to the first other one, then *)
(* one request out and one message back in turn.                           *)
(***************************************************************************)
TransportForwards ==
    /\ transport \in {"forwarding", "relaying"} /\ toParent # <<>>
    /\ incoming' = Append(incoming, Head(toParent))
    /\ toParent' = Tail(toParent)
    /\ transport' = IF transport = "relaying" THEN "waiting"
                                              ELSE AfterForwarding(Head(toParent))
    /\ UNCHANGED <<supervisor, outgoing, toChild, process>>

TransportSends ==
    /\ transport = "waiting" /\ outgoing # <<>>
    /\ Head(outgoing) # Stop /\ child # "ended"
    /\ transport' = "relaying"
    /\ toChild' = Append(toChild, Head(outgoing))
    /\ outgoing' = Tail(outgoing)
    /\ UNCHANGED <<supervisor, incoming, toParent, process>>

TransportStops ==
    /\ transport = "waiting" /\ outgoing # <<>> /\ Head(outgoing) = Stop
    /\ transport' = "ended"
    /\ outgoing' = Tail(outgoing)
    /\ UNCHANGED <<supervisor, incoming, pipe, process>>

\* The end of the pipe when it wants to read, a broken one when it writes.
TransportBreaks ==
    /\ child = "ended"
    /\ \/ transport \in {"forwarding", "relaying"} /\ toParent = <<>>
       \/ transport = "waiting" /\ outgoing # <<>> /\ Head(outgoing) # Stop
    /\ transport' = "ended"
    /\ incoming' = Append(incoming, [kind |-> "transport_error"])
    /\ UNCHANGED <<supervisor, outgoing, pipe, process>>

Transport == TransportForwards \/ TransportSends \/ TransportStops \/ TransportBreaks

----------------------------------------------------------------------------
(***************************************************************************)
(* The supervisor, as far as it uses the channel.                          *)
(***************************************************************************)
Rest == <<transport, pipe, process>>
Hears(place, kinds) ==
    /\ parent = place /\ incoming # <<>> /\ Head(incoming).kind \in kinds
    /\ incoming' = Tail(incoming)
    /\ UNCHANGED <<dispatched, outgoing, Rest>>

ParentProgress ==
    /\ Hears("starting", {"startup_progress"})
    /\ progress' = Append(progress, Head(incoming).stage)
    /\ UNCHANGED <<parent, current>>

ParentReady ==
    /\ Hears("starting", {"ready"})
    /\ parent' = "idle"
    /\ UNCHANGED <<current, progress>>

ParentDispatches(key, shape) ==
    /\ parent = "idle" /\ dispatched < MaxRequests
    /\ parent' = "executing"
    /\ current' = {[id |-> dispatched, key |-> key, shape |-> shape]}
    /\ outgoing' = outgoing \o <<[kind |-> "request", id |-> dispatched, key |-> key,
                                  shape |-> shape]>>
    /\ dispatched' = dispatched + 1
    /\ UNCHANGED <<progress, incoming, Rest>>

Answers(m) == \E r \in current : m = Answer(r)

ParentAnswered ==
    /\ Hears("executing", {"result"})
    /\ Answers(Head(incoming))
    /\ parent' = "idle" /\ current' = {}
    /\ UNCHANGED progress

\* What it heard is a fault, or the answer to something else; or the child is
\* gone without a word.
ParentFault ==
    /\ \/ /\ Hears("starting", {"result", "failure", "transport_error"})
       \/ /\ Hears("executing", {"ready", "startup_progress", "failure", "transport_error", "result"})
          /\ ~Answers(Head(incoming))
       \/ /\ parent \in {"starting", "executing"} /\ incoming = <<>> /\ child = "ended"
          /\ UNCHANGED <<dispatched, incoming, outgoing, Rest>>
    /\ parent' = "stopping"
    /\ UNCHANGED <<current, progress>>

\* A watchdog, an abort, a reset or a close.
ParentGivesUp ==
    /\ parent \in {"starting", "idle", "executing"}
    /\ parent' = "stopping"
    /\ UNCHANGED <<current, dispatched, progress, incoming, outgoing, Rest>>

\* _stop, where the process can be killed.
ParentStops ==
    /\ parent = "stopping" /\ parent' = "stopped"
    /\ child' = "ended"
    /\ outgoing' = outgoing \o AtStop
    /\ UNCHANGED <<current, dispatched, progress, incoming, transport, pipe,
                   recipe, warmed, request, episodeKey, state>>

Parent == ParentProgress \/ ParentReady \/ ParentAnswered \/ ParentFault \/ ParentStops

Next ==
    \/ Parent \/ ParentGivesUp \/ \E key \in Key, shape \in Shapes : ParentDispatches(key, shape)
    \/ Transport
    \/ ChildRuns \/ ChildCrashes

\* The threads run, and so does the child: its calls return or raise.
Fairness == WF_vars(Parent) /\ WF_vars(Transport) /\ WF_vars(ChildRuns)

Spec == Init /\ [][Next]_vars
FairSpec == Spec /\ Fairness

----------------------------------------------------------------------------
TypeOK ==
    /\ parent \in {"starting", "idle", "executing", "stopping", "stopped"}
    /\ transport \in {"forwarding", "waiting", "relaying", "ended"}
    /\ child \in {"loading", "loaded", "warming", "clearing", "announcing", "serving",
                  "switching", "predicting", "ended"}
    /\ dispatched \in 0 .. MaxRequests /\ warmed \in 0 .. MaxWarmups
    /\ recipe \in Recipes /\ spec \in SUBSET Shapes /\ shown \in SUBSET Shapes
    /\ episodeKey \in SUBSET Key
    /\ lastKey \cup modelHistory \cup datasetHistory \subseteq Key \cup {WarmupKey}

(***************************************************************************)
(* The supervisor hands out no request before the model was loaded, warmed *)
(* up and reset, and it hears of these stages in their order; after that   *)
(* what it hears while it waits is the answer to its own request or a      *)
(* failure, never something left over from the start-up or an earlier      *)
(* request (process.py:56-60, 92-107, 341-343; fluxvla_process.py:131-152).*)
(***************************************************************************)
HandshakeInOrder ==
    /\ progress = SubSeq(Stages, 1, Len(progress))
    /\ parent \in {"idle", "executing"} => progress = Stages
    /\ parent = "executing" =>
           \A i \in DOMAIN incoming :
               Answers(incoming[i]) \/ incoming[i].kind \in {"failure", "transport_error"}

(***************************************************************************)
(* Neither the warm-up nor another episode or generation leaves a trace in *)
(* a prediction: from the announcement on the model remembers only the     *)
(* present key, unless it was declared stateless, and so does the dataset, *)
(* which was told when to start anew (process.py:66-71; fluxvla.py:152-175,*)
(* 223-235).                                                               *)
(***************************************************************************)
OwnHistory ==
    child \in {"announcing", "serving"} =>
        /\ modelHistory \subseteq episodeKey \/ (recipe.stateless /\ ~recipe.hasReset)
        /\ IF episodeKey = {} THEN lastKey = {} ELSE datasetHistory = episodeKey

(***************************************************************************)
(* In a process's life the model only sees observations of one shape, the  *)
(* declared one or, without a declaration, that of the first input, warm-  *)
(* up included (fluxvla_process.py:123-129, 139, 160).                     *)
(***************************************************************************)
OneShape ==
    /\ \A s, t \in shown : s = t
    /\ recipe.spec # {} => shown \subseteq recipe.spec

(***************************************************************************)
(* As long as calls return, nobody waits for the watchdog: start-up and    *)
(* every request end in an answer or a fault, also when the child dies     *)
(* (process.py:79-87, 289-308).                                            *)
(***************************************************************************)
EveryCallReturns ==
    /\ parent = "starting" ~> parent # "starting"
    /\ parent = "executing" ~> parent # "executing"

(***************************************************************************)
(* Stopping a process always ends its transport thread, wherever it was    *)
(* (process.py:97-107, 364-375).                                           *)
(***************************************************************************)
TransportEnds == parent = "stopped" ~> transport = "ended"
============================================================================
