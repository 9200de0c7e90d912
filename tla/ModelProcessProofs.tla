------------------------ MODULE ModelProcessProofs ------------------------
(***************************************************************************)
(* What ModelProcess guarantees for every set of episodes and shapes and   *)
(* every number of warm-ups and requests.  Three independent invariants:   *)
(* what the model is shown, what it and the dataset remember, and what is  *)
(* under way between the child and the supervisor.                         *)
(***************************************************************************)
EXTENDS ModelProcess, TLAPS

(***************************************************************************)
(* The specification in force allows one shape and allowed all before.     *)
(***************************************************************************)
ShapeInv ==
    /\ shown \subseteq spec
    /\ \A s, t \in spec : s = t
    /\ recipe.spec # {} => spec = recipe.spec

(***************************************************************************)
(* What the model and the dataset remember, step by step of the child: it  *)
(* is cleared before the first request and with every new key, and the     *)
(* preprocessor starts the dataset anew exactly when it has forgotten its  *)
(* last key.                                                               *)
(***************************************************************************)
Forgets == ~(recipe.stateless /\ ~recipe.hasReset)

Remembers(K) ==
    /\ Forgets => modelHistory \subseteq K
    /\ lastKey = {} \/ (lastKey = K /\ datasetHistory = K)

HistoryInv ==
    /\ child \notin {"loading", "ended"} => recipe.hasReset \/ recipe.stateless
    /\ child \in {"loading", "loaded", "warming", "clearing", "announcing"} =>
           episodeKey = {} /\ request = {}
    /\ child = "announcing" => lastKey = {} /\ (Forgets => modelHistory = {})
    /\ child = "serving" =>
           /\ request = {}
           /\ Remembers(episodeKey)
           /\ episodeKey = {} => lastKey = {}
           /\ episodeKey # {} => datasetHistory = episodeKey
    /\ child \in {"switching", "predicting"} => \E r \in request : request = {r}
    /\ child = "predicting" =>
           /\ episodeKey = {r.key : r \in request}
           /\ Remembers(episodeKey)

----------------------------------------------------------------------------
(***************************************************************************)
(* Only the child's own steps touch its state.                             *)
(***************************************************************************)
Elsewhere == Parent \/ ParentGivesUp \/ Transport
             \/ \E key \in Key, shape \in Shapes : ParentDispatches(key, shape)

LEMMA ElsewhereFrame ==
    Elsewhere => /\ UNCHANGED <<recipe, warmed, request, episodeKey, state>>
                 /\ child' = child \/ child' = "ended"
  BY DEF Elsewhere, Parent, ParentProgress, ParentReady, ParentAnswered, ParentFault,
         ParentStops, ParentGivesUp, ParentDispatches, Hears, Rest, Transport,
         TransportForwards, TransportSends, TransportStops, TransportBreaks, process

LEMMA NextCases ==
    [Next]_vars => Elsewhere \/ ChildRuns \/ ChildCrashes \/ UNCHANGED vars
  BY DEF Next, Elsewhere

----------------------------------------------------------------------------
(***************************************************************************)
(* Shapes.                                                                 *)
(***************************************************************************)
LEMMA ShapeInit == Init => ShapeInv
  BY DEF Init, ShapeInv, Recipes

LEMMA CallKeepsShape ==
    ASSUME ShapeInv, NEW key, NEW shape, CallModel(key, shape), recipe' = recipe
    PROVE  ShapeInv'
  BY DEF CallModel, Valid, SpecAfter, ShapeInv

LEMMA ShapeStep == ShapeInv /\ [Next]_vars => ShapeInv'
<1> SUFFICES ASSUME ShapeInv, [Next]_vars PROVE ShapeInv'
  OBVIOUS
<1>a. ASSUME UNCHANGED <<recipe, spec, shown>> PROVE ShapeInv'
  BY <1>a DEF ShapeInv
<1>1. CASE Elsewhere \/ ChildCrashes \/ UNCHANGED vars
  BY <1>1, <1>a, ElsewhereFrame DEF ChildCrashes, Outside, state, vars, process
<1>2. CASE ChildLoads \/ ChildBeginsWarmup \/ ChildEndsWarmup \/ ChildClears
           \/ ChildAnnounces \/ ChildReceives \/ ChildResets \/ ChildRaises
  BY <1>2, <1>a DEF ChildLoads, ChildBeginsWarmup, ChildEndsWarmup, ChildClears,
       ChildAnnounces, ChildReceives, ChildResets, ChildRaises, ResetBackend, Start,
       Outside, state
<1>3. ASSUME NEW shape \in Shapes, ChildWarmsUp(shape) PROVE ShapeInv'
  BY <1>3, CallKeepsShape DEF ChildWarmsUp, Start, Outside
<1>4. CASE ChildPredicts
  BY <1>4, CallKeepsShape DEF ChildPredicts, Outside
<1> QED
  BY <1>1, <1>2, <1>3, <1>4, NextCases DEF ChildRuns

(***************************************************************************)
(* In a process's life the model sees observations of one shape only, the  *)
(* declared one if there is one (fluxvla_process.py:123-129, 139, 160).    *)
(***************************************************************************)
THEOREM ModelSeesOneShape == Spec => []OneShape
<1>1. Spec => []ShapeInv
  BY ShapeInit, ShapeStep, PTL DEF Spec
<1>2. ShapeInv => OneShape
  BY DEF ShapeInv, OneShape
<1> QED
  BY <1>1, <1>2, PTL

----------------------------------------------------------------------------
(***************************************************************************)
(* Histories.                                                              *)
(***************************************************************************)
LEMMA HistoryInit == Init => HistoryInv
  BY DEF Init, HistoryInv

LEMMA HistoryStep == HistoryInv /\ [Next]_vars => HistoryInv'
<1> SUFFICES ASSUME HistoryInv, [Next]_vars PROVE HistoryInv'
  OBVIOUS
<1> USE DEF Outside, state, Remembers, Forgets
<1>a. ASSUME UNCHANGED <<recipe, request, episodeKey, lastKey, modelHistory, datasetHistory>>,
             child' = child \/ child' = "ended"
      PROVE  HistoryInv'
  BY <1>a DEF HistoryInv
<1>1. CASE Elsewhere \/ ChildCrashes \/ ChildRaises \/ UNCHANGED vars
  BY <1>1, <1>a, ElsewhereFrame DEF ChildCrashes, ChildRaises, vars, process
<1>2. CASE ChildLoads \/ ChildEndsWarmup
  BY <1>2 DEF ChildLoads, ChildEndsWarmup, AfterWarmup, Start, HistoryInv
<1>3. CASE ChildBeginsWarmup
  BY <1>3 DEF ChildBeginsWarmup, Start, HistoryInv
<1>4. ASSUME NEW shape \in Shapes, ChildWarmsUp(shape) PROVE HistoryInv'
  BY <1>4 DEF ChildWarmsUp, Start, HistoryInv
<1>5. CASE ChildClears
  BY <1>5 DEF ChildClears, Start, ResetBackend, HistoryInv
<1>6. CASE ChildAnnounces
  BY <1>6 DEF ChildAnnounces, Start, HistoryInv
<1>7. CASE ChildReceives
  BY <1>7 DEF ChildReceives, SameEpisode, HistoryInv
<1>8. CASE ChildResets
  BY <1>8 DEF ChildResets, ResetBackend, HistoryInv
<1>9. CASE ChildPredicts
  <2>1. PICK r \in request : CallModel(r.key, r.shape)
    BY <1>9 DEF ChildPredicts
  <2>2. request = {r} /\ child = "predicting"
    BY <1>9, <2>1 DEF ChildPredicts, HistoryInv
  <2>3. episodeKey = {r.key}
    BY <2>2 DEF HistoryInv
  <2>4. /\ lastKey' = {r.key} /\ modelHistory' = modelHistory \cup {r.key}
        /\ datasetHistory' = IF lastKey = {r.key} THEN datasetHistory \cup {r.key} ELSE {r.key}
    BY <2>1 DEF CallModel, Preprocess
  <2>5. datasetHistory' = {r.key}
    BY <2>2, <2>3, <2>4 DEF HistoryInv
  <2>6. Forgets => modelHistory' \subseteq {r.key}
    BY <2>2, <2>3, <2>4 DEF HistoryInv
  <2>7. child' = "serving" /\ request' = {} /\ UNCHANGED <<recipe, episodeKey>>
    BY <1>9 DEF ChildPredicts
  <2>8. recipe.hasReset \/ recipe.stateless
    BY <2>2 DEF HistoryInv
  <2> QED
    BY <2>3, <2>4, <2>5, <2>6, <2>7, <2>8 DEF HistoryInv
<1> QED
  BY <1>1, <1>2, <1>3, <1>4, <1>5, <1>6, <1>7, <1>8, <1>9, NextCases DEF ChildRuns

(***************************************************************************)
(* Neither the warm-up nor another episode or generation leaves a trace in *)
(* a prediction (process.py:66-71; fluxvla.py:152-175, 223-235).           *)
(***************************************************************************)
THEOREM ModelForgets == Spec => []OwnHistory
<1>1. Spec => []HistoryInv
  BY HistoryInit, HistoryStep, PTL DEF Spec
<1>2. HistoryInv => OwnHistory
  BY DEF HistoryInv, OwnHistory, Remembers, Forgets
<1> QED
  BY <1>1, <1>2, PTL
----------------------------------------------------------------------------
(***************************************************************************)
(* The channel.  A start-up message is known by its position: the child    *)
(* sends Stages and then ready, the pipe and the queue keep their order,   *)
(* and the supervisor has heard the first of them.                         *)
(***************************************************************************)
Bad(m) == m.kind \in {"failure", "transport_error"}

Scripted(m, n) ==
    \/ Bad(m)
    \/ n \in 1 .. 4 /\ m = Stage(Stages[n])
    \/ n = 5 /\ m.kind = "ready"

\* How many start-up messages a child that still runs has sent.
Said(n) ==
    /\ child = "loading" => n = 0
    /\ child = "loaded" => n = 1
    /\ child = "warming" => n = 2
    /\ child = "clearing" => n = 3
    /\ child = "announcing" => n = 4
    /\ child \notin {"loading", "loaded", "warming", "clearing", "announcing"} => n = 5

StageNames == {Stages[n] : n \in 1 .. 4}
Message == [kind : {"startup_progress"}, stage : StageNames]
           \cup [kind : {"ready", "failure", "transport_error"}]
           \cup [kind : {"result"}, id : Nat, key : Key]
Call == [kind : {"request"}, id : Nat, key : Key, shape : Shapes]

AllBad(s) == \A i \in DOMAIN s : Bad(s[i])

ProgressInv ==
    /\ progress \in Seq(StageNames) /\ Len(progress) <= 4
    /\ \A i \in DOMAIN progress : progress[i] = Stages[i]
    /\ parent \in {"idle", "executing"} => Len(progress) = 4

WireInv ==
    /\ dispatched \in Nat
    /\ parent \in {"starting", "idle", "executing"} =>
           /\ incoming \in Seq(Message) /\ toParent \in Seq(Message)
           /\ outgoing \in Seq(Call) /\ toChild \in Seq(Call) /\ request \subseteq Call

StartInv ==
    parent = "starting" =>
        /\ outgoing = <<>> /\ toChild = <<>> /\ request = {}
        /\ child # "ended" => /\ child \notin {"switching", "predicting"}
                              /\ Said(Len(progress) + Len(incoming) + Len(toParent))
        /\ \A i \in DOMAIN incoming : Scripted(incoming[i], Len(progress) + i)
        /\ \A i \in DOMAIN toParent : Scripted(toParent[i], Len(progress) + Len(incoming) + i)

(***************************************************************************)
(* A running process between requests is silent; the request that executes *)
(* is in one place - on its way out, with the child, or answered - and     *)
(* besides its answer there are only failures under way.                   *)
(***************************************************************************)
Silent == /\ AllBad(incoming) /\ AllBad(toParent)
          /\ child # "ended" => incoming = <<>> /\ toParent = <<>>

IdleInv ==
    parent = "idle" =>
        /\ outgoing = <<>> /\ toChild = <<>> /\ request = {}
        /\ child \in {"serving", "ended"}
        /\ Silent

SameCall(q, r) == q.id = r.id /\ q.key = r.key

OnlyAnswer(s, r) ==
    /\ Len(s) >= 1 /\ s[1] = Answer(r)
    /\ \A i \in 2 .. Len(s) : Bad(s[i])
    /\ child # "ended" => Len(s) = 1

OnItsWayOut(r) ==
    /\ \/ toChild = <<>> /\ Len(outgoing) = 1 /\ SameCall(outgoing[1], r)
       \/ outgoing = <<>> /\ Len(toChild) = 1 /\ SameCall(toChild[1], r)
    /\ request = {} /\ child \in {"serving", "ended"}
    /\ Silent

WithTheChild(r) ==
    /\ outgoing = <<>> /\ toChild = <<>>
    /\ \E q \in request : request = {q} /\ SameCall(q, r)
    /\ child \in {"switching", "predicting", "ended"}
    /\ Silent

IsAnswered(r) ==
    /\ outgoing = <<>> /\ toChild = <<>> /\ request = {} /\ child \in {"serving", "ended"}
    /\ \/ /\ OnlyAnswer(incoming, r) /\ AllBad(toParent)
          /\ child # "ended" => toParent = <<>>
       \/ incoming = <<>> /\ OnlyAnswer(toParent, r)

ExecInv ==
    parent = "executing" =>
        \E r \in current : current = {r} /\ (OnItsWayOut(r) \/ WithTheChild(r) \/ IsAnswered(r))

ChildInv == child \in {"loading", "loaded", "warming", "clearing", "announcing", "serving",
                       "switching", "predicting", "ended"}

ChannelInv == ChildInv /\ ProgressInv /\ WireInv /\ StartInv /\ IdleInv /\ ExecInv
----------------------------------------------------------------------------
(***************************************************************************)
(* Sequences, element by element.                                          *)
(***************************************************************************)
LEMMA Popped ==
    ASSUME NEW S, NEW s \in Seq(S), s # <<>>
    PROVE  /\ Head(s) = s[1] /\ Head(s) \in S /\ Tail(s) \in Seq(S)
           /\ Len(s) \in Nat \ {0} /\ Len(Tail(s)) = Len(s) - 1
           /\ DOMAIN s = 1 .. Len(s) /\ DOMAIN Tail(s) = 1 .. Len(s) - 1
           /\ \A i \in 1 .. Len(s) - 1 : Tail(s)[i] = s[i + 1]
  OBVIOUS

LEMMA Pushed ==
    ASSUME NEW S, NEW s \in Seq(S), NEW m \in S
    PROVE  /\ Append(s, m) \in Seq(S) /\ Len(s) \in Nat
           /\ Len(Append(s, m)) = Len(s) + 1
           /\ DOMAIN s = 1 .. Len(s) /\ DOMAIN Append(s, m) = 1 .. Len(s) + 1
           /\ Append(s, m)[Len(s) + 1] = m
           /\ \A i \in 1 .. Len(s) : Append(s, m)[i] = s[i]
  OBVIOUS

LEMMA Sized == ASSUME NEW S, NEW s \in Seq(S)
               PROVE  /\ Len(s) \in Nat /\ DOMAIN s = 1 .. Len(s)
                      /\ \A i \in DOMAIN s : s[i] \in S
                      /\ s = <<>> <=> Len(s) = 0
  OBVIOUS

LEMMA ForwardKeepsBad ==
    ASSUME NEW s \in Seq(Message), NEW t \in Seq(Message), t # <<>>, AllBad(s), AllBad(t)
    PROVE  AllBad(Append(s, Head(t))) /\ AllBad(Tail(t))
<1>1. /\ Head(t) = t[1] /\ Head(t) \in Message /\ 1 \in DOMAIN t
      /\ DOMAIN Tail(t) = 1 .. Len(t) - 1 /\ DOMAIN t = 1 .. Len(t) /\ Len(t) \in Nat
      /\ \A i \in 1 .. Len(t) - 1 : Tail(t)[i] = t[i + 1]
  BY Popped
<1>2. Bad(Head(t))
  BY <1>1 DEF AllBad
<1>3. AllBad(Tail(t))
  BY <1>1 DEF AllBad
<1>4. /\ DOMAIN Append(s, Head(t)) = 1 .. Len(s) + 1 /\ DOMAIN s = 1 .. Len(s) /\ Len(s) \in Nat
      /\ Append(s, Head(t))[Len(s) + 1] = Head(t)
      /\ \A i \in 1 .. Len(s) : Append(s, Head(t))[i] = s[i]
  BY <1>1, Pushed
<1> QED
  BY <1>2, <1>3, <1>4 DEF AllBad

LEMMA PushKeepsBad ==
    ASSUME NEW s \in Seq(Message), NEW m \in Message, Bad(m), AllBad(s)
    PROVE  AllBad(Append(s, m))
<1>1. /\ DOMAIN Append(s, m) = 1 .. Len(s) + 1 /\ DOMAIN s = 1 .. Len(s) /\ Len(s) \in Nat
      /\ Append(s, m)[Len(s) + 1] = m
      /\ \A i \in 1 .. Len(s) : Append(s, m)[i] = s[i]
  BY Pushed
<1> QED
  BY <1>1 DEF AllBad

----------------------------------------------------------------------------
(***************************************************************************)
(* The supervisor.                                                         *)
(***************************************************************************)
LEMMA ChannelInit == Init => ChannelInv
  BY DEF Init, ChannelInv, ProgressInv, WireInv, StartInv, IdleInv, ExecInv, Said, AllBad, ChildInv

Facts == <<progress, dispatched>>

LEMMA OverKeepsChannel ==
    ASSUME ChannelInv, parent' \notin {"starting", "idle", "executing"}, UNCHANGED Facts, ChildInv'
    PROVE  ChannelInv'
<1>1. ProgressInv'
  BY DEF ChannelInv, ProgressInv, Facts
<1>2. WireInv' /\ StartInv'
  BY DEF ChannelInv, WireInv, StartInv, Facts
<1>3. IdleInv' /\ ExecInv'
  BY DEF IdleInv, ExecInv
<1> QED
  BY <1>1, <1>2, <1>3 DEF ChannelInv

LEMMA ProgressKeepsChannel == ChannelInv /\ ParentProgress => ChannelInv'
<1> SUFFICES ASSUME ChannelInv, ParentProgress PROVE ChannelInv'
  OBVIOUS
<1> USE DEF ChannelInv
<1>1. /\ parent = "starting" /\ parent' = "starting" /\ incoming # <<>>
      /\ Head(incoming).kind = "startup_progress"
      /\ incoming' = Tail(incoming) /\ progress' = Append(progress, Head(incoming).stage)
      /\ UNCHANGED <<dispatched, outgoing, toParent, toChild, request, child>>
  BY DEF ParentProgress, Hears, Rest, pipe, process
<1>2. /\ incoming \in Seq(Message) /\ toParent \in Seq(Message) /\ progress \in Seq(StageNames)
  BY <1>1 DEF WireInv, ProgressInv
<1>3. /\ Head(incoming) = incoming[1] /\ Tail(incoming) \in Seq(Message)
      /\ Len(incoming) \in Nat \ {0} /\ Len(Tail(incoming)) = Len(incoming) - 1
      /\ DOMAIN incoming = 1 .. Len(incoming) /\ DOMAIN Tail(incoming) = 1 .. Len(incoming) - 1
      /\ \A i \in 1 .. Len(incoming) - 1 : Tail(incoming)[i] = incoming[i + 1]
  BY <1>1, <1>2, Popped
<1>4. Len(progress) + 1 \in 1 .. 4 /\ Head(incoming).stage = Stages[Len(progress) + 1]
  <2>1. Scripted(Head(incoming), Len(progress) + 1)
    BY <1>1, <1>3 DEF StartInv
  <2> QED
    BY <1>1, <2>1 DEF Scripted, Bad, Stage
<1>5. Head(incoming).stage \in StageNames
  BY <1>4 DEF StageNames
<1>6. /\ progress' \in Seq(StageNames) /\ Len(progress) \in Nat /\ Len(progress') = Len(progress) + 1
      /\ DOMAIN progress = 1 .. Len(progress) /\ DOMAIN progress' = 1 .. Len(progress) + 1
      /\ progress'[Len(progress) + 1] = Head(incoming).stage
      /\ \A i \in 1 .. Len(progress) : progress'[i] = progress[i]
  BY <1>1, <1>2, <1>5, Pushed
<1>7. ProgressInv'
  BY <1>1, <1>4, <1>6 DEF ProgressInv
<1>8. WireInv'
  BY <1>1, <1>3 DEF WireInv
<1>9. StartInv'
  <2>1. Len(progress') + Len(incoming') = Len(progress) + Len(incoming)
    BY <1>1, <1>3, <1>6
  <2>2. Said(Len(progress) + Len(incoming) + Len(toParent)) =>
            Said(Len(progress) + Len(incoming) + Len(toParent))'
    BY <1>1, <2>1 DEF Said
  <2>3. \A i \in DOMAIN incoming' : Scripted(incoming'[i], Len(progress') + i)
    <3>1. ASSUME NEW i \in DOMAIN incoming' PROVE Scripted(incoming'[i], Len(progress') + i)
      <4>1. i \in Nat /\ i + 1 \in DOMAIN incoming /\ incoming'[i] = incoming[i + 1]
        BY <1>1, <1>3
      <4>2. Len(progress) + (i + 1) = Len(progress') + i
        BY <1>6, <4>1
      <4> QED
        BY <1>1, <4>1, <4>2 DEF StartInv
    <3> QED
      BY <3>1
  <2>4. \A i \in DOMAIN toParent : Scripted(toParent[i], Len(progress') + Len(incoming') + i)
    BY <1>1, <2>1 DEF StartInv
  <2> QED
    BY <1>1, <2>2, <2>3, <2>4 DEF StartInv, Scripted, Bad
<1> QED
  BY <1>1, <1>7, <1>8, <1>9 DEF IdleInv, ExecInv, ChildInv

LEMMA ReadyKeepsChannel == ChannelInv /\ ParentReady => ChannelInv'
<1> SUFFICES ASSUME ChannelInv, ParentReady PROVE ChannelInv'
  OBVIOUS
<1> USE DEF ChannelInv
<1>1. /\ parent = "starting" /\ parent' = "idle" /\ incoming # <<>>
      /\ Head(incoming).kind = "ready" /\ incoming' = Tail(incoming)
      /\ UNCHANGED <<progress, dispatched, outgoing, toParent, toChild, request, child>>
  BY DEF ParentReady, Hears, Rest, pipe, process
<1>2. /\ incoming \in Seq(Message) /\ toParent \in Seq(Message) /\ progress \in Seq(StageNames)
      /\ outgoing = <<>> /\ toChild = <<>> /\ request = {}
  BY <1>1 DEF WireInv, ProgressInv, StartInv
<1>3. /\ Head(incoming) = incoming[1] /\ Tail(incoming) \in Seq(Message)
      /\ Len(incoming) \in Nat \ {0} /\ Len(Tail(incoming)) = Len(incoming) - 1
      /\ DOMAIN incoming = 1 .. Len(incoming) /\ DOMAIN Tail(incoming) = 1 .. Len(incoming) - 1
      /\ \A i \in 1 .. Len(incoming) - 1 : Tail(incoming)[i] = incoming[i + 1]
  BY <1>1, <1>2, Popped
<1>4. /\ Len(toParent) \in Nat /\ DOMAIN toParent = 1 .. Len(toParent) /\ Len(progress) \in Nat
      /\ (toParent = <<>> <=> Len(toParent) = 0)
      /\ (incoming' = <<>> <=> Len(incoming') = 0)
  BY <1>1, <1>2, <1>3, Sized
<1>5. Len(progress) = 4
  <2>1. Scripted(Head(incoming), Len(progress) + 1)
    BY <1>1, <1>3 DEF StartInv
  <2>2. ~Bad(Head(incoming)) /\ Head(incoming) # Stage(Stages[Len(progress) + 1])
    BY <1>1 DEF Bad, Stage
  <2>3. Len(progress) + 1 = 5 => Len(progress) = 4
    <3>1. \A n \in Nat : n + 1 = 5 => n = 4
      OBVIOUS
    <3> QED
      BY <1>4, <3>1
  <2> QED
    BY <2>1, <2>2, <2>3 DEF Scripted
<1>6. AllBad(incoming')
  <2> SUFFICES ASSUME NEW i \in DOMAIN incoming' PROVE Bad(incoming'[i])
    BY DEF AllBad
  <2>1. i \in Nat \ {0} /\ i + 1 \in DOMAIN incoming /\ incoming'[i] = incoming[i + 1]
    BY <1>1, <1>3
  <2>2. Scripted(incoming[i + 1], Len(progress) + (i + 1))
    BY <1>1, <2>1 DEF StartInv
  <2> QED
    BY <1>5, <2>1, <2>2 DEF Scripted
<1>7. AllBad(toParent)
  <2> SUFFICES ASSUME NEW i \in DOMAIN toParent PROVE Bad(toParent[i])
    BY DEF AllBad
  <2>1. Scripted(toParent[i], Len(progress) + Len(incoming) + i)
    BY <1>1 DEF StartInv
  <2>2. Len(progress) + Len(incoming) + i \notin 1 .. 5
    <3>1. i \in Nat \ {0}
      BY <1>4
    <3>2. Len(incoming) \in Nat \ {0} /\ Len(progress) = 4
      BY <1>3, <1>5
    <3> QED
      BY <3>1, <3>2
  <2> QED
    BY <2>1, <2>2 DEF Scripted
<1>8. child \in {"serving", "ended"} /\ (child # "ended" => Len(incoming') = 0 /\ Len(toParent) = 0)
  <2>1. CASE child # "ended"
    <3>1. /\ Said(4 + Len(incoming) + Len(toParent)) /\ child \notin {"switching", "predicting"}
      BY <1>1, <1>5, <2>1 DEF StartInv
    <3>2. 4 + Len(incoming) + Len(toParent) >= 5
      BY <1>3, <1>4
    <3>3. child = "serving" /\ 4 + Len(incoming) + Len(toParent) = 5
      BY <2>1, <3>1, <3>2 DEF Said, ChildInv
    <3> QED
      BY <1>1, <1>3, <1>4, <3>3
  <2> QED
    BY <2>1
<1>9. Silent'
  BY <1>1, <1>4, <1>6, <1>7, <1>8 DEF Silent, AllBad, Bad
<1>10. IdleInv'
  BY <1>1, <1>2, <1>8, <1>9 DEF IdleInv
<1> QED
  BY <1>1, <1>3, <1>5, <1>10 DEF ProgressInv, WireInv, StartInv, ExecInv, ChildInv

LEMMA DispatchKeepsChannel ==
    ASSUME ChannelInv, NEW key \in Key, NEW shape \in Shapes, ParentDispatches(key, shape)
    PROVE  ChannelInv'
<1> USE DEF ChannelInv
<1>0. PICK r, q : /\ r = [id |-> dispatched, key |-> key, shape |-> shape]
                  /\ q = [kind |-> "request", id |-> dispatched, key |-> key, shape |-> shape]
  OBVIOUS
<1>1. /\ parent = "idle" /\ parent' = "executing" /\ current' = {r}
      /\ outgoing' = outgoing \o <<q>> /\ dispatched' = dispatched + 1
      /\ UNCHANGED <<progress, incoming, toParent, toChild, request, child>>
  BY <1>0 DEF ParentDispatches, Rest, pipe, process
<1>2. q \in Call /\ SameCall(q, r)
  BY <1>0 DEF WireInv, Call, SameCall
<1>3. outgoing' = <<q>> /\ outgoing' \in Seq(Call)
  BY <1>1, <1>2 DEF IdleInv
<1>4. OnItsWayOut(r)'
  BY <1>1, <1>2, <1>3 DEF IdleInv, OnItsWayOut, Silent, SameCall, AllBad, Bad
<1>5. ExecInv'
  BY <1>1, <1>4 DEF ExecInv
<1>6. WireInv'
  BY <1>1, <1>3 DEF WireInv
<1> QED
  BY <1>1, <1>5, <1>6 DEF ProgressInv, StartInv, IdleInv, ChildInv

\* The answer is the head of what was heard, and failures are all that is left.
LEMMA AnsweredKeepsChannel == ChannelInv /\ ParentAnswered => ChannelInv'
<1> SUFFICES ASSUME ChannelInv, ParentAnswered PROVE ChannelInv'
  OBVIOUS
<1> USE DEF ChannelInv
<1>1. /\ parent = "executing" /\ parent' = "idle" /\ incoming # <<>>
      /\ Head(incoming).kind = "result" /\ incoming' = Tail(incoming)
      /\ UNCHANGED <<progress, dispatched, outgoing, toParent, toChild, request, child>>
  BY DEF ParentAnswered, Hears, Rest, pipe, process
<1>2. incoming \in Seq(Message) /\ toParent \in Seq(Message)
  BY <1>1 DEF WireInv
<1>3. /\ Head(incoming) = incoming[1] /\ Tail(incoming) \in Seq(Message)
      /\ Len(incoming) \in Nat \ {0} /\ Len(Tail(incoming)) = Len(incoming) - 1
      /\ DOMAIN incoming = 1 .. Len(incoming) /\ DOMAIN Tail(incoming) = 1 .. Len(incoming) - 1
      /\ \A i \in 1 .. Len(incoming) - 1 : Tail(incoming)[i] = incoming[i + 1]
  BY <1>1, <1>2, Popped
<1>4. (incoming' = <<>> <=> Len(incoming') = 0)
  BY <1>1, <1>3, Sized
<1>5. PICK r : OnItsWayOut(r) \/ WithTheChild(r) \/ IsAnswered(r)
  BY <1>1 DEF ExecInv
<1>6. ~Bad(incoming[1]) /\ 1 \in DOMAIN incoming
  BY <1>1, <1>3 DEF Bad
<1>7. IsAnswered(r) /\ OnlyAnswer(incoming, r)
  BY <1>1, <1>5, <1>6 DEF OnItsWayOut, WithTheChild, Silent, AllBad, IsAnswered
<1>8. AllBad(incoming')
  <2> SUFFICES ASSUME NEW i \in DOMAIN incoming' PROVE Bad(incoming'[i])
    BY DEF AllBad
  <2>1. i + 1 \in 2 .. Len(incoming) /\ incoming'[i] = incoming[i + 1]
    BY <1>1, <1>3
  <2> QED
    BY <1>7, <2>1 DEF OnlyAnswer
<1>9. /\ outgoing = <<>> /\ toChild = <<>> /\ request = {} /\ child \in {"serving", "ended"}
      /\ AllBad(toParent) /\ (child # "ended" => incoming' = <<>> /\ toParent = <<>>)
  BY <1>1, <1>3, <1>4, <1>7 DEF IsAnswered, OnlyAnswer
<1>10. IdleInv'
  BY <1>1, <1>8, <1>9 DEF IdleInv, Silent, AllBad, Bad
<1> QED
  BY <1>1, <1>3, <1>10 DEF ProgressInv, WireInv, StartInv, ExecInv, ChildInv

LEMMA SupervisorKeepsChannel == ChannelInv /\ (Parent \/ ParentGivesUp) => ChannelInv'
<1> SUFFICES ASSUME ChannelInv, Parent \/ ParentGivesUp PROVE ChannelInv'
  OBVIOUS
<1>1. CASE ParentFault \/ ParentStops \/ ParentGivesUp
  <2>1. child' = child \/ child' = "ended"
    BY <1>1, ElsewhereFrame DEF Elsewhere, Parent
  <2>2. ChildInv'
    BY <2>1 DEF ChannelInv, ChildInv
  <2> QED
    BY <1>1, <2>2, OverKeepsChannel DEF ParentFault, ParentStops, ParentGivesUp, Hears, Facts
<1> QED
  BY <1>1, ProgressKeepsChannel, ReadyKeepsChannel, AnsweredKeepsChannel DEF Parent
----------------------------------------------------------------------------
(***************************************************************************)
(* The transport thread and the child leave the supervisor alone; what they *)
(* do matters as long as it listens.                                       *)
(***************************************************************************)
Live == parent \in {"starting", "idle", "executing"}

LEMMA LiveWires ==
    ASSUME ChannelInv, Live
    PROVE  /\ incoming \in Seq(Message) /\ toParent \in Seq(Message) /\ progress \in Seq(StageNames)
           /\ outgoing \in Seq(Call) /\ toChild \in Seq(Call) /\ request \subseteq Call
           /\ Len(incoming) \in Nat /\ DOMAIN incoming = 1 .. Len(incoming)
           /\ Len(toParent) \in Nat /\ DOMAIN toParent = 1 .. Len(toParent)
           /\ Len(outgoing) \in Nat /\ Len(toChild) \in Nat /\ Len(progress) \in Nat
           /\ incoming = <<>> <=> Len(incoming) = 0
           /\ toParent = <<>> <=> Len(toParent) = 0
           /\ outgoing = <<>> <=> Len(outgoing) = 0
           /\ toChild = <<>> <=> Len(toChild) = 0
<1>1. /\ incoming \in Seq(Message) /\ toParent \in Seq(Message) /\ progress \in Seq(StageNames)
      /\ outgoing \in Seq(Call) /\ toChild \in Seq(Call) /\ request \subseteq Call
  BY DEF ChannelInv, WireInv, ProgressInv, Live
<1> QED
  BY <1>1, Sized

LEMMA Assemble ==
    ASSUME ChannelInv, UNCHANGED supervisor, ChildInv', Live => WireInv',
           parent = "starting" => StartInv', parent = "idle" => IdleInv',
           parent = "executing" => ExecInv'
    PROVE  ChannelInv'
<1>1. ProgressInv'
  BY DEF ChannelInv, ProgressInv, supervisor
<1>2. WireInv'
  BY DEF ChannelInv, WireInv, supervisor, Live
<1>3. StartInv' /\ IdleInv' /\ ExecInv'
  <2>1. parent' = parent
    BY DEF supervisor
  <2>2. StartInv'
    BY <2>1 DEF StartInv
  <2>3. IdleInv'
    BY <2>1 DEF IdleInv
  <2>4. ExecInv'
    BY <2>1 DEF ExecInv
  <2> QED
    BY <2>2, <2>3, <2>4
<1> QED
  BY <1>1, <1>2, <1>3 DEF ChannelInv

\* A message moves up by one place and keeps its number.
LEMMA ForwardsKeepsStart ==
    ASSUME ChannelInv, parent = "starting", TransportForwards
    PROVE  StartInv'
<1> USE DEF ChannelInv
<1>1. /\ toParent # <<>> /\ incoming' = Append(incoming, Head(toParent)) /\ toParent' = Tail(toParent)
      /\ UNCHANGED <<parent, progress, outgoing, toChild, request, child>>
  BY DEF TransportForwards, supervisor, process
<1>2. /\ incoming \in Seq(Message) /\ toParent \in Seq(Message)
      /\ Len(progress) \in Nat /\ Len(incoming) \in Nat
  BY LiveWires DEF Live
<1>3. /\ Head(toParent) = toParent[1] /\ Head(toParent) \in Message
      /\ Len(toParent) \in Nat \ {0} /\ Len(toParent') = Len(toParent) - 1
      /\ DOMAIN toParent = 1 .. Len(toParent) /\ DOMAIN toParent' = 1 .. Len(toParent) - 1
      /\ \A i \in 1 .. Len(toParent) - 1 : toParent'[i] = toParent[i + 1]
  BY <1>1, <1>2, Popped
<1>4. /\ Len(incoming') = Len(incoming) + 1
      /\ DOMAIN incoming = 1 .. Len(incoming) /\ DOMAIN incoming' = 1 .. Len(incoming) + 1
      /\ incoming'[Len(incoming) + 1] = Head(toParent)
      /\ \A i \in 1 .. Len(incoming) : incoming'[i] = incoming[i]
  BY <1>1, <1>2, <1>3, Pushed
<1>5. \A i \in DOMAIN incoming' : Scripted(incoming'[i], Len(progress) + i)
  <2> SUFFICES ASSUME NEW i \in DOMAIN incoming' PROVE Scripted(incoming'[i], Len(progress) + i)
    OBVIOUS
  <2>1. CASE i \in DOMAIN incoming
    <3>1. incoming'[i] = incoming[i]
      BY <1>4, <2>1
    <3> QED
      BY <2>1, <3>1 DEF StartInv
  <2>2. CASE i = Len(incoming) + 1
    <3>1. 1 \in DOMAIN toParent /\ Len(progress) + Len(incoming) + 1 = Len(progress) + i
      BY <1>2, <1>3, <2>2
    <3>2. incoming'[i] = toParent[1]
      BY <1>3, <1>4, <2>2
    <3>3. Scripted(toParent[1], Len(progress) + Len(incoming) + 1)
      BY <3>1 DEF StartInv
    <3> QED
      BY <3>1, <3>2, <3>3
  <2> QED
    BY <1>2, <1>4, <2>1, <2>2
<1>6. \A i \in DOMAIN toParent' : Scripted(toParent'[i], Len(progress) + Len(incoming') + i)
  <2> SUFFICES ASSUME NEW i \in DOMAIN toParent'
               PROVE  Scripted(toParent'[i], Len(progress) + Len(incoming') + i)
    OBVIOUS
  <2>1. i \in Nat /\ i + 1 \in DOMAIN toParent /\ toParent'[i] = toParent[i + 1]
    BY <1>3
  <2>2. Len(progress) + Len(incoming) + (i + 1) = Len(progress) + Len(incoming') + i
    BY <1>2, <1>4, <2>1
  <2> QED
    BY <2>1, <2>2 DEF StartInv
<1>7. Len(progress) + Len(incoming') + Len(toParent') = Len(progress) + Len(incoming) + Len(toParent)
  BY <1>2, <1>3, <1>4
<1>8. child # "ended" => Said(Len(progress) + Len(incoming) + Len(toParent))'
  <2>1. child # "ended" => Said(Len(progress) + Len(incoming) + Len(toParent))
    BY DEF StartInv
  <2> QED
    BY <1>1, <1>7, <2>1 DEF Said
<1> QED
  BY <1>1, <1>5, <1>6, <1>8 DEF StartInv, Scripted, Bad
LEMMA ForwardsKeepsExec ==
    ASSUME ChannelInv, parent = "executing", TransportForwards
    PROVE  ExecInv'
<1> USE DEF ChannelInv
<1>1. /\ toParent # <<>> /\ incoming' = Append(incoming, Head(toParent)) /\ toParent' = Tail(toParent)
      /\ UNCHANGED <<parent, current, outgoing, toChild, request, child>>
  BY DEF TransportForwards, supervisor, process
<1>2. incoming \in Seq(Message) /\ toParent \in Seq(Message) /\ Len(incoming) \in Nat
  BY LiveWires DEF Live
<1>3. /\ Head(toParent) = toParent[1] /\ Head(toParent) \in Message /\ toParent' \in Seq(Message)
      /\ Len(toParent) \in Nat \ {0} /\ Len(toParent') = Len(toParent) - 1
      /\ DOMAIN toParent = 1 .. Len(toParent) /\ DOMAIN toParent' = 1 .. Len(toParent) - 1
      /\ \A i \in 1 .. Len(toParent) - 1 : toParent'[i] = toParent[i + 1]
  BY <1>1, <1>2, Popped
<1>4. /\ Len(incoming') = Len(incoming) + 1
      /\ incoming'[Len(incoming) + 1] = Head(toParent)
      /\ \A i \in 1 .. Len(incoming) : incoming'[i] = incoming[i]
  BY <1>1, <1>2, <1>3, Pushed
<1>5. PICK r \in current : current = {r} /\ (OnItsWayOut(r) \/ WithTheChild(r) \/ IsAnswered(r))
  BY DEF ExecInv
<1>a. Silent => Silent'
  <2>1. AllBad(incoming) /\ AllBad(toParent) => AllBad(incoming') /\ AllBad(toParent')
    BY <1>1, <1>2, ForwardKeepsBad
  <2>2. Silent => child = "ended" /\ AllBad(incoming) /\ AllBad(toParent)
    BY <1>1 DEF Silent
  <2>3. child = "ended" /\ AllBad(incoming') /\ AllBad(toParent') => Silent'
    BY <1>1 DEF Silent, AllBad, Bad
  <2> QED
    BY <2>1, <2>2, <2>3
<1>6. CASE OnItsWayOut(r)
  BY <1>1, <1>5, <1>6, <1>a DEF OnItsWayOut, ExecInv, SameCall
<1>7. CASE WithTheChild(r)
  BY <1>1, <1>5, <1>7, <1>a DEF WithTheChild, ExecInv, SameCall
<1>8. CASE IsAnswered(r)
  <2>0. outgoing = <<>> /\ toChild = <<>> /\ request = {} /\ child \in {"serving", "ended"}
    BY <1>8 DEF IsAnswered
  <2>1. CASE OnlyAnswer(incoming, r) /\ AllBad(toParent) /\ (child # "ended" => toParent = <<>>)
    <3>1. child = "ended" /\ AllBad(toParent')
      BY <1>1, <1>2, <2>1, ForwardKeepsBad DEF AllBad
    <3>2. Len(incoming) >= 1 /\ incoming[1] = Answer(r) /\ \A i \in 2 .. Len(incoming) : Bad(incoming[i])
      BY <2>1 DEF OnlyAnswer
    <3>3. Bad(Head(toParent))
      BY <1>3, <2>1 DEF AllBad
    <3>4. incoming'[1] = Answer(r) /\ Len(incoming') >= 1
      BY <1>2, <1>4, <3>2
    <3>5. \A i \in 2 .. Len(incoming') : Bad(incoming'[i])
      <4> SUFFICES ASSUME NEW i \in 2 .. Len(incoming) + 1 PROVE Bad(incoming'[i])
        BY <1>4
      <4>1. CASE i = Len(incoming) + 1
        BY <1>4, <3>3, <4>1
      <4>2. CASE i \in 2 .. Len(incoming)
        BY <1>2, <1>4, <3>2, <4>2
      <4> QED
        BY <1>2, <4>1, <4>2
    <3>6. IsAnswered(r)'
      BY <1>1, <2>0, <3>1, <3>4, <3>5 DEF IsAnswered, OnlyAnswer, Answer, AllBad, Bad
    <3> QED
      BY <1>1, <1>5, <3>6 DEF ExecInv
  <2>2. CASE incoming = <<>> /\ OnlyAnswer(toParent, r)
    <3>1. /\ toParent[1] = Answer(r) /\ \A i \in 2 .. Len(toParent) : Bad(toParent[i])
          /\ child # "ended" => Len(toParent) = 1
      BY <2>2 DEF OnlyAnswer
    <3>2. Len(incoming') = 1 /\ incoming'[1] = Answer(r)
      <4>1. incoming' = <<Head(toParent)>>
        BY <1>1, <2>2
      <4>2. Head(toParent) = Answer(r)
        BY <1>3, <3>1
      <4>3. incoming' = <<Answer(r)>>
        BY <4>1, <4>2
      <4> QED
        BY <4>3
    <3>3. AllBad(toParent')
      <4> SUFFICES ASSUME NEW i \in DOMAIN toParent' PROVE Bad(toParent'[i])
        BY DEF AllBad
      <4>1. i + 1 \in 2 .. Len(toParent) /\ toParent'[i] = toParent[i + 1]
        BY <1>3
      <4> QED
        BY <3>1, <4>1
    <3>4. ASSUME child # "ended" PROVE toParent' = <<>>
      <4>1. Len(toParent) = 1
        BY <3>1, <3>4
      <4>2. Len(toParent') = 0
        BY <1>3, <4>1
      <4> QED
        BY <1>3, <4>2, Sized
    <3>5. IsAnswered(r)'
      BY <1>1, <2>0, <3>2, <3>3, <3>4 DEF IsAnswered, OnlyAnswer, Answer, AllBad, Bad
    <3> QED
      BY <1>1, <1>5, <3>5 DEF ExecInv
  <2> QED
    BY <1>8, <2>1, <2>2 DEF IsAnswered
<1> QED
  BY <1>5, <1>6, <1>7, <1>8

LEMMA ForwardsKeepsChannel == ChannelInv /\ Live /\ TransportForwards => ChannelInv'
<1> SUFFICES ASSUME ChannelInv, Live, TransportForwards PROVE ChannelInv'
  OBVIOUS
<1>1. /\ toParent # <<>> /\ incoming' = Append(incoming, Head(toParent)) /\ toParent' = Tail(toParent)
      /\ UNCHANGED <<supervisor, outgoing, toChild, request, child>>
  BY DEF TransportForwards, process
<1>2. incoming \in Seq(Message) /\ toParent \in Seq(Message)
  BY LiveWires
<1>3. Head(toParent) \in Message /\ toParent' \in Seq(Message)
  BY <1>1, <1>2, Popped
<1>4. incoming' \in Seq(Message)
  BY <1>1, <1>2, <1>3, Pushed
<1>5. ChildInv' /\ WireInv'
  BY <1>1, <1>3, <1>4, LiveWires DEF ChannelInv, ChildInv, WireInv, supervisor
<1>6. ASSUME parent = "idle" PROVE IdleInv'
  <2>1. /\ outgoing = <<>> /\ toChild = <<>> /\ request = {} /\ child \in {"serving", "ended"}
        /\ AllBad(incoming) /\ AllBad(toParent) /\ child = "ended"
    BY <1>1, <1>6 DEF ChannelInv, IdleInv, Silent
  <2>2. AllBad(incoming') /\ AllBad(toParent')
    BY <1>1, <1>2, <2>1, ForwardKeepsBad
  <2> QED
    BY <1>1, <2>1, <2>2 DEF IdleInv, Silent, AllBad, Bad
<1> QED
  BY <1>1, <1>5, <1>6, Assemble, ForwardsKeepsStart, ForwardsKeepsExec
LEMMA SendsKeepsChannel == ChannelInv /\ Live /\ TransportSends => ChannelInv'
<1> SUFFICES ASSUME ChannelInv, Live, TransportSends PROVE ChannelInv'
  OBVIOUS
<1> USE DEF ChannelInv
<1>1. /\ outgoing # <<>> /\ toChild' = Append(toChild, Head(outgoing)) /\ outgoing' = Tail(outgoing)
      /\ UNCHANGED <<supervisor, incoming, toParent, request, child>>
  BY DEF TransportSends, process
<1>2. parent = "executing"
  BY <1>1 DEF Live, StartInv, IdleInv
<1>3. /\ outgoing \in Seq(Call) /\ toChild \in Seq(Call) /\ request \subseteq Call
      /\ incoming \in Seq(Message) /\ toParent \in Seq(Message) /\ dispatched \in Nat
  BY LiveWires DEF WireInv
<1>4. /\ Head(outgoing) = outgoing[1] /\ Head(outgoing) \in Call /\ outgoing' \in Seq(Call)
      /\ Len(outgoing) \in Nat \ {0} /\ Len(outgoing') = Len(outgoing) - 1
  BY <1>1, <1>3, Popped
<1>5. toChild' \in Seq(Call) /\ Len(toChild') = Len(toChild) + 1 /\ toChild'[Len(toChild) + 1] = Head(outgoing)
  BY <1>1, <1>3, <1>4, Pushed
<1>6. PICK r \in current : current = {r} /\ (OnItsWayOut(r) \/ WithTheChild(r) \/ IsAnswered(r))
  BY <1>2 DEF ExecInv
<1>7. /\ toChild = <<>> /\ Len(outgoing) = 1 /\ SameCall(outgoing[1], r)
      /\ request = {} /\ child \in {"serving", "ended"} /\ Silent
  BY <1>1, <1>6 DEF OnItsWayOut, WithTheChild, IsAnswered
<1>8. outgoing' = <<>>
  <2>1. Len(outgoing') = 0
    BY <1>4, <1>7
  <2> QED
    BY <1>4, <2>1, Sized
<1>9. Len(toChild') = 1 /\ toChild'[1] = outgoing[1]
  <2>1. Len(toChild) = 0
    BY <1>7
  <2> QED
    BY <1>4, <1>5, <2>1
<1>10. OnItsWayOut(r)'
  BY <1>1, <1>7, <1>8, <1>9 DEF OnItsWayOut, Silent, SameCall, AllBad, Bad
<1>11. ExecInv'
  BY <1>1, <1>6, <1>10 DEF ExecInv, supervisor
<1>12. ChildInv' /\ WireInv'
  BY <1>1, <1>3, <1>4, <1>5 DEF ChildInv, WireInv, supervisor
<1> QED
  BY <1>1, <1>2, <1>11, <1>12, Assemble

\* A supervisor that still listens has not told the transport to stop.
LEMMA StopsIsOver == ChannelInv /\ Live => ~TransportStops
<1> SUFFICES ASSUME ChannelInv, Live, TransportStops PROVE FALSE
  OBVIOUS
<1>1. outgoing \in Seq(Call) /\ outgoing # <<>> /\ Head(outgoing) = Stop
  BY LiveWires DEF TransportStops
<1>2. Head(outgoing) \in Call
  BY <1>1, Popped
<1> QED
  BY <1>1, <1>2 DEF Call, Stop

LEMMA BreaksKeepsChannel == ChannelInv /\ Live /\ TransportBreaks => ChannelInv'
<1> SUFFICES ASSUME ChannelInv, Live, TransportBreaks PROVE ChannelInv'
  OBVIOUS
<1> USE DEF ChannelInv
<1>0. PICK m \in Message : m = [kind |-> "transport_error"]
  BY DEF Message
<1>1. /\ child = "ended" /\ (toParent = <<>> \/ outgoing # <<>>)
      /\ incoming' = Append(incoming, m)
      /\ UNCHANGED <<supervisor, outgoing, toParent, toChild, request, child>>
  BY <1>0 DEF TransportBreaks, pipe, process
<1>2. /\ incoming \in Seq(Message) /\ toParent \in Seq(Message) /\ Bad(m)
      /\ Len(incoming) \in Nat
  BY <1>0, LiveWires DEF Bad
<1>3. /\ incoming' \in Seq(Message) /\ Len(incoming') = Len(incoming) + 1
      /\ DOMAIN incoming = 1 .. Len(incoming) /\ DOMAIN incoming' = 1 .. Len(incoming) + 1
      /\ incoming'[Len(incoming) + 1] = m
      /\ \A i \in 1 .. Len(incoming) : incoming'[i] = incoming[i]
  BY <1>1, <1>2, Pushed
<1>4. ChildInv' /\ WireInv'
  BY <1>1, <1>3, LiveWires DEF ChildInv, WireInv, supervisor
<1>5. Silent => Silent'
  <2>1. AllBad(incoming) => AllBad(incoming')
    BY <1>1, <1>2, PushKeepsBad
  <2> QED
    BY <1>1, <2>1 DEF Silent, AllBad, Bad
<1>6. ASSUME parent = "starting" PROVE StartInv'
  <2>1. toParent = <<>> /\ outgoing = <<>> /\ toChild = <<>> /\ request = {}
    BY <1>1, <1>6 DEF StartInv
  <2>2. \A i \in DOMAIN incoming' : Scripted(incoming'[i], Len(progress) + i)
    <3> SUFFICES ASSUME NEW i \in DOMAIN incoming' PROVE Scripted(incoming'[i], Len(progress) + i)
      OBVIOUS
    <3>1. CASE i \in DOMAIN incoming
      <4>1. incoming'[i] = incoming[i]
        BY <1>3, <3>1
      <4> QED
        BY <1>6, <3>1, <4>1 DEF StartInv
    <3>2. CASE i = Len(incoming) + 1
      BY <1>2, <1>3, <3>2 DEF Scripted
    <3> QED
      BY <1>2, <1>3, <3>1, <3>2
  <2>3. progress' = progress
    BY <1>1 DEF supervisor
  <2> QED
    BY <1>1, <2>1, <2>2, <2>3 DEF StartInv, Scripted, Bad
<1>7. ASSUME parent = "idle" PROVE IdleInv'
  BY <1>1, <1>5, <1>7 DEF IdleInv, supervisor
<1>8. ASSUME parent = "executing" PROVE ExecInv'
  <2>1. PICK r \in current : current = {r} /\ (OnItsWayOut(r) \/ WithTheChild(r) \/ IsAnswered(r))
    BY <1>8 DEF ExecInv
  <2>a. current' = current
    BY <1>1 DEF supervisor
  <2>2. CASE OnItsWayOut(r)
    BY <1>1, <1>5, <2>1, <2>2, <2>a DEF OnItsWayOut, ExecInv, SameCall
  <2>3. CASE WithTheChild(r)
    BY <1>1, <1>5, <2>1, <2>3, <2>a DEF WithTheChild, ExecInv, SameCall
  <2>4. CASE IsAnswered(r)
    <3>1. outgoing = <<>> /\ toChild = <<>> /\ request = {} /\ toParent = <<>>
      BY <1>1, <2>4 DEF IsAnswered
    <3>2. OnlyAnswer(incoming, r)
      <4>1. ~OnlyAnswer(toParent, r)
        BY <3>1 DEF OnlyAnswer
      <4> QED
        BY <2>4, <4>1 DEF IsAnswered
    <3>3. Len(incoming) >= 1 /\ incoming[1] = Answer(r) /\ \A i \in 2 .. Len(incoming) : Bad(incoming[i])
      BY <3>2 DEF OnlyAnswer
    <3>4. incoming'[1] = Answer(r) /\ Len(incoming') >= 1
      BY <1>2, <1>3, <3>3
    <3>5. \A i \in 2 .. Len(incoming') : Bad(incoming'[i])
      <4> SUFFICES ASSUME NEW i \in 2 .. Len(incoming) + 1 PROVE Bad(incoming'[i])
        BY <1>3
      <4>1. CASE i = Len(incoming) + 1
        BY <1>2, <1>3, <4>1
      <4>2. CASE i \in 2 .. Len(incoming)
        BY <1>2, <1>3, <3>3, <4>2
      <4> QED
        BY <1>2, <4>1, <4>2
    <3>6. IsAnswered(r)'
      BY <1>1, <3>1, <3>4, <3>5 DEF IsAnswered, OnlyAnswer, Answer, AllBad, Bad
    <3> QED
      BY <2>1, <2>a, <3>6 DEF ExecInv
  <2> QED
    BY <2>1, <2>2, <2>3, <2>4
<1> QED
  BY <1>1, <1>4, <1>6, <1>7, <1>8, Assemble
----------------------------------------------------------------------------
(***************************************************************************)
(* The child.                                                              *)
(***************************************************************************)
Starting == {"loading", "loaded", "warming", "clearing", "announcing"}

LEMMA StartingIsEarly ==
    ChannelInv /\ Live /\ child \in Starting => parent = "starting"
  BY DEF ChannelInv, Live, Starting, IdleInv, ExecInv, OnItsWayOut, WithTheChild, IsAnswered

\* It says what comes next in the script, or that it failed.
LEMMA SaysKeepsChannel ==
    ASSUME ChannelInv, parent = "starting", child # "ended", NEW m \in Message,
           toParent' = Append(toParent, m), ChildInv',
           UNCHANGED <<supervisor, incoming, outgoing, toChild, request>>,
           NEW n \in Nat, n = Len(progress) + Len(incoming) + Len(toParent),
           Scripted(m, n + 1),
           \/ child' = "ended"
           \/ child' \notin {"switching", "predicting"} /\ Said(n + 1)'
    PROVE  ChannelInv'
<1>1. /\ incoming \in Seq(Message) /\ toParent \in Seq(Message)
      /\ Len(progress) \in Nat /\ Len(incoming) \in Nat /\ Len(toParent) \in Nat
  BY LiveWires DEF Live
<1>2. /\ toParent' \in Seq(Message) /\ Len(toParent') = Len(toParent) + 1
      /\ DOMAIN toParent = 1 .. Len(toParent) /\ DOMAIN toParent' = 1 .. Len(toParent) + 1
      /\ toParent'[Len(toParent) + 1] = m
      /\ \A i \in 1 .. Len(toParent) : toParent'[i] = toParent[i]
  BY <1>1, Pushed
<1>3. WireInv'
  BY <1>1, <1>2, LiveWires DEF ChannelInv, WireInv, supervisor, Live
<1>4. \A i \in DOMAIN toParent' : Scripted(toParent'[i], Len(progress) + Len(incoming) + i)
  <2> SUFFICES ASSUME NEW i \in DOMAIN toParent'
               PROVE  Scripted(toParent'[i], Len(progress) + Len(incoming) + i)
    OBVIOUS
  <2>1. CASE i \in DOMAIN toParent
    <3>1. toParent'[i] = toParent[i]
      BY <1>2, <2>1
    <3> QED
      BY <2>1, <3>1 DEF ChannelInv, StartInv
  <2>2. CASE i = Len(toParent) + 1
    <3>1. Len(progress) + Len(incoming) + i = n + 1
      BY <1>1, <2>2
    <3> QED
      BY <1>2, <2>2, <3>1
  <2> QED
    BY <1>1, <1>2, <2>1, <2>2
<1>5. Len(progress') + Len(incoming') + Len(toParent') = n + 1
  BY <1>1, <1>2 DEF supervisor
<1>6. child' # "ended" => Said(Len(progress) + Len(incoming) + Len(toParent))'
  BY <1>5 DEF Said
<1>7. StartInv'
  BY <1>4, <1>6 DEF ChannelInv, StartInv, Scripted, Bad, supervisor
<1> QED
  BY <1>3, <1>7, Assemble

LEMMA StepsKeepChannel ==
    ChannelInv /\ Live /\ (ChildLoads \/ ChildBeginsWarmup \/ ChildEndsWarmup
                           \/ ChildClears \/ ChildAnnounces) => ChannelInv'
<1> SUFFICES ASSUME ChannelInv, Live,
                    ChildLoads \/ ChildBeginsWarmup \/ ChildEndsWarmup \/ ChildClears
                    \/ ChildAnnounces
             PROVE  ChannelInv'
  OBVIOUS
<1>1. PICK n : n = Len(progress) + Len(incoming) + Len(toParent)
  OBVIOUS
<1>2. n \in Nat
  BY <1>1, LiveWires
<1>3. child \in Starting
  BY DEF ChildLoads, ChildBeginsWarmup, ChildEndsWarmup, ChildClears, ChildAnnounces, Start,
         Starting
<1>4. parent = "starting" /\ Said(n)
  <2>1. parent = "starting"
    BY <1>3, StartingIsEarly
  <2> QED
    BY <1>1, <1>3, <2>1 DEF ChannelInv, StartInv, Starting
<1>5. UNCHANGED <<supervisor, incoming, outgoing, toChild, request>>
  BY DEF ChildLoads, ChildBeginsWarmup, ChildEndsWarmup, ChildClears, ChildAnnounces, Start,
         Outside
<1>6. ASSUME NEW k \in 1 .. 4, n + 1 = k, toParent' = Append(toParent, Stage(Stages[k])),
             child' \in Starting, Said(k)'
      PROVE  ChannelInv'
  <2>1. PICK m : m = Stage(Stages[k])
    OBVIOUS
  <2>2. m \in Message
    BY <2>1 DEF Message, Stage, StageNames
  <2>3. Scripted(m, n + 1)
    BY <1>6, <2>1 DEF Scripted
  <2>4. ChildInv' /\ child' \notin {"switching", "predicting"} /\ child # "ended"
    BY <1>3, <1>6 DEF ChildInv, Starting
  <2> QED
    BY <1>1, <1>2, <1>4, <1>5, <1>6, <2>1, <2>2, <2>3, <2>4, SaysKeepsChannel
<1>7. CASE ChildLoads
  <2>1. n = 0 /\ child' = "loaded" /\ toParent' = Append(toParent, Stage(Stages[1]))
    BY <1>4, <1>7 DEF ChildLoads, Start, Said, Send, Stages
  <2> QED
    BY <1>6, <2>1 DEF Starting, Said
<1>8. CASE ChildBeginsWarmup
  <2>1. n = 1 /\ child' = "warming" /\ toParent' = Append(toParent, Stage(Stages[2]))
    BY <1>4, <1>8 DEF ChildBeginsWarmup, Start, Said, Send, Stages
  <2> QED
    BY <1>6, <2>1 DEF Starting, Said
<1>9. CASE ChildEndsWarmup
  <2>1. n = 2 /\ child' = "clearing" /\ toParent' = Append(toParent, Stage(Stages[3]))
    BY <1>4, <1>9 DEF ChildEndsWarmup, AfterWarmup, Start, Said, Send, Stages
  <2> QED
    BY <1>6, <2>1 DEF Starting, Said
<1>10. CASE ChildClears
  <2>1. n = 3 /\ child' = "announcing" /\ toParent' = Append(toParent, Stage(Stages[4]))
    BY <1>4, <1>10 DEF ChildClears, Start, Said, Send, Stages
  <2> QED
    BY <1>6, <2>1 DEF Starting, Said
<1>11. CASE ChildAnnounces
  <2>1. PICK m \in Message : m = [kind |-> "ready"]
    BY DEF Message
  <2>2. n = 4 /\ child = "announcing" /\ child' = "serving" /\ toParent' = Append(toParent, m)
    BY <1>4, <1>11, <2>1 DEF ChildAnnounces, Start, Said, Send
  <2>3. Scripted(m, n + 1)
    BY <2>1, <2>2 DEF Scripted
  <2>4. ChildInv' /\ Said(n + 1)'
    BY <2>2 DEF ChildInv, Said
  <2> QED
    BY <1>1, <1>2, <1>4, <1>5, <2>2, <2>3, <2>4, SaysKeepsChannel
<1> QED
  BY <1>7, <1>8, <1>9, <1>10, <1>11
\* A child in start-up that fails or ends, and one that goes on warming up.
LEMMA EndsKeepsChannel ==
    ASSUME ChannelInv, Live, child' = "ended",
           UNCHANGED <<supervisor, incoming, outgoing, toParent, toChild, request>>
    PROVE  ChannelInv'
<1> USE DEF ChannelInv, supervisor
<1>1. ChildInv' /\ WireInv'
  BY LiveWires DEF ChildInv, WireInv
<1>2. Silent => Silent'
  BY DEF Silent, AllBad, Bad
<1>3. StartInv'
  BY DEF StartInv, Scripted, Bad
<1>4. IdleInv'
  BY <1>2 DEF IdleInv
<1>5. ASSUME parent = "executing" PROVE ExecInv'
  <2>1. PICK r \in current : current = {r} /\ (OnItsWayOut(r) \/ WithTheChild(r) \/ IsAnswered(r))
    BY <1>5 DEF ExecInv
  <2>2. CASE OnItsWayOut(r)
    BY <1>2, <2>1, <2>2 DEF OnItsWayOut, ExecInv, SameCall
  <2>3. CASE WithTheChild(r)
    BY <1>2, <2>1, <2>3 DEF WithTheChild, ExecInv, SameCall
  <2>4. CASE IsAnswered(r)
    <3>1. IsAnswered(r)'
      BY <2>4 DEF IsAnswered, OnlyAnswer, Answer, AllBad, Bad
    <3> QED
      BY <2>1, <3>1 DEF ExecInv
  <2> QED
    BY <2>1, <2>2, <2>3, <2>4
<1> QED
  BY <1>1, <1>3, <1>4, <1>5, Assemble

LEMMA WarmsUpKeepsChannel ==
    ASSUME ChannelInv, Live, NEW shape, ChildWarmsUp(shape)
    PROVE  ChannelInv'
<1>1. /\ child = "warming" /\ child' = child
      /\ UNCHANGED <<supervisor, incoming, outgoing, toParent, toChild, request>>
  BY DEF ChildWarmsUp, Start, Outside
<1>2. parent = "starting"
  BY <1>1, StartingIsEarly DEF Starting
<1>3. WireInv' /\ ChildInv'
  BY <1>1, LiveWires DEF ChannelInv, WireInv, ChildInv, supervisor
<1>4. StartInv'
  <2>1. UNCHANGED <<parent, progress, incoming, outgoing, toParent, toChild, request, child>>
    BY <1>1 DEF supervisor
  <2> QED
    BY <2>1 DEF ChannelInv, StartInv, Said, Scripted, Bad
<1> QED
  BY <1>1, <1>2, <1>3, <1>4, Assemble

LEMMA ReceivesKeepsChannel == ChannelInv /\ Live /\ ChildReceives => ChannelInv'
<1> SUFFICES ASSUME ChannelInv, Live, ChildReceives PROVE ChannelInv'
  OBVIOUS
<1> USE DEF ChannelInv
<1>1. /\ child = "serving" /\ toChild # <<>> /\ toChild' = Tail(toChild) /\ request' = {Head(toChild)}
      /\ child' \in {"predicting", "switching"}
      /\ UNCHANGED <<supervisor, incoming, outgoing, toParent>>
  BY DEF ChildReceives, Outside
<1>2. parent = "executing"
  BY <1>1 DEF Live, StartInv, IdleInv
<1>3. toChild \in Seq(Call)
  BY LiveWires
<1>4. /\ Head(toChild) = toChild[1] /\ Head(toChild) \in Call /\ toChild' \in Seq(Call)
      /\ Len(toChild) \in Nat \ {0} /\ Len(toChild') = Len(toChild) - 1
  BY <1>1, <1>3, Popped
<1>5. PICK r \in current : current = {r} /\ (OnItsWayOut(r) \/ WithTheChild(r) \/ IsAnswered(r))
  BY <1>2 DEF ExecInv
<1>6. outgoing = <<>> /\ Len(toChild) = 1 /\ SameCall(toChild[1], r) /\ Silent
  BY <1>1, <1>5 DEF OnItsWayOut, WithTheChild, IsAnswered
<1>7. toChild' = <<>>
  <2>1. Len(toChild') = 0
    BY <1>4, <1>6
  <2> QED
    BY <1>4, <2>1, Sized
<1>8. WithTheChild(r)'
  BY <1>1, <1>4, <1>6, <1>7 DEF WithTheChild, Silent, SameCall, AllBad, Bad
<1>9. ExecInv'
  BY <1>1, <1>5, <1>8 DEF ExecInv, supervisor
<1>10. ChildInv' /\ WireInv'
  BY <1>1, <1>4, LiveWires DEF ChildInv, WireInv, supervisor
<1> QED
  BY <1>1, <1>2, <1>9, <1>10, Assemble

LEMMA WorkingIsExecuting ==
    ChannelInv /\ Live /\ child \in {"switching", "predicting"} =>
        parent = "executing" /\ \E r \in current : current = {r} /\ WithTheChild(r)
  BY DEF ChannelInv, Live, StartInv, IdleInv, ExecInv, OnItsWayOut, IsAnswered

LEMMA ResetsKeepsChannel == ChannelInv /\ Live /\ ChildResets => ChannelInv'
<1> SUFFICES ASSUME ChannelInv, Live, ChildResets PROVE ChannelInv'
  OBVIOUS
<1>1. /\ child = "switching" /\ child' = "predicting"
      /\ UNCHANGED <<supervisor, incoming, outgoing, toParent, toChild, request>>
  BY DEF ChildResets, Outside, pipe
<1>2. PICK r \in current : parent = "executing" /\ current = {r} /\ WithTheChild(r)
  BY <1>1, WorkingIsExecuting
<1>3. WithTheChild(r)'
  BY <1>1, <1>2 DEF WithTheChild, Silent, SameCall, AllBad, Bad
<1>4. ExecInv'
  BY <1>1, <1>2, <1>3 DEF ExecInv, supervisor
<1>5. ChildInv' /\ WireInv'
  BY <1>1, LiveWires DEF ChannelInv, ChildInv, WireInv, supervisor
<1> QED
  BY <1>1, <1>2, <1>4, <1>5, Assemble

LEMMA PredictsKeepsChannel == ChannelInv /\ Live /\ ChildPredicts => ChannelInv'
<1> SUFFICES ASSUME ChannelInv, Live, ChildPredicts PROVE ChannelInv'
  OBVIOUS
<1>1. PICK q \in request : toParent' = Append(toParent, Answer(q))
  BY DEF ChildPredicts, Send
<1>2. /\ child = "predicting" /\ child' = "serving" /\ request' = {}
      /\ UNCHANGED <<supervisor, incoming, outgoing, toChild>>
  BY DEF ChildPredicts, Outside
<1>3. PICK r \in current : parent = "executing" /\ current = {r} /\ WithTheChild(r)
  BY <1>2, WorkingIsExecuting
<1>4. /\ incoming = <<>> /\ toParent = <<>> /\ outgoing = <<>> /\ toChild = <<>>
      /\ SameCall(q, r) /\ q \in Call
  BY <1>1, <1>2, <1>3, LiveWires DEF WithTheChild, Silent
<1>5. Answer(q) = Answer(r) /\ Answer(q) \in Message
  BY <1>4 DEF SameCall, Answer, Call, Message
<1>6. toParent' = <<Answer(r)>>
  BY <1>1, <1>4, <1>5
<1>7. IsAnswered(r)'
  BY <1>2, <1>4, <1>6 DEF IsAnswered, OnlyAnswer, Answer
<1>8. ExecInv'
  BY <1>2, <1>3, <1>7 DEF ExecInv, supervisor
<1>9. ChildInv'
  BY <1>2 DEF ChildInv
<1>10. WireInv'
  BY <1>2, <1>5, <1>6, LiveWires DEF ChannelInv, WireInv, supervisor
<1> QED
  BY <1>2, <1>3, <1>8, <1>9, <1>10, Assemble

LEMMA RaisesKeepsChannel == ChannelInv /\ Live /\ ChildRaises => ChannelInv'
<1> SUFFICES ASSUME ChannelInv, Live, ChildRaises PROVE ChannelInv'
  OBVIOUS
<1>0. PICK m \in Message : m = Failure
  BY DEF Message, Failure
<1>1. /\ child' = "ended" /\ child # "ended" /\ toParent' = Append(toParent, m)
      /\ UNCHANGED <<supervisor, incoming, outgoing, toChild, request>>
  BY <1>0 DEF ChildRaises, Outside, Send
<1>2. Bad(m) /\ ChildInv'
  BY <1>0, <1>1 DEF Bad, Failure, ChildInv
<1>3. CASE child \in Starting
  <2>1. PICK n : n = Len(progress) + Len(incoming) + Len(toParent)
    OBVIOUS
  <2>2. n \in Nat
    BY <2>1, LiveWires
  <2>3. Scripted(m, n + 1)
    BY <1>2 DEF Scripted
  <2> QED
    BY <1>1, <1>2, <1>3, <2>1, <2>2, <2>3, StartingIsEarly, SaysKeepsChannel
<1>4. CASE child \in {"switching", "predicting"}
  <2>1. PICK r \in current : parent = "executing" /\ current = {r} /\ WithTheChild(r)
    BY <1>4, WorkingIsExecuting
  <2>2. incoming \in Seq(Message) /\ toParent \in Seq(Message)
    BY LiveWires
  <2>3. toParent' \in Seq(Message)
    BY <1>1, <2>2, Pushed
  <2>4. AllBad(toParent')
    BY <1>1, <1>2, <2>1, <2>2, PushKeepsBad DEF WithTheChild, Silent
  <2>5. WithTheChild(r)'
    BY <1>1, <2>1, <2>4 DEF WithTheChild, Silent, SameCall, AllBad, Bad
  <2>6. ExecInv'
    BY <1>1, <2>1, <2>5 DEF ExecInv, supervisor
  <2>7. WireInv'
    BY <1>1, <2>3, LiveWires DEF ChannelInv, WireInv, supervisor
  <2> QED
    BY <1>2, <1>1, <2>1, <2>6, <2>7, Assemble
<1> QED
  BY <1>3, <1>4 DEF ChildRaises, Starting
----------------------------------------------------------------------------
(***************************************************************************)
(* All together.                                                           *)
(***************************************************************************)
LEMMA ChildMoves == ChildInv /\ (ChildRuns \/ ChildCrashes \/ Transport) => ChildInv'
  BY DEF ChildInv, ChildRuns, ChildCrashes, ChildLoads, ChildBeginsWarmup, ChildWarmsUp,
         ChildEndsWarmup, AfterWarmup, ChildClears, ChildAnnounces, ChildReceives, ChildResets,
         ChildPredicts, ChildRaises, Start, Transport, TransportForwards, TransportSends,
         TransportStops, TransportBreaks, process

LEMMA OthersFrame == ChildRuns \/ ChildCrashes \/ Transport => UNCHANGED supervisor
  BY DEF ChildRuns, ChildCrashes, ChildLoads, ChildBeginsWarmup, ChildWarmsUp,
         ChildEndsWarmup, ChildClears, ChildAnnounces, ChildReceives, ChildResets,
         ChildPredicts, ChildRaises, Start, Transport, TransportForwards, TransportSends,
         TransportStops, TransportBreaks, Outside

LEMMA ChannelStep ==
    ASSUME ChannelInv, [Next]_vars PROVE ChannelInv'
<1>1. CASE Parent \/ ParentGivesUp
  BY <1>1, SupervisorKeepsChannel
<1>2. ASSUME NEW key \in Key, NEW shape \in Shapes, ParentDispatches(key, shape)
      PROVE  ChannelInv'
  BY <1>2, DispatchKeepsChannel
<1>3. CASE UNCHANGED vars
  <2>1. UNCHANGED <<parent, current, dispatched, progress, incoming, outgoing, toChild, toParent,
                    request, child>>
    BY <1>3 DEF vars, supervisor, pipe, process
  <2>2. ChildInv' /\ ProgressInv' /\ WireInv'
    BY <2>1 DEF ChannelInv, ChildInv, ProgressInv, WireInv
  <2>3. StartInv'
    BY <2>1 DEF ChannelInv, StartInv, Said, Scripted, Bad
  <2>4. Silent => Silent'
    BY <2>1 DEF Silent, AllBad, Bad
  <2>5. IdleInv'
    BY <2>1, <2>4 DEF ChannelInv, IdleInv
  <2>6. ASSUME NEW r, OnItsWayOut(r) \/ WithTheChild(r) \/ IsAnswered(r)
        PROVE  (OnItsWayOut(r) \/ WithTheChild(r) \/ IsAnswered(r))'
    BY <2>1, <2>4, <2>6 DEF OnItsWayOut, WithTheChild, IsAnswered, OnlyAnswer, Answer, SameCall,
                            AllBad, Bad
  <2>7. ExecInv'
    BY <2>1, <2>6 DEF ChannelInv, ExecInv
  <2> QED
    BY <2>2, <2>3, <2>5, <2>7 DEF ChannelInv
<1>4. CASE ChildRuns \/ ChildCrashes \/ Transport
  <2>1. UNCHANGED supervisor /\ ChildInv'
    BY <1>4, ChildMoves, OthersFrame DEF ChannelInv
  <2>2. CASE ~Live
    BY <2>1, <2>2, OverKeepsChannel DEF supervisor, Facts, Live
  <2>3. CASE Live
    <3>1. CASE ChildCrashes
      BY <2>3, <3>1, EndsKeepsChannel DEF ChildCrashes, Outside, pipe
    <3>2. CASE Transport
      BY <2>3, <3>2, ForwardsKeepsChannel, SendsKeepsChannel, StopsIsOver, BreaksKeepsChannel
      DEF Transport
    <3>3. CASE ChildRuns
      BY <2>3, <3>3, StepsKeepChannel, WarmsUpKeepsChannel, ReceivesKeepsChannel,
         ResetsKeepsChannel, PredictsKeepsChannel, RaisesKeepsChannel DEF ChildRuns
    <3> QED
      BY <1>4, <3>1, <3>2, <3>3
  <2> QED
    BY <2>2, <2>3
<1> QED
  BY <1>1, <1>2, <1>3, <1>4 DEF Next
LEMMA AnswerIsHeard ==
    ASSUME ChannelInv, parent = "executing", NEW i \in DOMAIN incoming
    PROVE  Answers(incoming[i]) \/ Bad(incoming[i])
<1>1. PICK r \in current : OnItsWayOut(r) \/ WithTheChild(r) \/ IsAnswered(r)
  BY DEF ChannelInv, ExecInv
<1>2. i \in 1 .. Len(incoming) /\ Len(incoming) \in Nat
  BY LiveWires DEF Live
<1>3. CASE OnItsWayOut(r) \/ WithTheChild(r)
  BY <1>3 DEF OnItsWayOut, WithTheChild, Silent, AllBad
<1>4. CASE IsAnswered(r)
  <2>1. OnlyAnswer(incoming, r)
    BY <1>2, <1>4 DEF IsAnswered
  <2>2. i = 1 => Answers(incoming[i])
    BY <1>1, <2>1 DEF OnlyAnswer, Answers
  <2>3. i # 1 => Bad(incoming[i])
    BY <1>2, <2>1 DEF OnlyAnswer
  <2> QED
    BY <2>2, <2>3
<1> QED
  BY <1>1, <1>3, <1>4

(***************************************************************************)
(* No request goes out before the model was loaded, warmed up and reset,   *)
(* the supervisor hears of the stages in their order, and while a request  *)
(* executes it hears nothing but its answer and failures                   *)
(* (process.py:56-60, 92-107, 341-343; fluxvla_process.py:131-152).        *)
(***************************************************************************)
THEOREM HandshakeIsOrdered == Spec => []HandshakeInOrder
<1>1. Spec => []ChannelInv
  BY ChannelInit, ChannelStep, PTL DEF Spec
<1>2. ChannelInv => HandshakeInOrder
  <2> SUFFICES ASSUME ChannelInv PROVE HandshakeInOrder
    OBVIOUS
  <2>1. /\ progress \in Seq(StageNames) /\ Len(progress) <= 4
        /\ \A i \in DOMAIN progress : progress[i] = Stages[i]
        /\ parent \in {"idle", "executing"} => Len(progress) = 4
    BY DEF ChannelInv, ProgressInv
  <2>2. PICK n \in 0 .. 4 : n = Len(progress) /\ DOMAIN progress = 1 .. n
    <3>1. Len(progress) \in Nat /\ DOMAIN progress = 1 .. Len(progress)
      BY <2>1, Sized
    <3> QED
      BY <2>1, <3>1
  <2>3. progress = [i \in 1 .. n |-> Stages[i]]
    BY <2>1, <2>2
  <2>4. SubSeq(Stages, 1, n) = [i \in 1 .. n |-> Stages[i]]
    BY <2>2 DEF Stages
  <2>5. parent \in {"idle", "executing"} => progress = Stages
    BY <2>1, <2>2, <2>3 DEF Stages
  <2>6. parent = "executing" =>
            \A i \in DOMAIN incoming :
                Answers(incoming[i]) \/ incoming[i].kind \in {"failure", "transport_error"}
    BY AnswerIsHeard DEF Bad
  <2> QED
    BY <2>2, <2>3, <2>4, <2>5, <2>6 DEF HandshakeInOrder
<1> QED
  BY <1>1, <1>2, PTL
============================================================================
