----------------------- MODULE ThreadedBackendProofs -----------------------
(***************************************************************************)
(* What ThreadedBackend guarantees for every set of episodes and every     *)
(* bound.  One inductive invariant, IndInv, carries the safety properties  *)
(* and, at the end, the refinement of LatestOnlyBackend.                   *)
(***************************************************************************)
EXTENDS ThreadedBackend, TLAPS

(***************************************************************************)
(* The code compares generations; the properties speak of request ids.     *)
(* The two agree: work is of the current generation exactly when the       *)
(* caller has not invalidated its episode since it was submitted.          *)
(***************************************************************************)
Current(s) == s.generation = generations[s.episode]
Origin(s)  == [id |-> s.id, episode |-> s.episode, generation |-> s.generation]

GenerationInv ==
    /\ \A e \in Episodes : floor[e] <= nextRequestId
    /\ \A s \in queued \cup results : Current(s) /\ s.id >= floor[s.episode]
    /\ \A s \in queued : s.episode \in known
    /\ \A s \in running : /\ s.generation <= generations[s.episode]
                          /\ Current(s) <=> s.id >= floor[s.episode]
                          /\ s.episode \in known

(***************************************************************************)
(* Requests pass through the backend in the order of their ids.            *)
(***************************************************************************)
OrderInv ==
    /\ \A s \in issued : s.id < nextRequestId
    /\ \A s, t \in issued : s.id = t.id => s = t
    /\ queued \cup running \subseteq issued
    /\ \A r \in results \cup delivered : Origin(r) \in issued
    /\ \A r \in results \cup delivered, s \in running \cup queued : r.id < s.id
    /\ \A r \in running, s \in queued : r.id < s.id
    /\ \A i \in withdrawn : i < nextRequestId

(***************************************************************************)
(* While the code holds a key for the model, the model is as its last      *)
(* successful reset left it, except for calls of that key.                 *)
(***************************************************************************)
ModelInv ==
    /\ \A k \in activeEpisode : ~dirty /\ touched \subseteq {k}
    /\ pc = "inferring" => activeEpisode = {KeyOf(s) : s \in running}
    /\ pc \in {"dequeued", "inferring", "publishing"} <=> running # {}

IndInv == TypeOK /\ GenerationInv /\ OrderInv /\ ModelInv /\ OutcomeOnce /\ NoSilentLoss

----------------------------------------------------------------------------
(***************************************************************************)
(* Types.  The mailbox and the worker never hold more than one request.    *)
(***************************************************************************)
LEMMA TypeInit == Init => TypeOK
<1> SUFFICES ASSUME Init PROVE TypeOK
  OBVIOUS
<1>1. closed \in BOOLEAN /\ succeeded \in BOOLEAN /\ dirty \in BOOLEAN
  BY Zenon DEF Init
<1> QED
  BY <1>1 DEF Init, TypeOK, Submission, Result, Key

LEMMA TypeStep == TypeOK /\ [Next]_vars => TypeOK'
<1> SUFFICES ASSUME TypeOK, [Next]_vars PROVE TypeOK'
  OBVIOUS
<1> USE DEF TypeOK, Submission, Result, Key, control, dict, worker, model, history
<1>0. {KeyOf(s) : s \in running} \in SUBSET Key
  BY DEF KeyOf
<1>1. ASSUME NEW e \in Episodes, Reset(e) PROVE TypeOK'
  BY <1>1 DEF Reset, Bumped
<1>2. ASSUME NEW e \in Episodes, Submit(e) PROVE TypeOK'
  <2> DEFINE new == [id |-> nextRequestId, episode |-> e, generation |-> generations[e]]
  <2>1. new \in Submission
    OBVIOUS
  <2>2. queued' = {new} /\ issued' = issued \cup {new}
    BY <1>2 DEF Submit, Mailbox
  <2>3. withdrawn' \in SUBSET Nat
    BY <1>2 DEF Submit, Mailbox, Ids
  <2> HIDE DEF new
  <2> QED
    BY <1>2, <2>1, <2>2, <2>3 DEF Submit, Mailbox, Notify
<1>3. ASSUME NEW e \in Episodes, CancelEpisode(e) PROVE TypeOK'
  BY <1>3 DEF CancelEpisode, Bumped
<1>4. ASSUME NEW id \in Ids(queued), CancelQueued(id) PROVE TypeOK'
  BY <1>4 DEF CancelQueued, Ids
<1>5. CASE Poll
  BY <1>5 DEF Poll, AfterPoll
<1>6. CASE Close
  BY <1>6 DEF Close, Notify
<1>7. CASE WorkerWait \/ WorkerStop \/ WorkerDequeue
  BY <1>7 DEF WorkerWait, WorkerStop, WorkerDequeue
<1>8. CASE WorkerKeep \/ WorkerReset \/ WorkerResetFails
  <2>1. succeeded' \in BOOLEAN /\ dirty' \in BOOLEAN
    BY <1>8, Zenon DEF WorkerKeep, WorkerReset, WorkerResetFails,
              AfterException, KeyAfterException
  <2> QED
    BY <1>0, <1>8, <2>1 DEF WorkerKeep, WorkerReset, WorkerResetFails,
              AfterException, KeyAfterException
<1>9. CASE WorkerInfer \/ WorkerInferFails
  <2>1. succeeded' \in BOOLEAN /\ dirty' \in BOOLEAN
    BY <1>9, Zenon DEF WorkerInfer, WorkerInferFails, AfterException, KeyAfterException
  <2> QED
    BY <1>0, <1>9, <2>1 DEF WorkerInfer, WorkerInferFails, AfterException, KeyAfterException
<1>10. CASE WorkerPublish
  BY <1>10 DEF WorkerPublish, Publishable
<1>11. CASE UNCHANGED vars
  BY <1>11 DEF vars
<1> QED
  BY <1>1, <1>2, <1>3, <1>4, <1>5, <1>6, <1>7, <1>8, <1>9, <1>10, <1>11
  DEF Next, Control, Worker

(***************************************************************************)
(* The backend's state keeps its types, and the latest-only mailbox and    *)
(* the worker hold at most one request each.                               *)
(***************************************************************************)
THEOREM TypeCorrect == Spec => []TypeOK
  BY TypeInit, TypeStep, PTL DEF Spec

(***************************************************************************)
(* Requests stay in the order of their ids.                                *)
(***************************************************************************)
LEMMA OrderStep == TypeOK /\ OrderInv /\ [Next]_vars => OrderInv'
<1> SUFFICES ASSUME TypeOK, OrderInv, [Next]_vars PROVE OrderInv'
  OBVIOUS
<1> USE DEF TypeOK, Submission, Result, Key, control, dict, worker, model, history,
           OrderInv, Origin, Ids
<1>1. ASSUME NEW e \in Episodes, Reset(e) PROVE OrderInv'
  BY <1>1 DEF Reset, Bumped
<1>2. ASSUME NEW e \in Episodes, Submit(e) PROVE OrderInv'
  <2> DEFINE new == [id |-> nextRequestId, episode |-> e, generation |-> generations[e]]
  <2>1. new \in Submission /\ new.id = nextRequestId
    OBVIOUS
  <2>2. /\ queued' = {new} /\ issued' = issued \cup {new}
        /\ nextRequestId' = nextRequestId + 1
        /\ UNCHANGED <<running, results, delivered>>
    BY <1>2 DEF Submit, Mailbox
  <2>3. \A i \in withdrawn' : i < nextRequestId'
    <3>1. \A i \in Ids(queued) : i \in Nat /\ i < nextRequestId
      OBVIOUS
    <3>2. withdrawn' = withdrawn \cup Ids(queued) /\ nextRequestId' = nextRequestId + 1
      BY <1>2 DEF Submit, Mailbox
    <3>3. \A i \in withdrawn : i \in Nat /\ i < nextRequestId
      OBVIOUS
    <3>4. nextRequestId \in Nat
      OBVIOUS
    <3> SUFFICES ASSUME NEW i \in withdrawn' PROVE i < nextRequestId'
      OBVIOUS
    <3>5. CASE i \in withdrawn
      BY <3>2, <3>3, <3>4, <3>5
    <3>6. CASE i \in Ids(queued)
      <4>1. i \in Nat /\ i < nextRequestId
        BY <3>1, <3>6
      <4> QED
        BY <4>1, <3>2, <3>4
    <3> QED
      BY <3>2, <3>5, <3>6
  <2> HIDE DEF new
  <2>4. \A s \in issued : s.id < new.id /\ s \in Submission
    BY <2>1
  <2>5. \A r \in results \cup delivered : Origin(r) \in issued /\ Origin(r).id = r.id
    OBVIOUS
  <2>6. \A r \in results \cup delivered : r.id < new.id
    BY <2>4, <2>5
  <2>7. \A s \in issued' : s.id < nextRequestId'
    BY <2>1, <2>2, <2>4
  <2>8. \A s, t \in issued' : s.id = t.id => s = t
    BY <2>2, <2>4
  <2>9. \A r \in (results \cup delivered)', s \in (running \cup queued)' : r.id < s.id
    BY <2>2, <2>6
  <2>10. \A r \in running', s \in queued' : r.id < s.id
    BY <2>2, <2>4
  <2>11. (queued \cup running)' \subseteq issued'
    BY <2>2
  <2>12. \A r \in (results \cup delivered)' : Origin(r) \in issued'
    BY <2>2
  <2> QED
    BY <2>3, <2>7, <2>8, <2>9, <2>10, <2>11, <2>12
<1>3. ASSUME NEW e \in Episodes, CancelEpisode(e) PROVE OrderInv'
  BY <1>3 DEF CancelEpisode, Bumped
<1>4. ASSUME NEW id \in Ids(queued), CancelQueued(id) PROVE OrderInv'
  BY <1>4 DEF CancelQueued
<1>5. CASE Poll
  BY <1>5 DEF Poll, AfterPoll
<1>6. CASE Close
  BY <1>6 DEF Close
<1>7. CASE WorkerWait
  BY <1>7 DEF WorkerWait
<1>8. CASE WorkerStop
  BY <1>8 DEF WorkerStop
<1>9. CASE WorkerDequeue
  BY <1>9 DEF WorkerDequeue
<1>10. CASE WorkerKeep
  BY <1>10 DEF WorkerKeep
<1>11. CASE WorkerReset
  BY <1>11 DEF WorkerReset
<1>12. CASE WorkerResetFails
  BY <1>12 DEF WorkerResetFails, AfterException, KeyAfterException
<1>13. CASE WorkerInfer
  BY <1>13 DEF WorkerInfer
<1>14. CASE WorkerInferFails
  BY <1>14 DEF WorkerInferFails, AfterException, KeyAfterException
<1>15. CASE WorkerPublish
  BY <1>15 DEF WorkerPublish, Publishable
<1>16. CASE UNCHANGED vars
  BY <1>16 DEF vars
<1> QED
  BY <1>1, <1>2, <1>3, <1>4, <1>5, <1>6, <1>7, <1>8,
     <1>9, <1>10, <1>11, <1>12, <1>13, <1>14, <1>15, <1>16
  DEF Next, Control, Worker

(***************************************************************************)
(* Generations and floors keep agreeing.                                   *)
(***************************************************************************)
LEMMA GenerationStep == TypeOK /\ OrderInv /\ GenerationInv /\ [Next]_vars => GenerationInv'
<1> SUFFICES ASSUME TypeOK, OrderInv, GenerationInv, [Next]_vars PROVE GenerationInv'
  OBVIOUS
<1> USE DEF TypeOK, Submission, Result, Key, control, dict, worker, model, history,
           GenerationInv, Current, OrderInv, Ids
<1>1. ASSUME NEW e \in Episodes, Reset(e) PROVE GenerationInv'
  BY <1>1 DEF Reset, Bumped
<1>2. ASSUME NEW e \in Episodes, Submit(e) PROVE GenerationInv'
  BY <1>2 DEF Submit, Mailbox
<1>3. ASSUME NEW e \in Episodes, CancelEpisode(e) PROVE GenerationInv'
  BY <1>3 DEF CancelEpisode, Bumped
<1>4. ASSUME NEW id \in Ids(queued), CancelQueued(id) PROVE GenerationInv'
  BY <1>4 DEF CancelQueued
<1>5. CASE Poll
  BY <1>5 DEF Poll, AfterPoll
<1>6. CASE Close
  BY <1>6 DEF Close
<1>7. CASE WorkerWait
  BY <1>7 DEF WorkerWait
<1>8. CASE WorkerStop
  BY <1>8 DEF WorkerStop
<1>9. CASE WorkerDequeue
  BY <1>9 DEF WorkerDequeue
<1>10. CASE WorkerKeep
  BY <1>10 DEF WorkerKeep
<1>11. CASE WorkerReset
  BY <1>11 DEF WorkerReset
<1>12. CASE WorkerResetFails
  BY <1>12 DEF WorkerResetFails, AfterException, KeyAfterException
<1>13. CASE WorkerInfer
  BY <1>13 DEF WorkerInfer
<1>14. CASE WorkerInferFails
  BY <1>14 DEF WorkerInferFails, AfterException, KeyAfterException
<1>15. CASE WorkerPublish
  BY <1>15 DEF WorkerPublish, Publishable
<1>16. CASE UNCHANGED vars
  BY <1>16 DEF vars
<1> QED
  BY <1>1, <1>2, <1>3, <1>4, <1>5, <1>6, <1>7, <1>8,
     <1>9, <1>10, <1>11, <1>12, <1>13, <1>14, <1>15, <1>16
  DEF Next, Control, Worker

(***************************************************************************)
(* The recorded key keeps describing the model.                            *)
(***************************************************************************)
LEMMA ModelStep == TypeOK /\ ModelInv /\ [Next]_vars => ModelInv'
<1> SUFFICES ASSUME TypeOK, ModelInv, [Next]_vars PROVE ModelInv'
  OBVIOUS
<1> USE DEF TypeOK, Submission, Result, Key, control, dict, worker, model, history,
           ModelInv, KeyOf, Ids
<1>1. ASSUME NEW e \in Episodes, Reset(e) PROVE ModelInv'
  BY <1>1 DEF Reset, Bumped
<1>2. ASSUME NEW e \in Episodes, Submit(e) PROVE ModelInv'
  <2>1. /\ pc' = "inferring" <=> pc = "inferring"
        /\ pc' \in {"dequeued", "inferring", "publishing"}
             <=> pc \in {"dequeued", "inferring", "publishing"}
    BY <1>2 DEF Submit, Mailbox, Notify
  <2> QED
    BY <1>2, <2>1 DEF Submit, Mailbox
<1>3. ASSUME NEW e \in Episodes, CancelEpisode(e) PROVE ModelInv'
  BY <1>3 DEF CancelEpisode, Bumped
<1>4. ASSUME NEW id \in Ids(queued), CancelQueued(id) PROVE ModelInv'
  BY <1>4 DEF CancelQueued
<1>5. CASE Poll
  BY <1>5 DEF Poll, AfterPoll
<1>6. CASE Close
  <2>1. /\ pc' = "inferring" <=> pc = "inferring"
        /\ pc' \in {"dequeued", "inferring", "publishing"}
             <=> pc \in {"dequeued", "inferring", "publishing"}
    BY <1>6 DEF Close, Notify
  <2> QED
    BY <1>6, <2>1 DEF Close
<1>7. CASE WorkerWait
  BY <1>7 DEF WorkerWait
<1>8. CASE WorkerStop
  BY <1>8 DEF WorkerStop
<1>9. CASE WorkerDequeue
  BY <1>9 DEF WorkerDequeue
<1>10. CASE WorkerKeep
  BY <1>10 DEF WorkerKeep
<1>11. CASE WorkerReset
  BY <1>11 DEF WorkerReset
<1>12. CASE WorkerResetFails
  BY <1>12 DEF WorkerResetFails, AfterException, KeyAfterException
<1>13. CASE WorkerInfer
  BY <1>13 DEF WorkerInfer
<1>14. CASE WorkerInferFails
  BY <1>14 DEF WorkerInferFails, AfterException, KeyAfterException
<1>15. CASE WorkerPublish
  BY <1>15 DEF WorkerPublish, Publishable
<1>16. CASE UNCHANGED vars
  BY <1>16 DEF vars
<1> QED
  BY <1>1, <1>2, <1>3, <1>4, <1>5, <1>6, <1>7, <1>8,
     <1>9, <1>10, <1>11, <1>12, <1>13, <1>14, <1>15, <1>16
  DEF Next, Control, Worker

(***************************************************************************)
(* Outcomes stay unique: the worker answers after everything answered.     *)
(***************************************************************************)
LEMMA OnceStep ==
  TypeOK /\ OrderInv /\ OutcomeOnce /\ [Next]_vars => OutcomeOnce'
<1> SUFFICES ASSUME TypeOK, OrderInv, OutcomeOnce, [Next]_vars
             PROVE  OutcomeOnce'
  OBVIOUS
<1> USE DEF TypeOK, Submission, Result, Key, control, dict, worker, model, history,
           OrderInv, OutcomeOnce, Ids
<1>1. ASSUME NEW e \in Episodes, Reset(e) PROVE OutcomeOnce'
  BY <1>1 DEF Reset, Bumped
<1>2. ASSUME NEW e \in Episodes, Submit(e) PROVE OutcomeOnce'
  <2> DEFINE new == [id |-> nextRequestId, episode |-> e, generation |-> generations[e]]
  <2>1. new.id = nextRequestId
    OBVIOUS
  <2>2. /\ queued' = {new} /\ withdrawn' = withdrawn \cup Ids(queued)
        /\ UNCHANGED <<running, results, delivered>>
    BY <1>2 DEF Submit, Mailbox
  <2> HIDE DEF new
  <2>3. \A r \in results \cup delivered : Origin(r) \in issued /\ Origin(r).id = r.id
    BY DEF Origin
  <2>4. /\ \A i \in Ids(running \cup queued \cup results \cup delivered) : i < nextRequestId
        /\ \A i \in withdrawn : i < nextRequestId
    <3>1. \A s \in running \cup queued : s.id < nextRequestId
      OBVIOUS
    <3>2. \A r \in results \cup delivered : r.id < nextRequestId
      BY <2>3
    <3> QED
      BY <3>1, <3>2
  <2>5. Ids(queued) \cap Ids(running \cup results) = {}
    OBVIOUS
  <2>6. Ids(queued' \cup running) \cap Ids(results \cup delivered) = {}
    BY <2>1, <2>2, <2>4, SMTT(30)
  <2>7. Ids(queued' \cup running \cup results) \cap withdrawn' = {}
    BY <2>1, <2>2, <2>4, <2>5
  <2> QED
    BY <2>2, <2>6, <2>7
<1>3. ASSUME NEW e \in Episodes, CancelEpisode(e) PROVE OutcomeOnce'
  BY <1>3 DEF CancelEpisode, Bumped
<1>4. ASSUME NEW id \in Ids(queued), CancelQueued(id) PROVE OutcomeOnce'
  BY <1>4 DEF CancelQueued
<1>5. CASE Poll
  BY <1>5 DEF Poll, AfterPoll
<1>6. CASE Close
  BY <1>6 DEF Close
<1>7. CASE WorkerDequeue
  BY <1>7 DEF WorkerDequeue
<1>8. CASE WorkerPublish
  BY <1>8 DEF WorkerPublish, Publishable
<1>9. CASE \/ WorkerWait \/ WorkerStop \/ WorkerKeep \/ WorkerReset
          \/ WorkerResetFails \/ WorkerInfer \/ WorkerInferFails
  BY <1>9 DEF WorkerWait, WorkerStop, WorkerKeep, WorkerReset, WorkerResetFails,
              WorkerInfer, WorkerInferFails, AfterException, KeyAfterException
<1>10. CASE UNCHANGED vars
  BY <1>10 DEF vars
<1> QED
  BY <1>1, <1>2, <1>3, <1>4, <1>5, <1>6, <1>7, <1>8, <1>9, <1>10
  DEF Next, Control, Worker

(***************************************************************************)
(* A submission leaves the backend only in a way its caller can see.       *)
(***************************************************************************)
LEMMA LossStep ==
  TypeOK /\ OrderInv /\ GenerationInv /\ ModelInv /\ NoSilentLoss /\ [Next]_vars
  => NoSilentLoss'
<1> SUFFICES ASSUME TypeOK, OrderInv, GenerationInv, ModelInv, NoSilentLoss, [Next]_vars
             PROVE  NoSilentLoss'
  OBVIOUS
<1> USE DEF TypeOK, Submission, Result, Key, control, dict, worker, model, history,
           OrderInv, Origin, GenerationInv, Current, ModelInv, NoSilentLoss, Ids
<1>1. ASSUME NEW e \in Episodes, Reset(e) PROVE NoSilentLoss'
  BY <1>1 DEF Reset, Bumped
<1>2. ASSUME NEW e \in Episodes, Submit(e) PROVE NoSilentLoss'
  BY <1>2 DEF Submit, Mailbox
<1>3. ASSUME NEW e \in Episodes, CancelEpisode(e) PROVE NoSilentLoss'
  <2> SUFFICES ASSUME ~closed', NEW s \in issued',
                      s.id >= floor'[s.episode], s.id \notin withdrawn'
               PROVE  s.id \in Ids(queued \cup running \cup results \cup delivered)'
    OBVIOUS
  <2>1. s \in issued /\ s.id < nextRequestId /\ s.episode # e
    BY <1>3 DEF CancelEpisode
  <2>2. s.id \in Ids(queued \cup running \cup results \cup delivered)
    BY <1>3, <2>1 DEF CancelEpisode
  <2>3. PICK t \in queued \cup running \cup results \cup delivered : t.id = s.id
    BY <2>2
  <2>4. t.episode = s.episode
    <3>1. CASE t \in queued \cup running
      BY <3>1, <2>1, <2>3
    <3>2. CASE t \in results \cup delivered
      <4>1. Origin(t) \in issued /\ Origin(t).id = t.id /\ Origin(t).episode = t.episode
        BY <3>2
      <4> QED
        BY <4>1, <2>1, <2>3
    <3> QED
      BY <3>1, <3>2
  <2>5. t \in (queued \cup running \cup results \cup delivered)'
    BY <1>3, <2>1, <2>3, <2>4 DEF CancelEpisode
  <2> QED
    BY <2>3, <2>5
<1>4. ASSUME NEW id \in Ids(queued), CancelQueued(id) PROVE NoSilentLoss'
  BY <1>4 DEF CancelQueued
<1>5. CASE Poll
  BY <1>5 DEF Poll, AfterPoll
<1>6. CASE Close
  BY <1>6 DEF Close
<1>7. CASE WorkerDequeue
  BY <1>7 DEF WorkerDequeue
<1>8. CASE WorkerPublish
  <2> SUFFICES ASSUME ~closed', NEW s \in issued',
                      s.id >= floor'[s.episode], s.id \notin withdrawn'
               PROVE  s.id \in Ids(queued \cup running \cup results \cup delivered)'
    OBVIOUS
  <2>1. s \in issued /\ ~closed /\ s.id >= floor[s.episode]
    BY <1>8 DEF WorkerPublish
  <2>2. PICK t \in queued \cup running \cup results \cup delivered : t.id = s.id
    BY <1>8 DEF WorkerPublish
  <2>3. CASE t \in running
    <3>1. t = s /\ t.generation = generations[t.episode]
      BY <2>1, <2>2, <2>3
    <3> DEFINE r == [id |-> t.id, episode |-> t.episode, generation |-> t.generation,
                     ok |-> succeeded]
    <3>2. r \in results' /\ r.id = s.id
      BY <1>8, <2>1, <2>3, <3>1 DEF WorkerPublish, Publishable
    <3> QED
      BY <3>2
  <2>4. CASE t \in queued \cup results \cup delivered
    BY <1>8, <2>2, <2>4 DEF WorkerPublish
  <2> QED
    BY <2>2, <2>3, <2>4
<1>9. CASE \/ WorkerWait \/ WorkerStop \/ WorkerKeep \/ WorkerReset
          \/ WorkerResetFails \/ WorkerInfer \/ WorkerInferFails
  BY <1>9 DEF WorkerWait, WorkerStop, WorkerKeep, WorkerReset, WorkerResetFails,
              WorkerInfer, WorkerInferFails, AfterException, KeyAfterException
<1>10. CASE UNCHANGED vars
  BY <1>10 DEF vars
<1> QED
  BY <1>1, <1>2, <1>3, <1>4, <1>5, <1>6, <1>7, <1>8, <1>9, <1>10
  DEF Next, Control, Worker

----------------------------------------------------------------------------
LEMMA IndInvInit == Init => IndInv
<1> SUFFICES ASSUME Init PROVE IndInv
  OBVIOUS
<1>1. TypeOK
  BY TypeInit
<1>2. GenerationInv
  BY DEF Init, GenerationInv
<1>3. OrderInv /\ OutcomeOnce /\ NoSilentLoss
  BY DEF Init, OrderInv, OutcomeOnce, NoSilentLoss, Ids
<1>4. ModelInv
  BY DEF Init, ModelInv
<1> QED
  BY <1>1, <1>2, <1>3, <1>4 DEF IndInv

LEMMA IndInvStep == IndInv /\ [Next]_vars => IndInv'
  BY TypeStep, OrderStep, GenerationStep, ModelStep, OnceStep, LossStep DEF IndInv

LEMMA Invariance == Spec => []IndInv
  BY IndInvInit, IndInvStep, PTL DEF Spec

(***************************************************************************)
(* After reset() or cancel_episode() returned, poll() never returns an     *)
(* outcome of a submission made before it, however long its model call     *)
(* went on.                                                                *)
(***************************************************************************)
THEOREM NoStaleOutcomes == Spec => []NoStaleOutcome
<1>1. IndInv => NoStaleOutcome
  BY DEF IndInv, GenerationInv, NoStaleOutcome
<1> QED
  BY Invariance, <1>1, PTL

(***************************************************************************)
(* No submission disappears without the caller having been told.           *)
(***************************************************************************)
THEOREM NothingLost == Spec => []NoSilentLoss
<1>1. IndInv => NoSilentLoss
  BY DEF IndInv
<1> QED
  BY Invariance, <1>1, PTL

(***************************************************************************)
(* Every request has at most one outcome, returned at most once.           *)
(***************************************************************************)
THEOREM OutcomesUnique == Spec => []OutcomeOnce
<1>1. IndInv => OutcomeOnce
  BY DEF IndInv
<1> QED
  BY Invariance, <1>1, PTL

(***************************************************************************)
(* The model is never asked for actions on state that a failed call or     *)
(* another episode or generation left behind.                              *)
(***************************************************************************)
THEOREM ModelAlwaysClean == Spec => []CleanInference
<1>1. IndInv => CleanInference
  <2> SUFFICES ASSUME IndInv, pc = "inferring"
               PROVE  ~dirty /\ touched \subseteq {KeyOf(s) : s \in running}
    BY DEF CleanInference
  <2>1. activeEpisode = {KeyOf(s) : s \in running} /\ running # {}
    BY DEF IndInv, ModelInv
  <2>2. PICK s \in running : KeyOf(s) \in activeEpisode
    BY <2>1
  <2>3. ~dirty /\ touched \subseteq {KeyOf(s)}
    BY <2>2 DEF IndInv, ModelInv
  <2> QED
    BY <2>1, <2>2, <2>3
<1> QED
  BY Invariance, <1>1, PTL

----------------------------------------------------------------------------
(***************************************************************************)
(* The mapping leaves out a submission's generation and keeps its id.      *)
(***************************************************************************)
LEMMA IdsOfRequests == ASSUME NEW S PROVE Promise!Ids(Requests(S)) = Ids(S)
<1>1. ASSUME NEW s \in S PROVE s.id \in Promise!Ids(Requests(S))
  <2>1. [id |-> s.id, episode |-> s.episode] \in Requests(S)
    BY DEF Requests
  <2> QED
    BY <2>1 DEF Promise!Ids
<1>2. ASSUME NEW r \in Requests(S) PROVE r.id \in Ids(S)
  BY <1>2 DEF Requests, Ids
<1> QED
  BY <1>1, <1>2 DEF Promise!Ids, Ids

LEMMA OutcomesOfRequests ==
    ASSUME NEW S, NEW ok
    PROVE  Answers({[id |-> s.id, episode |-> s.episode,
                     generation |-> s.generation, ok |-> ok] : s \in S})
               = Promise!Outcome(Requests(S), ok)
<1> DEFINE A == {[id |-> s.id, episode |-> s.episode,
                  generation |-> s.generation, ok |-> ok] : s \in S}
           Plain(s) == [id |-> s.id, episode |-> s.episode, ok |-> ok]
<1>1. Answers(A) = {Plain(s) : s \in S}
  <2>1. ASSUME NEW s \in S PROVE Plain(s) \in Answers(A)
    <3>1. [id |-> s.id, episode |-> s.episode, generation |-> s.generation, ok |-> ok] \in A
      OBVIOUS
    <3> QED
      BY <3>1 DEF Answers
  <2>2. ASSUME NEW r \in Answers(A) PROVE r \in {Plain(s) : s \in S}
    BY <2>2 DEF Answers
  <2> QED
    BY <2>1, <2>2 DEF Answers
<1>2. Promise!Outcome(Requests(S), ok) = {Plain(s) : s \in S}
  <2>1. ASSUME NEW s \in S PROVE Plain(s) \in Promise!Outcome(Requests(S), ok)
    <3>1. [id |-> s.id, episode |-> s.episode] \in Requests(S)
      BY DEF Requests
    <3> QED
      BY <3>1 DEF Promise!Outcome
  <2>2. ASSUME NEW r \in Promise!Outcome(Requests(S), ok)
        PROVE  r \in {Plain(s) : s \in S}
    BY <2>2 DEF Promise!Outcome, Requests
  <2> QED
    BY <2>1, <2>2 DEF Promise!Outcome
<1> QED
  BY <1>1, <1>2

\* Neither the mailbox, the wanted work nor the outcomes are touched.
Unseen == UNCHANGED <<queued, running, results, generations, nextRequestId,
                      closed, withdrawn, delivered>>

LEMMA UnseenStutters == Unseen => UNCHANGED Promise!vars
  BY DEF Unseen, Promise!vars, Promise!pending, Promise!outcomes, Requests,
         Answers, Wanted

----------------------------------------------------------------------------
(***************************************************************************)
(* The control thread: what an invalidation leaves of the work that runs.  *)
(***************************************************************************)
LEMMA ResetMaps ==
    ASSUME IndInv, NEW e \in Episodes, Reset(e)
    PROVE  Promise!Reset
<1> USE DEF Reset, IndInv, worker, model
<1>1. ASSUME NEW s \in running PROVE s.generation # generations'[s.episode]
  BY <1>1 DEF GenerationInv, TypeOK, Submission, Bumped
<1>2. Wanted' = {}
  BY <1>1 DEF Wanted
<1> QED
  BY <1>2 DEF Promise!Reset, Requests, Answers

LEMMA SubmitMaps ==
    ASSUME IndInv, NEW e \in Episodes, Submit(e)
    PROVE  Promise!Submit(e)
<1> USE DEF Submit
<1>1. Wanted' = Wanted
  BY DEF Wanted
<1>2. Requests(queued') = {Promise!New(e)}
  BY DEF Mailbox, Requests, Promise!New
<1>3. Promise!Ids(Requests(queued)) = Ids(queued)
  BY IdsOfRequests
<1> QED
  BY <1>1, <1>2, <1>3 DEF Promise!Submit, Promise!outcomes, Requests, Answers

LEMMA PollMaps == ASSUME Poll PROVE Promise!Poll
  BY DEF Poll, AfterPoll, dict, worker, Promise!Poll, Promise!pending, Requests,
         Answers, Wanted

LEMMA CancelQueuedMaps ==
    ASSUME IndInv, NEW id \in Ids(queued), CancelQueued(id)
    PROVE  /\ id \in 0 .. nextRequestId - 1
           /\ Promise!Withdraw(id)
<1> USE DEF CancelQueued, IndInv, dict, worker
<1>1. PICK s \in queued : s.id = id
  BY DEF Ids
<1>2. queued = {s}
  BY <1>1 DEF TypeOK
<1>3. id \in 0 .. nextRequestId - 1
  BY <1>1 DEF TypeOK, OrderInv, Submission
<1>4. Wanted' = Wanted /\ \A r \in Wanted : r.id # id
  BY <1>1 DEF Wanted, OrderInv, TypeOK, Submission
<1>5. {r \in Requests(queued) : r.id # id} = {} /\ Requests(queued') = {}
  BY <1>1, <1>2 DEF Requests
<1>6. {r \in Requests(Wanted) : r.id # id} = Requests(Wanted)
  BY <1>4 DEF Requests
<1> QED
  BY <1>3, <1>4, <1>5, <1>6 DEF Promise!Withdraw, Promise!outcomes, Requests, Answers

LEMMA CancelEpisodeMaps ==
    ASSUME IndInv, NEW e \in Episodes, CancelEpisode(e)
    PROVE  Promise!CancelEpisode(e)
<1> USE DEF CancelEpisode, IndInv, worker, model
<1>1. ASSUME NEW s \in running
      PROVE  s.generation = generations'[s.episode] <=>
                 s.generation = generations[s.episode] /\ s.episode # e
  BY <1>1 DEF GenerationInv, TypeOK, Submission, Bumped
<1>2. Wanted' = {s \in Wanted : s.episode # e}
  BY <1>1 DEF Wanted
<1>3. Requests(Wanted') = {r \in Requests(Wanted) : r.episode # e}
  BY <1>2 DEF Requests
<1>4. Requests(queued') = {r \in Requests(queued) : r.episode # e}
  BY DEF Requests
<1>5. Answers(results') = {r \in Answers(results) : r.episode # e}
  BY DEF Answers
<1> QED
  BY <1>3, <1>4, <1>5 DEF Promise!CancelEpisode, Requests, Answers

LEMMA CloseMaps == ASSUME Close PROVE Promise!Close
  BY DEF Close, dict, history, Promise!Close, Requests, Answers, Wanted

----------------------------------------------------------------------------
(***************************************************************************)
(* The worker thread: it takes what waits, and publishes what it holds if  *)
(* that is still wanted.                                                   *)
(***************************************************************************)
LEMMA DequeueMaps ==
    ASSUME IndInv, WorkerDequeue
    PROVE  Promise!Take
<1> USE DEF WorkerDequeue, IndInv, dict, history, model
<1>1. running = {} /\ Wanted = {}
  BY DEF ModelInv, Wanted
<1>2. Wanted' = queued
  BY DEF Wanted, GenerationInv, Current
<1> QED
  BY <1>1, <1>2 DEF Promise!Take, Promise!outcomes, Requests, Answers

LEMMA PublishMaps ==
    ASSUME IndInv, WorkerPublish
    PROVE  \/ Promise!Succeed
           \/ \E S \in SUBSET Promise!Pending : Promise!Fail(S)
           \/ UNCHANGED Promise!vars
<1> USE DEF WorkerPublish, IndInv, dict, history, model
<1>1. Wanted' = {} /\ Publishable = Wanted
  BY DEF Wanted, Publishable
<1>2. Answers(results') = Answers(results) \cup Promise!Outcome(Requests(Wanted), succeeded)
  <2> DEFINE new == {[id |-> s.id, episode |-> s.episode, generation |-> s.generation,
                      ok |-> succeeded] : s \in Wanted}
  <2>1. results' = results \cup new
    BY <1>1
  <2>2. Answers(new) = Promise!Outcome(Requests(Wanted), succeeded)
    BY OutcomesOfRequests
  <2> HIDE DEF new
  <2> QED
    BY <2>1, <2>2 DEF Answers
<1>3. /\ Requests(queued') = Requests(queued) /\ Requests(Wanted') = {}
      /\ UNCHANGED <<Answers(delivered), withdrawn, nextRequestId, closed>>
  BY <1>1 DEF Requests, Answers
<1>4. CASE Wanted = {}
  <2>1. Requests(Wanted) = {} /\ Answers(results') = Answers(results)
    BY <1>2, <1>4 DEF Requests, Promise!Outcome
  <2> QED
    BY <1>3, <2>1 DEF Promise!vars, Promise!pending, Promise!outcomes
<1>5. CASE Wanted # {} /\ succeeded
  <2>1. Requests(Wanted) # {}
    BY <1>5 DEF Requests
  <2>2. succeeded = TRUE
    BY <1>5 DEF TypeOK
  <2> QED
    BY <1>2, <1>3, <2>1, <2>2 DEF Promise!Succeed
<1>6. CASE Wanted # {} /\ ~succeeded
  <2>1. Requests(Wanted) # {} /\ Requests(Wanted) \in SUBSET Promise!Pending
    BY <1>6 DEF Requests, Promise!Pending
  <2>2. succeeded = FALSE
    BY <1>6 DEF TypeOK
  <2>3. Requests(queued) \ Requests(Wanted) = Requests(queued)
    BY DEF Requests, Wanted, OrderInv, TypeOK, Submission
  <2>4. Promise!Fail(Requests(Wanted))
    BY <1>2, <1>3, <2>1, <2>2, <2>3 DEF Promise!Fail
  <2> QED
    BY <2>1, <2>4
<1> QED
  BY <1>4, <1>5, <1>6 DEF TypeOK

----------------------------------------------------------------------------
LEMMA PromiseInit == Init => Promise!Init
  BY DEF Init, Promise!Init, Requests, Answers, Wanted

(***************************************************************************)
(* Every step is a step of LatestOnlyBackend or leaves it alone.           *)
(***************************************************************************)
LEMMA PromiseStep == IndInv /\ [Next]_vars => [Promise!Next]_Promise!vars
<1> SUFFICES ASSUME IndInv, [Next]_vars PROVE [Promise!Next]_Promise!vars
  OBVIOUS
<1>1. ASSUME NEW e \in Episodes, Reset(e) \/ Submit(e) \/ CancelEpisode(e)
      PROVE  Promise!Next
  BY <1>1, ResetMaps, SubmitMaps, CancelEpisodeMaps DEF Promise!Next
<1>2. ASSUME NEW id \in Ids(queued), CancelQueued(id) PROVE Promise!Next
  BY <1>2, CancelQueuedMaps DEF Promise!Next
<1>3. CASE Poll \/ Close
  BY <1>3, PollMaps, CloseMaps DEF Promise!Next
<1>4. CASE WorkerDequeue
  BY <1>4, DequeueMaps DEF Promise!Next
<1>5. CASE WorkerPublish
  BY <1>5, PublishMaps DEF Promise!Next
<1>6. CASE WorkerWait \/ WorkerStop \/ WorkerKeep \/ WorkerReset
           \/ WorkerResetFails \/ WorkerInfer \/ WorkerInferFails
  <2>1. Unseen
    BY <1>6 DEF Unseen, WorkerWait, WorkerStop, WorkerKeep, WorkerReset,
         WorkerResetFails, WorkerInfer, WorkerInferFails, control, dict, worker,
         model, history
  <2> QED
    BY <2>1, UnseenStutters
<1>7. CASE UNCHANGED vars
  <2>1. Unseen
    BY <1>7 DEF Unseen, vars, control, dict, worker, model, history
  <2> QED
    BY <2>1, UnseenStutters
<1> QED
  BY <1>1, <1>2, <1>3, <1>4, <1>5, <1>6, <1>7 DEF Next, Control, Worker

(***************************************************************************)
(* The threaded backend is a latest-only backend: no outcome of what was   *)
(* replaced, cancelled, reset or closed, and none twice, in any number of  *)
(* requests and episodes.                                                  *)
(***************************************************************************)
THEOREM ThreadedImplementsLatestOnly == Spec => ImplementsLatestOnly
  BY Invariance, PromiseInit, PromiseStep, PTL DEF Spec, ImplementsLatestOnly, Promise!Spec
============================================================================
