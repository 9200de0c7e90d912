------------------------ MODULE ProcessBackendProofs ------------------------
(***************************************************************************)
(* What ProcessBackend guarantees for every set of episodes, every restart *)
(* budget, every way _stop may end and every bound.  One inductive         *)
(* invariant, IndInv, carries the safety properties and the refinement.    *)
(***************************************************************************)
EXTENDS ProcessBackend, TLAPS

(***************************************************************************)
(* The supervisor never loses sight of a living process, and uses one only *)
(* in the epoch it was launched in.                                        *)
(***************************************************************************)
HandleInv ==
    /\ living \subseteq process
    /\ \A p, q \in process : p = q
    /\ pc \in {"starting", "dispatch", "executing", "publish"} =>
           process # {} /\ processEpoch = localEpoch
    /\ pc = "admit" /\ process # {} => processEpoch = localEpoch

(***************************************************************************)
(* One request, one answer: a process that can get the next request works  *)
(* on nothing and has sent nothing.                                        *)
(***************************************************************************)
Answered == {m \in inbox : m.kind = "result"}

ChannelInv ==
    /\ pc \in {"starting", "dispatch", "publish", "finally", "top", "admit"}
           /\ process # {} => serving = {} /\ Answered = {}
    /\ pc = "executing" =>
           /\ serving \cup {m.id : m \in Answered} \subseteq Ids(request)
           /\ Answered # {} => serving = {}
           /\ \A m, n \in Answered : m = n

(***************************************************************************)
(* What the supervisor holds, in its local variable and in _active.        *)
(***************************************************************************)
HoldInv ==
    /\ pc \in {"admit", "starting", "dispatch", "start_fault"} => request = {}
    /\ pc \in {"executing", "publish"} => request # {} /\ active = request
    /\ active \subseteq request
    /\ active # {} => pc \in {"executing", "publish", "record_fault", "stopping",
                              "finally", "finally_exit", "finally_fail"}

(***************************************************************************)
(* Requests have distinct ids, and one is waiting, held or answered under  *)
(* the episode it was submitted for.                                       *)
(***************************************************************************)
OrderInv ==
    /\ \A s \in issued : s.id < nextRequestId
    /\ \A s, t \in issued : s.id = t.id => s = t
    /\ queued \cup request \subseteq issued
    /\ queued \cap request = {}
    /\ \A r \in results \cup delivered :
           \E s \in issued : s.id = r.id /\ s.episode = r.episode

(***************************************************************************)
(* What waits was never answered.                                          *)
(***************************************************************************)
AnswerInv == \A r \in queued : \A a \in results \cup delivered : r.id # a.id

(***************************************************************************)
(* The code compares epochs; the properties speak of ids: work is of an    *)
(* earlier epoch exactly when reset() came after its submission.           *)
(***************************************************************************)
EpochInv ==
    /\ localEpoch <= epoch
    /\ \A s \in issued : s.epoch <= epoch
    /\ \A s \in issued : s.epoch # epoch => s.id < resetFloor
    /\ \A r \in queued : r.epoch = epoch
    /\ \A r \in request : r.epoch = localEpoch
    /\ resetFloor <= nextRequestId
    /\ closed => queued = {}

(***************************************************************************)
(* One abort reason serves all requests in turn.  While it is set the held *)
(* request was itself given up, and while it is not, no cancellation has   *)
(* hit the active one.                                                     *)
(***************************************************************************)
GivenUp(r) == r.id \in expired \/ r.id < cancelFloor[r.episode]

AbortInv ==
    /\ \A e \in Episodes : cancelFloor[e] <= nextRequestId
    /\ \A r \in queued : r.id >= cancelFloor[r.episode]
    /\ abortReason = "none" => \A r \in active : r.id >= cancelFloor[r.episode]
    /\ pc \in {"executing", "publish", "record_fault"} /\ localEpoch = epoch
           /\ abortReason # "none" => \A r \in request : GivenUp(r)

(***************************************************************************)
(* On the way from an admitted request to its fault the budget is not yet  *)
(* spent, so it can be exceeded by one fault at most.                      *)
(***************************************************************************)
BudgetInv ==
    /\ ~exhausted => failures <= MaxRestarts
    /\ failures <= MaxRestarts + 1
    /\ pc \in {"admit", "starting", "dispatch", "executing", "publish",
               "start_fault", "record_fault"} => ~exhausted
    /\ exhausted /\ queued # {} => pc \in {"ended", "dead"}

IndInv == /\ TypeOK /\ HandleInv /\ ChannelInv /\ HoldInv /\ OrderInv
          /\ AnswerInv /\ EpochInv /\ AbortInv /\ BudgetInv /\ NoSilentLoss

----------------------------------------------------------------------------
(***************************************************************************)
(* Types.  The mailbox and the supervisor hold one request at most.        *)
(***************************************************************************)
LEMMA TypeInit == Init => TypeOK
<1> SUFFICES ASSUME Init PROVE TypeOK
  OBVIOUS
<1>1. closed \in BOOLEAN /\ exhausted \in BOOLEAN
  BY Zenon DEF Init
<1> QED
  BY <1>1 DEF Init, TypeOK, Request, Result

LEMMA OutcomeType ==
    ASSUME NEW S \in SUBSET Request, NEW ok \in BOOLEAN
    PROVE  Outcome(S, ok) \in SUBSET Result
  BY DEF Outcome, Request, Result

LEMMA TypeControl == TypeOK /\ Control => TypeOK'
<1> SUFFICES ASSUME TypeOK, Control PROVE TypeOK'
  OBVIOUS
<1> USE DEF TypeOK, mailbox, call, budget, identity, handle, childVars, supervisor,
            told, floors, history
<1>1. CASE Reset
  <2>1. exhausted' \in BOOLEAN
    BY <1>1, Zenon DEF Reset
  <2> QED
    BY <1>1, <2>1 DEF Reset
<1>2. ASSUME NEW e \in Episodes, NEW d \in Deadlines, Submit(e, d) PROVE TypeOK'
  <2> DEFINE new == [id |-> nextRequestId, episode |-> e, epoch |-> epoch, deadline |-> d]
  <2>1. new \in Request
    BY ProcessAssumption DEF Request
  <2>2. issued' = issued \cup {new} /\ withdrawn' = withdrawn \cup Ids(queued)
    BY <1>2 DEF Submit
  <2>3. queued' = queued \/ queued' = {new}
    BY <1>2 DEF Submit, Mailbox
  <2>4. results' = results \/ results' = results \cup Outcome({new}, FALSE)
    BY <1>2 DEF Submit
  <2>5. Outcome({new}, FALSE) \in SUBSET Result
    BY <2>1, OutcomeType
  <2>6. Ids(queued) \in SUBSET Nat
    BY DEF Ids, Request
  <2> HIDE DEF new
  <2>7. /\ queued' \in SUBSET Request /\ \A r, s \in queued' : r = s
        /\ issued' \in SUBSET Request
    BY <2>1, <2>2, <2>3
  <2>8. results' \in SUBSET Result /\ withdrawn' \in SUBSET Nat
    BY <2>2, <2>4, <2>5, <2>6
  <2>9. /\ nextRequestId' \in Nat
        /\ UNCHANGED <<call, budget, epoch, closed, supervisor, expired, delivered, floors>>
    BY <1>2 DEF Submit
  <2> QED
    BY <2>7, <2>8, <2>9
<1>3. CASE Poll
  BY <1>3 DEF Poll, AfterPoll
<1>4. ASSUME NEW id \in Ids(queued \cup active), CancelQueued(id) \/ ExpireRequest(id)
      PROVE  TypeOK'
  <2>1. id \in Nat
    BY DEF Ids, Request
  <2>2. /\ queued' = queued \/ queued' = {}
        /\ abortReason' \in {abortReason, "request_timeout"}
        /\ withdrawn' \in {withdrawn, withdrawn \cup {id}} /\ expired' \in {expired, expired \cup {id}}
    BY <1>4 DEF CancelQueued, ExpireRequest, ExpiryAbort
  <2>3. UNCHANGED <<results, active, budget, identity, supervisor, issued, delivered, floors>>
    BY <1>4 DEF CancelQueued, ExpireRequest
  <2>4. /\ queued' \in SUBSET Request /\ \A r, t \in queued' : r = t
        /\ abortReason' \in {"none", "episode_reset", "request_timeout", "episode_cancelled"}
        /\ withdrawn' \in SUBSET Nat /\ expired' \in SUBSET Nat
    BY <2>1, <2>2
  <2> QED
    BY <2>3, <2>4
<1>5. ASSUME NEW e \in Episodes, CancelEpisode(e) PROVE TypeOK'
  <2>1. /\ abortReason' \in {"none", "episode_reset", "request_timeout", "episode_cancelled"}
        /\ cancelFloor' \in [Episodes -> Nat]
    BY <1>5 DEF CancelEpisode, CancelAbort
  <2>2. queued' \in SUBSET Request /\ results' \in SUBSET Result
        /\ \A r, s \in queued' : r = s
    BY <1>5 DEF CancelEpisode
  <2>3. UNCHANGED <<active, budget, identity, supervisor, issued, told, resetFloor>>
    BY <1>5 DEF CancelEpisode
  <2> QED
    BY <2>1, <2>2, <2>3
<1>6. CASE Close
  <2>1. closed' \in BOOLEAN
    BY <1>6, Zenon DEF Close
  <2> QED
    BY <1>6, <2>1 DEF Close
<1> QED
  BY <1>1, <1>2, <1>3, <1>4, <1>5, <1>6 DEF Control

LEMMA TypeChild == TypeOK /\ Child => TypeOK'
<1> SUFFICES ASSUME TypeOK, Child PROVE TypeOK'
  OBVIOUS
<1> DEFINE Message == [kind : {"ready", "result", "failure"}, id : Nat \cup {-1}]
<1>a. /\ {[kind |-> "result", id |-> i] : i \in serving} \subseteq Message
      /\ [kind |-> "ready", id |-> -1] \in Message
      /\ [kind |-> "failure", id |-> -1] \in Message
  BY DEF TypeOK
<1>b. living \in SUBSET Nat /\ serving \in SUBSET Nat /\ inbox \in SUBSET Message
  BY DEF TypeOK
<1> HIDE DEF Message
<1>1. living' \in SUBSET Nat /\ serving' \in SUBSET Nat /\ inbox' \in SUBSET Message
  BY <1>a, <1>b DEF Child, ChildReady, ChildAnswer, ChildFails, ChildCrash
<1>2. UNCHANGED Parent
  BY DEF Child, ChildReady, ChildAnswer, ChildFails, ChildCrash
<1> QED
  BY <1>1, <1>2 DEF Message, TypeOK, Parent, mailbox, call, budget, identity, handle,
                    history, told, floors

LEMMA TypeSupervisor == TypeOK /\ Supervisor => TypeOK'
<1> SUFFICES ASSUME TypeOK, Supervisor PROVE TypeOK'
  OBVIOUS
<1> USE DEF TypeOK, mailbox, call, budget, identity, handle, childVars, told, floors,
            history, Steady, Goto
<1>1. CASE SupTop \/ SupKeep \/ SupFault \/ SupReceive \/ SupDispatchNothing \/ SupEnd
  <2>1. CASE SupTop \/ SupKeep
    BY <2>1 DEF SupTop, SupKeep, Admitted
  <2>2. CASE SupFault \/ SupReceive
    BY <2>2 DEF SupFault, SupReceive
  <2>3. CASE SupDispatchNothing \/ SupEnd
    BY <2>3 DEF SupDispatchNothing, SupEnd, Dispatching
  <2> QED
    BY <1>1, <2>1, <2>2, <2>3
<1>2. CASE SupStart
  BY <1>2 DEF SupStart, Channel
<1>3. CASE SupStartFails
  BY <1>3 DEF SupStartFails
<1>4. CASE SupCancelled
  BY <1>4 DEF SupCancelled
<1>5. CASE SupDispatch
  <2>1. Ids(queued) \in SUBSET Nat
    BY DEF Ids, Request
  <2> QED
    BY <1>5, <2>1 DEF SupDispatch, DispatchAbort, Dispatching
<1>6. CASE SupDispatchExpired
  <2>1. ExpiredOutcome \in SUBSET Result
    BY OutcomeType DEF ExpiredOutcome
  <2>2. results' = results \cup ExpiredOutcome /\ pc' = "finally"
        /\ request' = queued /\ queued' = {} /\ UNCHANGED <<call, budget, Steady>>
    BY <1>6 DEF SupDispatchExpired
  <2> HIDE DEF ExpiredOutcome
  <2> QED
    BY <2>1, <2>2
<1>7. CASE SupPublish
  <2>1. Outcome(request, TRUE) \in SUBSET Result
    BY OutcomeType
  <2> QED
    BY <1>7, <2>1 DEF SupPublish
<1>8. CASE SupStartFault
  BY <1>8 DEF SupStartFault, Retired
<1>9. CASE SupRecordFault
  <2>1. Outcome(Failed \cup Refused(failures'), FALSE) \in SUBSET Result
    BY OutcomeType DEF Failed, Refused
  <2>2. exhausted' \in BOOLEAN
    BY <1>9, Zenon DEF SupRecordFault, OverBudget
  <2>3. results' \in SUBSET Result
    <3>1. \/ results' = results
          \/ results' = results \cup Outcome(Failed \cup Refused(failures'), FALSE)
      BY <1>9 DEF SupRecordFault
    <3> QED
      BY <2>1, <3>1
  <2>5. queued' \subseteq queued /\ failures' \in Nat
    <3>1. CASE localEpoch # epoch \/ closed
      BY <1>9, <3>1 DEF SupRecordFault
    <3>2. CASE ~(localEpoch # epoch \/ closed)
      BY <1>9, <3>2 DEF SupRecordFault, Refused
    <3> QED
      BY <3>1, <3>2
  <2>4. pc' = "stopping" /\ UNCHANGED <<call, request, Steady>>
    BY <1>9 DEF SupRecordFault
  <2> QED
    BY <2>2, <2>3, <2>4, <2>5
<1>10. ASSUME NEW o \in AllStopOutcomes, SupStop(o) \/ SupStopStale(o) \/ SupExit(o)
       PROVE  TypeOK'
  BY <1>10 DEF SupStop, SupStopStale, SupExit, Stop, AfterStop, Reaped
<1>11. CASE SupFinally
  BY <1>11 DEF SupFinally
<1>12. CASE SupFailing
  <2>1. Outcome({r \in active \cup queued : ~closed /\ r.epoch = epoch}, FALSE) \in SUBSET Result
    BY OutcomeType
  <2> QED
    BY <1>12, <2>1 DEF SupFailing
<1>13. CASE SupFailClosed
  <2>1. exhausted' \in BOOLEAN
    BY <1>13, Zenon DEF SupFailClosed
  <2> QED
    BY <1>13, <2>1 DEF SupFailClosed
<1> QED
  BY <1>1, <1>2, <1>3, <1>4, <1>5, <1>6, <1>7, <1>8, <1>9, <1>10, <1>11, <1>12, <1>13
  DEF Supervisor

LEMMA TypeStep == TypeOK /\ [Next]_vars => TypeOK'
<1>1. TypeOK /\ UNCHANGED vars => TypeOK'
  BY DEF TypeOK, vars, mailbox, call, budget, identity, handle, childVars, supervisor,
         told, floors, history
<1> QED
  BY <1>1, TypeControl, TypeChild, TypeSupervisor DEF Next

----------------------------------------------------------------------------
(***************************************************************************)
(* Who writes what: the control thread never touches what belongs to the   *)
(* supervisor, the child never more than its answers and its life.         *)
(***************************************************************************)
LEMMA ControlFrame ==
    Control => UNCHANGED <<pc, localEpoch, request, active, process, processEpoch,
                           generation, living, serving, inbox>>
  BY DEF Control, Reset, Submit, Poll, CancelQueued, ExpireRequest, CancelEpisode, Close,
         supervisor, handle, childVars, call

LEMMA ChildFrame ==
    Child => /\ UNCHANGED <<queued, results, active, abortReason, exhausted, failures,
                            epoch, nextRequestId, closed, pc, localEpoch, request,
                            process, processEpoch, generation, issued, withdrawn,
                            expired, delivered, resetFloor, cancelFloor>>
             /\ living' \subseteq living
  BY DEF Child, ChildReady, ChildAnswer, ChildFails, ChildCrash, Parent, mailbox, call,
         budget, identity, handle, history, told, floors

LEMMA SupervisorFrame ==
    Supervisor => UNCHANGED <<epoch, nextRequestId, closed, issued, withdrawn, expired,
                              delivered, resetFloor, cancelFloor>>
  BY DEF Supervisor, SupTop, SupKeep, SupStart, SupStartFails, SupCancelled, SupFault,
         SupReceive, SupDispatchNothing, SupDispatchExpired, SupDispatch, SupPublish,
         SupStartFault, SupRecordFault, SupStop, SupStopStale, SupExit, SupFinally,
         SupFailing, SupFailClosed, SupEnd, Stop, Goto, Steady, identity, history, told,
         floors

LEMMA StutterFrame ==
    UNCHANGED vars =>
        UNCHANGED <<queued, results, active, abortReason, exhausted, failures, epoch,
                    nextRequestId, closed, pc, localEpoch, request, process,
                    processEpoch, generation, living, serving, inbox, issued,
                    withdrawn, expired, delivered, resetFloor, cancelFloor>>
  BY DEF vars, mailbox, call, budget, identity, supervisor, handle, childVars, history,
         told, floors

(***************************************************************************)
(* _record_fault either does nothing, for an epoch that is over, or counts *)
(* the fault.                                                              *)
(***************************************************************************)
LEMMA RecordFaultCases ==
    ASSUME SupRecordFault
    PROVE  /\ pc = "record_fault" /\ pc' = "stopping"
           /\ UNCHANGED <<active, abortReason, request, localEpoch, process, processEpoch,
                          generation, living, serving, inbox>>
           /\ \/ /\ localEpoch # epoch \/ closed
                 /\ UNCHANGED <<queued, results, exhausted, failures>>
              \/ /\ localEpoch = epoch /\ ~closed
                 /\ failures' = failures + 1
                 /\ exhausted' = (exhausted \/ OverBudget(failures'))
                 /\ queued' = queued \ Refused(failures')
                 /\ results' = results \cup Outcome(Failed \cup Refused(failures'), FALSE)
<1>1. CASE localEpoch # epoch \/ closed
  BY <1>1 DEF SupRecordFault, mailbox, budget, call, Steady, handle, childVars
<1>2. CASE ~(localEpoch # epoch \/ closed)
  BY <1>2 DEF SupRecordFault, call, Steady, handle, childVars
<1> QED
  BY <1>1, <1>2

----------------------------------------------------------------------------
(***************************************************************************)
(* Processes: none is launched while another may live.                     *)
(***************************************************************************)
LEMMA HandleInit == Init => HandleInv
  BY DEF Init, HandleInv

LEMMA HandleStep == TypeOK /\ HandleInv /\ [Next]_vars => HandleInv'
<1> SUFFICES ASSUME TypeOK, HandleInv, [Next]_vars PROVE HandleInv'
  OBVIOUS
<1> USE DEF HandleInv, Steady, Goto, handle, childVars
<1>1. CASE Control \/ UNCHANGED vars
  BY <1>1, ControlFrame, StutterFrame
<1>2. CASE Child
  BY <1>2, ChildFrame
<1>3. CASE SupTop
  BY <1>3 DEF SupTop, Stale
<1>4. CASE SupKeep \/ SupStart \/ SupStartFails
  BY <1>4 DEF SupKeep, SupStart, SupStartFails, Admitted
<1>5. CASE SupCancelled \/ SupFault \/ SupReceive
  BY <1>5 DEF SupCancelled, SupFault, SupReceive, Expected
<1>6. CASE SupDispatchNothing \/ SupDispatchExpired \/ SupDispatch \/ SupPublish
  BY <1>6 DEF SupDispatchNothing, SupDispatchExpired, SupDispatch, SupPublish, Dispatching
<1>7. CASE SupStartFault \/ SupFinally \/ SupFailing \/ SupFailClosed \/ SupEnd
  BY <1>7 DEF SupStartFault, SupFinally, SupFailing, SupFailClosed, SupEnd
<1>8. CASE SupRecordFault
  BY <1>8, RecordFaultCases
<1>9. ASSUME NEW o \in AllStopOutcomes, SupStop(o) \/ SupStopStale(o) \/ SupExit(o)
      PROVE  HandleInv'
  BY <1>9 DEF SupStop, SupStopStale, SupExit, Stop, AfterStop, Reaped
<1> QED
  BY <1>1, <1>2, <1>3, <1>4, <1>5, <1>6, <1>7, <1>8, <1>9 DEF Next, Supervisor

----------------------------------------------------------------------------
(***************************************************************************)
(* What the supervisor holds.                                              *)
(***************************************************************************)
LEMMA HoldInit == Init => HoldInv
  BY DEF Init, HoldInv

LEMMA HoldStep == TypeOK /\ HoldInv /\ [Next]_vars => HoldInv'
<1> SUFFICES ASSUME TypeOK, HoldInv, [Next]_vars PROVE HoldInv'
  OBVIOUS
<1> USE DEF HoldInv, Steady, Goto, call
<1>1. CASE Control \/ UNCHANGED vars
  BY <1>1, ControlFrame, StutterFrame
<1>2. CASE Child
  BY <1>2, ChildFrame
<1>3. CASE SupTop \/ SupKeep \/ SupStart \/ SupStartFails
  BY <1>3 DEF SupTop, SupKeep, SupStart, SupStartFails, Admitted
<1>4. CASE SupCancelled
  <2>1. pc \in {"starting", "dispatch"} => pc' = "stopping"
    BY <1>4 DEF SupCancelled, CancelReason
  <2> QED
    BY <1>4, <2>1 DEF SupCancelled
<1>5. CASE SupFault \/ SupReceive
  BY <1>5 DEF SupFault, SupReceive, Expected
<1>6. CASE SupDispatchNothing \/ SupDispatchExpired \/ SupDispatch \/ SupPublish
  BY <1>6 DEF SupDispatchNothing, SupDispatchExpired, SupDispatch, SupPublish, Dispatching
<1>7. CASE SupStartFault \/ SupFinally \/ SupFailing \/ SupFailClosed \/ SupEnd
  BY <1>7 DEF SupStartFault, SupFinally, SupFailing, SupFailClosed, SupEnd
<1>8. CASE SupRecordFault
  BY <1>8, RecordFaultCases
<1>9. ASSUME NEW o \in AllStopOutcomes, SupStop(o) \/ SupStopStale(o) \/ SupExit(o)
      PROVE  HoldInv'
  BY <1>9 DEF SupStop, SupStopStale, SupExit, Stop, AfterStop
<1> QED
  BY <1>1, <1>2, <1>3, <1>4, <1>5, <1>6, <1>7, <1>8, <1>9 DEF Next, Supervisor

----------------------------------------------------------------------------
(***************************************************************************)
(* Ids: requests are numbered as they come, and nothing is answered that   *)
(* was not asked.                                                          *)
(***************************************************************************)
Origin(r) == \E s \in issued : s.id = r.id /\ s.episode = r.episode

LEMMA OutcomesHaveOrigin ==
    ASSUME NEW S \in SUBSET issued, NEW ok, NEW r \in Outcome(S, ok)
    PROVE  Origin(r)
  BY DEF Outcome, Origin

LEMMA OrderInit == Init => OrderInv
  BY DEF Init, OrderInv

LEMMA OrderStep == TypeOK /\ HoldInv /\ OrderInv /\ [Next]_vars => OrderInv'
<1> SUFFICES ASSUME TypeOK, HoldInv, OrderInv, [Next]_vars PROVE OrderInv'
  OBVIOUS
<1> USE DEF Steady, Goto, call, mailbox, budget, identity, handle, childVars, supervisor,
            told, floors, history
<1>0. \A r \in results \cup delivered : Origin(r)
  BY DEF OrderInv, Origin
<1>a. ASSUME UNCHANGED <<issued, nextRequestId>>, \A r \in results' \cup delivered' : Origin(r),
             queued' \cup request' \subseteq issued, queued' \cap request' = {}
      PROVE  OrderInv'
  BY <1>a DEF OrderInv, Origin
<1>b. ASSUME UNCHANGED <<issued, nextRequestId, delivered, request>>,
             queued' \subseteq queued, results' \subseteq results
      PROVE  OrderInv'
  BY <1>0, <1>a, <1>b DEF OrderInv
<1>1. CASE Reset \/ Close \/ UNCHANGED vars
  BY <1>1, <1>b DEF Reset, Close, vars
<1>2. ASSUME NEW e \in Episodes, NEW d \in Deadlines, Submit(e, d) PROVE OrderInv'
  <2> DEFINE new == [id |-> nextRequestId, episode |-> e, epoch |-> epoch, deadline |-> d]
  <2>1. /\ issued' = issued \cup {new}
        /\ nextRequestId' = nextRequestId + 1
        /\ queued' \subseteq queued \cup {new}
        /\ results' \subseteq results \cup Outcome({new}, FALSE)
        /\ UNCHANGED <<request, delivered>>
    BY <1>2 DEF Submit, Mailbox
  <2>2. \A s \in issued : s.id < new.id
    BY DEF OrderInv
  <2>3. /\ \A s \in issued' : s.id < nextRequestId'
        /\ \A s, t \in issued' : s.id = t.id => s = t
    BY <2>1, <2>2 DEF OrderInv, TypeOK, Request
  <2>4. new \notin issued
    BY <2>2 DEF TypeOK, Request
  <2>5. queued' \cup request' \subseteq issued' /\ queued' \cap request' = {}
    BY <2>1, <2>4 DEF OrderInv
  <2>6. \A r \in results' \cup delivered' : \E s \in issued' : s.id = r.id /\ s.episode = r.episode
    BY <1>0, <2>1 DEF Origin, Outcome
  <2> QED
    BY <2>3, <2>5, <2>6 DEF OrderInv
<1>3. CASE Poll
  BY <1>0, <1>3, <1>a DEF Poll, AfterPoll, OrderInv
<1>4. ASSUME NEW id \in Ids(queued \cup active), CancelQueued(id) \/ ExpireRequest(id)
      PROVE  OrderInv'
  BY <1>4, <1>b DEF CancelQueued, ExpireRequest
<1>5. ASSUME NEW e \in Episodes, CancelEpisode(e) PROVE OrderInv'
  BY <1>5, <1>b DEF CancelEpisode
<1>6. CASE Child
  BY <1>6, <1>b, ChildFrame
<1>7. CASE SupTop
  BY <1>0, <1>7, <1>a DEF SupTop, OrderInv
<1>8. CASE SupKeep \/ SupStart \/ SupStartFails \/ SupCancelled \/ SupFault \/ SupReceive
           \/ SupDispatchNothing \/ SupFinally \/ SupFailClosed \/ SupEnd
  BY <1>8, <1>b DEF SupKeep, SupStart, SupStartFails, SupCancelled, SupFault, SupReceive,
       SupDispatchNothing, SupFinally, SupFailClosed, SupEnd
<1>9. CASE SupDispatchExpired \/ SupDispatch
  <2>1. /\ UNCHANGED <<issued, nextRequestId, delivered>>
        /\ queued' = {} /\ request' = queued
        /\ results' \subseteq results \cup Outcome(queued, FALSE)
    BY <1>9 DEF SupDispatchExpired, SupDispatch, ExpiredOutcome
  <2>2. queued \in SUBSET issued
    BY DEF OrderInv
  <2>3. \A r \in Outcome(queued, FALSE) : Origin(r)
    BY <2>2, OutcomesHaveOrigin
  <2> QED
    BY <1>0, <1>a, <2>1, <2>2, <2>3
<1>10. CASE SupPublish
  <2>1. /\ UNCHANGED <<issued, nextRequestId, delivered, queued, request>>
        /\ results' = results \cup Outcome(request, TRUE)
    BY <1>10 DEF SupPublish
  <2>2. request \in SUBSET issued
    BY DEF OrderInv
  <2>3. \A r \in Outcome(request, TRUE) : Origin(r)
    BY <2>2, OutcomesHaveOrigin
  <2> QED
    BY <1>0, <1>a, <2>1, <2>3 DEF OrderInv
<1>11. CASE SupStartFault
  <2>1. /\ UNCHANGED <<issued, nextRequestId, delivered, results>>
        /\ queued' \cup request' \subseteq queued /\ queued' \cap request' = {}
    BY <1>11 DEF SupStartFault, Retired
  <2> QED
    BY <1>0, <1>a, <2>1 DEF OrderInv
<1>12. CASE SupRecordFault
  <2>1. /\ UNCHANGED <<issued, nextRequestId, delivered>> /\ request' = request
        /\ queued' \subseteq queued
        /\ results' \subseteq results \cup Outcome(Failed \cup Refused(failures'), FALSE)
    BY <1>12, SupervisorFrame, RecordFaultCases DEF Supervisor
  <2>2. Failed \cup Refused(failures') \in SUBSET issued
    BY DEF OrderInv, Failed, Refused
  <2>3. \A r \in Outcome(Failed \cup Refused(failures'), FALSE) : Origin(r)
    BY <2>2, OutcomesHaveOrigin
  <2> QED
    BY <1>0, <1>a, <2>1, <2>3 DEF OrderInv
<1>13. ASSUME NEW o \in AllStopOutcomes, SupStop(o) \/ SupStopStale(o) \/ SupExit(o)
       PROVE  OrderInv'
  BY <1>13, <1>b DEF SupStop, SupStopStale, SupExit, Stop
<1>14. CASE SupFailing
  <2> DEFINE lost == {r \in active \cup queued : ~closed /\ r.epoch = epoch}
  <2>1. /\ UNCHANGED <<issued, nextRequestId, delivered>> /\ request' = request
        /\ queued' = {} /\ results' = results \cup Outcome(lost, FALSE)
    BY <1>14 DEF SupFailing
  <2>2. lost \in SUBSET issued
    BY DEF OrderInv, HoldInv
  <2>3. \A r \in Outcome(lost, FALSE) : Origin(r)
    BY <2>2, OutcomesHaveOrigin
  <2> QED
    BY <1>0, <1>a, <2>1, <2>3 DEF OrderInv
<1> QED
  BY <1>1, <1>2, <1>3, <1>4, <1>5, <1>6, <1>7, <1>8, <1>9, <1>10, <1>11, <1>12, <1>13, <1>14
  DEF Next, Control, Supervisor

LEMMA AnswerInit == Init => AnswerInv
  BY DEF Init, AnswerInv

LEMMA AnswerStep == TypeOK /\ OrderInv /\ AnswerInv /\ [Next]_vars => AnswerInv'
<1> SUFFICES ASSUME TypeOK, OrderInv, AnswerInv, [Next]_vars PROVE AnswerInv'
  OBVIOUS
<1> USE DEF Steady, Goto, call, mailbox, budget, identity, handle, childVars, supervisor,
            told, floors, history
<1>a. ASSUME queued' \subseteq queued, results' \cup delivered' \subseteq results \cup delivered
      PROVE  AnswerInv'
  BY <1>a DEF AnswerInv
<1>b. ASSUME queued' = {} PROVE AnswerInv'
  BY <1>b DEF AnswerInv
<1>c. ASSUME NEW S \in SUBSET request, NEW ok, queued' \subseteq queued,
             results' \cup delivered' \subseteq results \cup delivered \cup Outcome(S, ok)
      PROVE  AnswerInv'
  <2>1. \A r \in queued : \A s \in S : r.id # s.id
    BY <1>c DEF OrderInv
  <2>2. \A r \in queued : \A a \in Outcome(S, ok) : r.id # a.id
    BY <2>1 DEF Outcome
  <2> QED
    BY <1>c, <2>2 DEF AnswerInv
<1>1. CASE Reset \/ Close \/ Poll \/ UNCHANGED vars
  BY <1>1, <1>a DEF Reset, Close, Poll, AfterPoll, vars
<1>2. ASSUME NEW e \in Episodes, NEW d \in Deadlines, Submit(e, d) PROVE AnswerInv'
  <2> DEFINE new == [id |-> nextRequestId, episode |-> e, epoch |-> epoch, deadline |-> d]
  <2>1. /\ delivered' = delivered
        /\ \/ queued' = queued /\ results' = results \cup Outcome({new}, FALSE)
           \/ queued' = {new} /\ results' = results
    BY <1>2 DEF Submit, Mailbox
  <2>2. \A s \in issued : s.id # nextRequestId
    BY DEF OrderInv, TypeOK, Request
  <2>3. /\ \A r \in queued : r.id # nextRequestId
        /\ \A a \in results \cup delivered : a.id # nextRequestId
    BY <2>2 DEF OrderInv
  <2>4. new.id = nextRequestId /\ \A a \in Outcome({new}, FALSE) : a.id = nextRequestId
    BY DEF Outcome
  <2>5. CASE queued' = queued /\ results' = results \cup Outcome({new}, FALSE)
    BY <2>1, <2>3, <2>4, <2>5 DEF AnswerInv
  <2>6. CASE queued' = {new} /\ results' = results
    <3> HIDE DEF new
    <3> QED
      BY <2>1, <2>3, <2>4, <2>6 DEF AnswerInv
  <2> QED
    BY <2>1, <2>5, <2>6
<1>3. ASSUME NEW id \in Ids(queued \cup active), CancelQueued(id) \/ ExpireRequest(id)
      PROVE  AnswerInv'
  BY <1>3, <1>a DEF CancelQueued, ExpireRequest
<1>4. ASSUME NEW e \in Episodes, CancelEpisode(e) PROVE AnswerInv'
  BY <1>4, <1>a DEF CancelEpisode
<1>5. CASE Child
  BY <1>5, <1>a, ChildFrame
<1>6. CASE SupTop \/ SupKeep \/ SupStart \/ SupStartFails \/ SupCancelled \/ SupFault
           \/ SupReceive \/ SupDispatchNothing \/ SupFinally \/ SupFailClosed \/ SupEnd
  BY <1>6, <1>a DEF SupTop, SupKeep, SupStart, SupStartFails, SupCancelled, SupFault,
       SupReceive, SupDispatchNothing, SupFinally, SupFailClosed, SupEnd
<1>7. CASE SupDispatchExpired \/ SupDispatch \/ SupFailing
  BY <1>7, <1>b DEF SupDispatchExpired, SupDispatch, SupFailing
<1>8. CASE SupPublish
  BY <1>8, <1>c DEF SupPublish
<1>9. CASE SupStartFault
  BY <1>9, <1>a DEF SupStartFault
<1>10. CASE SupRecordFault
  <2>1. CASE UNCHANGED <<queued, results, delivered>>
    BY <2>1, <1>a
  <2>2. CASE /\ queued' = queued \ Refused(failures') /\ delivered' = delivered
             /\ results' = results \cup Outcome(Failed \cup Refused(failures'), FALSE)
    <3>1. CASE Refused(failures') = {}
      <4>1. Failed \in SUBSET request /\ Failed \cup Refused(failures') = Failed
        BY <3>1 DEF Failed
      <4> QED
        BY <2>2, <3>1, <4>1, <1>c
    <3>2. CASE Refused(failures') = queued
      BY <2>2, <3>2, <1>b
    <3> QED
      BY <3>1, <3>2 DEF Refused
  <2> QED
    BY <1>10, <2>1, <2>2, SupervisorFrame, RecordFaultCases DEF Supervisor
<1>11. ASSUME NEW o \in AllStopOutcomes, SupStop(o) \/ SupStopStale(o) \/ SupExit(o)
       PROVE  AnswerInv'
  BY <1>11, <1>a DEF SupStop, SupStopStale, SupExit, Stop
<1> QED
  BY <1>1, <1>2, <1>3, <1>4, <1>5, <1>6, <1>7, <1>8, <1>9, <1>10, <1>11
  DEF Next, Control, Supervisor

----------------------------------------------------------------------------
(***************************************************************************)
(* Epochs.                                                                 *)
(***************************************************************************)
LEMMA EpochInit == Init => EpochInv
  BY DEF Init, EpochInv

LEMMA EpochStep == TypeOK /\ OrderInv /\ EpochInv /\ [Next]_vars => EpochInv'
<1> SUFFICES ASSUME TypeOK, OrderInv, EpochInv, [Next]_vars PROVE EpochInv'
  OBVIOUS
<1> USE DEF Steady, Goto, call, mailbox, budget, identity, handle, childVars, supervisor,
            told, floors, history
<1>a. ASSUME UNCHANGED <<epoch, issued, resetFloor, nextRequestId, localEpoch, request>>,
             queued' \subseteq queued, closed' => queued' = {}
      PROVE  EpochInv'
  BY <1>a DEF EpochInv
<1>b. ASSUME UNCHANGED <<epoch, issued, resetFloor, nextRequestId, localEpoch, request, closed>>,
             queued' \subseteq queued
      PROVE  EpochInv'
  BY <1>b DEF EpochInv
<1>1. CASE Reset
  <2>1. /\ epoch' = epoch + 1 /\ resetFloor' = nextRequestId /\ queued' = {}
        /\ UNCHANGED <<issued, nextRequestId, localEpoch, request>>
    BY <1>1 DEF Reset
  <2>2. \A s \in issued : s.epoch <= epoch' /\ s.epoch # epoch' /\ s.id < resetFloor'
    BY <2>1 DEF EpochInv, OrderInv, TypeOK, Request
  <2>3. localEpoch' <= epoch' /\ resetFloor' <= nextRequestId'
    BY <2>1 DEF EpochInv, TypeOK
  <2> QED
    BY <2>1, <2>2, <2>3 DEF EpochInv
<1>2. ASSUME NEW e \in Episodes, NEW d \in Deadlines, Submit(e, d) PROVE EpochInv'
  <2> DEFINE new == [id |-> nextRequestId, episode |-> e, epoch |-> epoch, deadline |-> d]
  <2>1. /\ issued' = issued \cup {new}
        /\ nextRequestId' = nextRequestId + 1
        /\ queued' \subseteq queued \cup {new}
        /\ ~closed
        /\ UNCHANGED <<epoch, resetFloor, localEpoch, request, closed>>
    BY <1>2 DEF Submit, Mailbox
  <2>2. new.epoch = epoch
    OBVIOUS
  <2>3. \A s \in issued' : s.epoch <= epoch' /\ (s.epoch # epoch' => s.id < resetFloor')
    BY <2>1, <2>2 DEF EpochInv, TypeOK
  <2>4. resetFloor' <= nextRequestId'
    BY <2>1 DEF EpochInv, TypeOK
  <2>5. \A r \in queued' : r.epoch = epoch'
    BY <2>1, <2>2 DEF EpochInv
  <2> QED
    BY <2>1, <2>3, <2>4, <2>5 DEF EpochInv
<1>3. CASE Poll \/ UNCHANGED vars
  BY <1>3, <1>b DEF Poll, vars
<1>4. ASSUME NEW id \in Ids(queued \cup active), CancelQueued(id) \/ ExpireRequest(id)
      PROVE  EpochInv'
  BY <1>4, <1>b DEF CancelQueued, ExpireRequest
<1>5. ASSUME NEW e \in Episodes, CancelEpisode(e) PROVE EpochInv'
  BY <1>5, <1>b DEF CancelEpisode
<1>6. CASE Close
  BY <1>6, <1>a DEF Close
<1>7. CASE Child
  BY <1>7, <1>b, ChildFrame
<1>8. CASE SupTop
  BY <1>8 DEF SupTop, EpochInv, TypeOK
<1>9. CASE SupKeep \/ SupStart \/ SupStartFails \/ SupCancelled \/ SupFault \/ SupReceive
           \/ SupDispatchNothing \/ SupPublish \/ SupFinally \/ SupFailing \/ SupFailClosed
           \/ SupEnd
  BY <1>9, <1>b DEF SupKeep, SupStart, SupStartFails, SupCancelled, SupFault, SupReceive,
       SupDispatchNothing, SupPublish, SupFinally, SupFailing, SupFailClosed, SupEnd
<1>10. CASE SupDispatchExpired \/ SupDispatch
  <2>1. localEpoch = epoch
    BY <1>10 DEF SupDispatchExpired, SupDispatch, Dispatching, CancelReason
  <2> QED
    BY <1>10, <2>1 DEF SupDispatchExpired, SupDispatch, EpochInv
<1>11. CASE SupStartFault
  BY <1>11 DEF SupStartFault, Retired, EpochInv
<1>12. CASE SupRecordFault
  BY <1>12, <1>b, SupervisorFrame, RecordFaultCases DEF Supervisor
<1>13. ASSUME NEW o \in AllStopOutcomes, SupStop(o) \/ SupStopStale(o) \/ SupExit(o)
       PROVE  EpochInv'
  BY <1>13, <1>b DEF SupStop, SupStopStale, SupExit, Stop
<1> QED
  BY <1>1, <1>2, <1>3, <1>4, <1>5, <1>6, <1>7, <1>8, <1>9, <1>10, <1>11, <1>12, <1>13
  DEF Next, Control, Supervisor

----------------------------------------------------------------------------
(***************************************************************************)
(* Aborts.                                                                 *)
(***************************************************************************)
LEMMA AbortInit == Init => AbortInv
  BY DEF Init, AbortInv

LEMMA AbortStep ==
    TypeOK /\ HoldInv /\ OrderInv /\ EpochInv /\ AbortInv /\ [Next]_vars => AbortInv'
<1> SUFFICES ASSUME TypeOK, HoldInv, OrderInv, EpochInv, AbortInv, [Next]_vars
             PROVE  AbortInv'
  OBVIOUS
<1> USE DEF Steady, Goto, call, mailbox, budget, identity, handle, childVars, supervisor,
            told, floors, history
<1> DEFINE Serving == {"executing", "publish", "record_fault"}
           Floors == <<expired, cancelFloor, nextRequestId>>
<1>a. ASSUME UNCHANGED Floors, UNCHANGED <<abortReason, request, localEpoch, epoch>>,
             queued' \subseteq queued, active' \subseteq active, pc' \in Serving => pc \in Serving
      PROVE  AbortInv'
  BY <1>a DEF AbortInv, GivenUp
<1>1. CASE Reset
  BY <1>1 DEF Reset, AbortInv, EpochInv, TypeOK
<1>2. ASSUME NEW e \in Episodes, NEW d \in Deadlines, Submit(e, d) PROVE AbortInv'
  <2> DEFINE new == [id |-> nextRequestId, episode |-> e, epoch |-> epoch, deadline |-> d]
  <2>1. /\ nextRequestId' = nextRequestId + 1
        /\ queued' \subseteq queued \cup {new}
        /\ UNCHANGED <<abortReason, active, request, pc, localEpoch, epoch, expired, cancelFloor>>
    BY <1>2 DEF Submit, Mailbox
  <2>2. \A f \in Episodes : cancelFloor[f] <= nextRequestId'
    BY <2>1 DEF AbortInv, TypeOK
  <2>3. \A r \in queued' : r.id >= cancelFloor[r.episode]
    BY <2>1 DEF AbortInv, TypeOK
  <2> QED
    BY <2>1, <2>2, <2>3 DEF AbortInv, GivenUp
<1>3. CASE Poll \/ Close \/ UNCHANGED vars
  BY <1>3, <1>a DEF Poll, Close, vars
<1>4. ASSUME NEW id \in Ids(queued \cup active), CancelQueued(id) PROVE AbortInv'
  BY <1>4, <1>a DEF CancelQueued
<1>5. ASSUME NEW id \in Ids(queued \cup active), ExpireRequest(id) PROVE AbortInv'
  <2>1. /\ expired' = expired \cup {id} /\ queued' \subseteq queued
        /\ UNCHANGED <<active, request, pc, localEpoch, epoch, cancelFloor, nextRequestId>>
        /\ \/ UNCHANGED abortReason
           \/ id \in Ids(active) /\ abortReason' = "request_timeout"
    BY <1>5 DEF ExpireRequest, ExpiryAbort
  <2>2. CASE UNCHANGED abortReason
    BY <2>1, <2>2 DEF AbortInv, GivenUp
  <2>3. CASE id \in Ids(active) /\ abortReason' = "request_timeout"
    <3>1. \A r \in request : r.id = id
      BY <2>3 DEF Ids, HoldInv, TypeOK
    <3> QED
      BY <2>1, <2>3, <3>1 DEF AbortInv, GivenUp
  <2> QED
    BY <2>1, <2>2, <2>3
<1>6. ASSUME NEW e \in Episodes, CancelEpisode(e) PROVE AbortInv'
  <2>1. /\ queued' = {r \in queued : r.episode # e}
        /\ abortReason' = CancelAbort(e)
        /\ cancelFloor' = [cancelFloor EXCEPT ![e] = nextRequestId]
        /\ UNCHANGED <<active, request, pc, localEpoch, epoch, expired, nextRequestId>>
    BY <1>6 DEF CancelEpisode
  <2>2. \A r \in queued \cup active \cup request : r.id < nextRequestId /\ r.id \in Nat
                                                   /\ r.episode \in Episodes
    BY DEF OrderInv, HoldInv, TypeOK, Request
  <2>3. \A f \in Episodes : /\ cancelFloor'[f] <= nextRequestId
                            /\ cancelFloor'[f] = IF f = e THEN nextRequestId ELSE cancelFloor[f]
    BY <2>1 DEF AbortInv, TypeOK
  <2>4. \A r \in queued' : r.id >= cancelFloor'[r.episode]
    BY <2>1, <2>2, <2>3 DEF AbortInv
  <2>5. CASE \E r \in active : r.episode = e
    <3>1. abortReason' = "episode_cancelled"
      BY <2>1, <2>5 DEF CancelAbort
    <3>2. \A r \in request : r.episode = e
      BY <2>5 DEF HoldInv, TypeOK
    <3>3. \A r \in request : GivenUp(r)'
      BY <2>1, <2>2, <2>3, <3>2 DEF GivenUp
    <3> QED
      BY <2>1, <2>3, <2>4, <3>1, <3>3 DEF AbortInv
  <2>6. CASE ~\E r \in active : r.episode = e
    <3>1. abortReason' = abortReason
      BY <2>1, <2>6 DEF CancelAbort
    <3>2. \A r \in request : GivenUp(r) => GivenUp(r)'
      BY <2>1, <2>2, <2>3 DEF GivenUp
    <3>3. \A r \in active : cancelFloor'[r.episode] = cancelFloor[r.episode]
      BY <2>2, <2>3, <2>6
    <3> QED
      BY <2>1, <2>3, <2>4, <3>1, <3>2, <3>3 DEF AbortInv
  <2> QED
    BY <2>5, <2>6
<1>7. CASE Child
  BY <1>7, <1>a, ChildFrame
<1>8. CASE SupTop
  BY <1>8 DEF SupTop, AbortInv
<1>9. CASE SupKeep \/ SupStart \/ SupStartFails \/ SupDispatchNothing \/ SupPublish
           \/ SupFailing \/ SupFailClosed \/ SupEnd
  BY <1>9, <1>a DEF SupKeep, SupStart, SupStartFails, SupDispatchNothing, SupPublish,
       SupFailing, SupFailClosed, SupEnd
<1>10. CASE SupCancelled \/ SupFault \/ SupReceive
  <2>1. pc' \in Serving => pc \in Serving \/ request = {}
    BY <1>10 DEF SupCancelled, SupFault, SupReceive, Expected, CancelReason, HoldInv
  <2>2. /\ UNCHANGED <<queued, active, abortReason, request, localEpoch, epoch>>
        /\ UNCHANGED <<expired, cancelFloor, nextRequestId>>
    BY <1>10 DEF SupCancelled, SupFault, SupReceive
  <2> QED
    BY <2>1, <2>2 DEF AbortInv, GivenUp
<1>11. CASE SupDispatchExpired
  BY <1>11 DEF SupDispatchExpired, AbortInv
<1>12. CASE SupDispatch
  BY <1>12 DEF SupDispatch, DispatchAbort, AbortInv
<1>13. CASE SupStartFault
  <2>1. active = {}
    BY <1>13 DEF SupStartFault, HoldInv
  <2> QED
    BY <1>13, <2>1 DEF SupStartFault, Retired, AbortInv
<1>14. CASE SupRecordFault
  BY <1>14, <1>a, SupervisorFrame, RecordFaultCases DEF Supervisor
<1>15. ASSUME NEW o \in AllStopOutcomes, SupStop(o) \/ SupStopStale(o) \/ SupExit(o)
       PROVE  AbortInv'
  BY <1>15, <1>a DEF SupStop, SupStopStale, SupExit, Stop, AfterStop
<1>16. CASE SupFinally
  BY <1>16 DEF SupFinally, AbortInv
<1> QED
  BY <1>1, <1>2, <1>3, <1>4, <1>5, <1>6, <1>7, <1>8, <1>9, <1>10, <1>11, <1>12, <1>13,
     <1>14, <1>15, <1>16 DEF Next, Control, Supervisor

----------------------------------------------------------------------------
(***************************************************************************)
(* The restart budget.                                                     *)
(***************************************************************************)
LEMMA BudgetInit == Init => BudgetInv
  BY ProcessAssumption DEF Init, BudgetInv

LEMMA BudgetStep == TypeOK /\ EpochInv /\ BudgetInv /\ [Next]_vars => BudgetInv'
<1> SUFFICES ASSUME TypeOK, EpochInv, BudgetInv, [Next]_vars PROVE BudgetInv'
  OBVIOUS
<1> USE DEF Steady, Goto, call, mailbox, budget, identity, handle, childVars, supervisor,
            told, floors, history
<1> DEFINE Spending == {"admit", "starting", "dispatch", "executing", "publish",
                        "start_fault", "record_fault"}
<1>a. ASSUME UNCHANGED <<exhausted, failures>>, queued' \subseteq queued,
             pc' \in Spending => pc \in Spending, pc \in {"ended", "dead"} => pc' \in {"ended", "dead"}
      PROVE  BudgetInv'
  BY <1>a DEF BudgetInv
<1>1. CASE Reset
  BY <1>1, ProcessAssumption DEF Reset, BudgetInv
<1>2. ASSUME NEW e \in Episodes, NEW d \in Deadlines, Submit(e, d) PROVE BudgetInv'
  <2>1. UNCHANGED <<exhausted, failures, pc>> /\ (exhausted => queued' = queued)
    BY <1>2 DEF Submit
  <2> QED
    BY <2>1 DEF BudgetInv
<1>3. CASE Poll \/ Close \/ UNCHANGED vars
  BY <1>3, <1>a DEF Poll, Close, vars
<1>4. ASSUME NEW id \in Ids(queued \cup active), CancelQueued(id) \/ ExpireRequest(id)
      PROVE  BudgetInv'
  BY <1>4, <1>a DEF CancelQueued, ExpireRequest
<1>5. ASSUME NEW e \in Episodes, CancelEpisode(e) PROVE BudgetInv'
  BY <1>5, <1>a DEF CancelEpisode
<1>6. CASE Child
  BY <1>6, <1>a, ChildFrame
<1>7. CASE SupTop
  BY <1>7 DEF SupTop, BudgetInv
<1>8. CASE SupKeep \/ SupStart \/ SupStartFails
  BY <1>8, <1>a DEF SupKeep, SupStart, SupStartFails, Admitted
<1>9. CASE SupCancelled \/ SupFault \/ SupReceive
  BY <1>9, <1>a DEF SupCancelled, SupFault, SupReceive, Expected
<1>10. CASE SupDispatchNothing \/ SupDispatchExpired \/ SupDispatch \/ SupStartFault
            \/ SupFinally \/ SupFailing \/ SupEnd
  BY <1>10, <1>a DEF SupDispatchNothing, SupDispatchExpired, SupDispatch, SupStartFault,
       SupFinally, SupFailing, SupEnd, Dispatching
<1>11. CASE SupPublish
  BY <1>11, ProcessAssumption DEF SupPublish, BudgetInv
<1>12. CASE SupRecordFault
  <2>1. ~exhausted /\ failures <= MaxRestarts
    BY <1>12 DEF SupRecordFault, BudgetInv
  <2>2. CASE UNCHANGED <<queued, exhausted, failures>>
    BY <1>12, <2>2, <1>a, RecordFaultCases
  <2>3. CASE /\ failures' = failures + 1
             /\ exhausted' = (exhausted \/ OverBudget(failures'))
             /\ queued' = queued \ Refused(failures')
    <3>1. failures' <= MaxRestarts + 1
      BY <2>1, <2>3, ProcessAssumption DEF TypeOK
    <3>2. CASE failures' > MaxRestarts
      <4>1. exhausted' /\ queued' = {}
        BY <2>3, <3>2 DEF OverBudget, Refused
      <4> QED
        BY <1>12, <3>1, <4>1, RecordFaultCases DEF BudgetInv
    <3>3. CASE ~(failures' > MaxRestarts)
      <4>1. ~exhausted' /\ failures' <= MaxRestarts
        BY <2>1, <2>3, <3>3, ProcessAssumption DEF OverBudget, TypeOK
      <4> QED
        BY <3>1, <4>1 DEF BudgetInv
    <3> QED
      BY <3>2, <3>3
  <2> QED
    BY <1>12, <2>2, <2>3, RecordFaultCases
<1>13. ASSUME NEW o \in AllStopOutcomes, SupStop(o) \/ SupStopStale(o) \/ SupExit(o)
       PROVE  BudgetInv'
  BY <1>13, <1>a DEF SupStop, SupStopStale, SupExit, Stop, AfterStop
<1>14. CASE SupFailClosed
  BY <1>14 DEF SupFailClosed, BudgetInv
<1> QED
  BY <1>1, <1>2, <1>3, <1>4, <1>5, <1>6, <1>7, <1>8, <1>9, <1>10, <1>11, <1>12, <1>13,
     <1>14 DEF Next, Control, Supervisor

----------------------------------------------------------------------------
(***************************************************************************)
(* The channel.                                                            *)
(***************************************************************************)
LEMMA ChannelInit == Init => ChannelInv
  BY DEF Init, ChannelInv

LEMMA ChannelStep ==
    TypeOK /\ HandleInv /\ HoldInv /\ ChannelInv /\ [Next]_vars => ChannelInv'
<1> SUFFICES ASSUME TypeOK, HandleInv, HoldInv, ChannelInv, [Next]_vars
             PROVE  ChannelInv'
  OBVIOUS
<1> USE DEF Steady, Goto, handle, childVars
<1> DEFINE Ready == {"starting", "dispatch", "publish", "finally", "top", "admit"}
<1>a. ASSUME UNCHANGED <<process, serving, inbox, request>>,
             pc' \in Ready /\ process # {} => pc \in Ready, pc' = "executing" => pc = "executing"
      PROVE  ChannelInv'
  BY <1>a DEF ChannelInv, Answered
<1>b. ASSUME pc' \notin Ready \cup {"executing"} PROVE ChannelInv'
  BY <1>b DEF ChannelInv
<1>1. CASE Control \/ UNCHANGED vars
  BY <1>1, <1>a, ControlFrame, StutterFrame
<1>2. CASE ChildReady
  <2>1. UNCHANGED <<pc, process, serving, request>> /\ Answered' = Answered
    BY <1>2, ChildFrame DEF Child, ChildReady, Answered
  <2> QED
    BY <2>1 DEF ChannelInv
<1>3. CASE ChildAnswer
  <2>1. /\ UNCHANGED <<pc, process, request>> /\ process # {} /\ serving # {} /\ serving' = {}
        /\ Answered' = Answered \cup {[kind |-> "result", id |-> i] : i \in serving}
    BY <1>3, ChildFrame DEF Child, ChildAnswer, Answered, Alive
  <2>2. pc \notin Ready
    BY <2>1 DEF ChannelInv
  <2>3. CASE pc = "executing"
    <3>1. Answered = {} /\ serving \subseteq Ids(request)
      BY <2>1, <2>3 DEF ChannelInv
    <3>2. \A i, j \in Ids(request) : i = j
      BY DEF Ids, TypeOK
    <3>3. \A m \in Answered' : \E i \in serving : m = [kind |-> "result", id |-> i]
      BY <2>1, <3>1
    <3>4. \A m, n \in Answered' : m = n /\ m.id \in Ids(request)
      BY <3>1, <3>2, <3>3
    <3>5. serving' \cup {m.id : m \in Answered'} \subseteq Ids(request)
      BY <2>1, <3>4
    <3> QED
      BY <2>1, <2>3, <3>4, <3>5 DEF ChannelInv
  <2> QED
    BY <1>b, <2>1, <2>2, <2>3
<1>4. CASE ChildFails \/ ChildCrash
  <2>1. UNCHANGED <<pc, process, request>> /\ serving' = {} /\ Answered' = Answered
    BY <1>4, ChildFrame DEF Child, ChildFails, ChildCrash, Answered
  <2> QED
    BY <2>1 DEF ChannelInv
<1>5. CASE SupTop
  BY <1>5 DEF SupTop, ChannelInv, Answered
<1>6. CASE SupStart
  BY <1>6 DEF SupStart, Channel, ChannelInv, Answered
<1>7. CASE SupReceive
  <2>1. PICK m \in inbox : Expected(m) /\ inbox' = inbox \ {m}
    BY <1>7 DEF SupReceive
  <2>2. /\ UNCHANGED <<process, serving, request>>
        /\ pc' = IF pc = "starting" THEN "dispatch" ELSE "publish"
        /\ pc \in {"starting", "executing"}
    BY <1>7 DEF SupReceive, Expected
  <2>3. Answered' = Answered \ {m}
    BY <2>1 DEF Answered
  <2>4. CASE pc = "starting"
    BY <2>2, <2>3, <2>4 DEF ChannelInv
  <2>5. CASE pc = "executing"
    <3>1. m \in Answered
      BY <2>1, <2>5 DEF Expected, Answered
    <3>2. serving = {} /\ Answered' = {}
      BY <2>3, <2>5, <3>1 DEF ChannelInv
    <3> QED
      BY <2>2, <2>5, <3>2 DEF ChannelInv
  <2> QED
    BY <2>2, <2>4, <2>5
<1>8. CASE SupDispatch
  <2>1. /\ pc = "dispatch" /\ pc' = "executing" /\ UNCHANGED <<process, inbox>>
        /\ request' = queued /\ serving' \subseteq Ids(queued)
    BY <1>8 DEF SupDispatch, Dispatching
  <2>2. Answered' = {}
    BY <2>1 DEF HandleInv, ChannelInv, Answered
  <2> QED
    BY <2>1, <2>2 DEF ChannelInv
<1>9. CASE SupKeep \/ SupStartFails
  BY <1>9, <1>a DEF SupKeep, SupStartFails, Admitted
<1>10. CASE SupPublish \/ SupDispatchNothing \/ SupDispatchExpired
  <2>1. pc \in {"publish", "dispatch"} /\ pc' = "finally" /\ UNCHANGED <<process, serving, inbox>>
    BY <1>10 DEF SupPublish, SupDispatchNothing, SupDispatchExpired, Dispatching
  <2> QED
    BY <2>1 DEF ChannelInv, Answered
<1>11. CASE SupFinally
  BY <1>11, <1>a DEF SupFinally
<1>12. CASE SupCancelled \/ SupFault \/ SupStartFault \/ SupRecordFault \/ SupFailing
            \/ SupFailClosed \/ SupEnd
  BY <1>12, <1>b DEF SupCancelled, SupFault, SupStartFault, SupRecordFault, SupFailing,
       SupFailClosed, SupEnd
<1>13. ASSUME NEW o \in AllStopOutcomes, SupStop(o) \/ SupStopStale(o) \/ SupExit(o)
       PROVE  ChannelInv'
  <2>1. pc' \in Ready => process' = {}
    BY <1>13 DEF SupStop, SupStopStale, SupExit, Stop, AfterStop
  <2>2. pc' # "executing"
    BY <1>13 DEF SupStop, SupStopStale, SupExit, AfterStop
  <2> QED
    BY <2>1, <2>2 DEF ChannelInv
<1> QED
  BY <1>1, <1>2, <1>3, <1>4, <1>5, <1>6, <1>7, <1>8, <1>9, <1>10, <1>11, <1>12, <1>13
  DEF Next, Child, Supervisor

----------------------------------------------------------------------------
(***************************************************************************)
(* Nothing is lost: what the caller was not told of is kept somewhere.     *)
(* The supervisor lets go of a request without an outcome only when it is  *)
(* void.                                                                   *)
(***************************************************************************)
Void(s) == \/ s.id < resetFloor \/ s.id < cancelFloor[s.episode]
           \/ s.id \in withdrawn \cup expired

InHand == {r \in request : pc \in {"executing", "publish", "record_fault"}}
Kept == Ids(queued \cup results \cup delivered \cup InHand)

LEMMA LossMeans ==
    NoSilentLoss <=> (~closed => \A s \in issued : Void(s) \/ s.id \in Kept)
  BY DEF NoSilentLoss, Void, Kept, InHand, Ids

LEMMA AbandonedIsVoid ==
    ASSUME TypeOK, OrderInv, EpochInv, AbortInv, ~closed, NEW r \in InHand,
           localEpoch # epoch \/ abortReason # "none"
    PROVE  Void(r)
  BY DEF InHand, Void, OrderInv, EpochInv, AbortInv, GivenUp

\* Both records have an id.
LEMMA OutcomeIds == ASSUME NEW S, NEW ok PROVE Ids(Outcome(S, ok)) = Ids(S)
<1>1. ASSUME NEW r \in S PROVE r.id \in Ids(Outcome(S, ok))
  <2>1. [id |-> r.id, episode |-> r.episode, ok |-> ok] \in Outcome(S, ok)
    BY DEF Outcome
  <2> QED
    BY <2>1 DEF Ids
<1>2. ASSUME NEW o \in Outcome(S, ok) PROVE o.id \in Ids(S)
  BY <1>2 DEF Outcome, Ids
<1> QED
  BY <1>1, <1>2 DEF Ids

LEMMA IdsOfUnion == ASSUME NEW S, NEW T PROVE Ids(S \cup T) = Ids(S) \cup Ids(T)
  BY DEF Ids

LEMMA IdsOfUnions ==
    ASSUME NEW S, NEW T, NEW U PROVE Ids(S \cup T \cup U) = Ids(S) \cup Ids(T) \cup Ids(U)
<1>1. Ids((S \cup T) \cup U) = Ids(S \cup T) \cup Ids(U)
  BY IdsOfUnion
<1>2. Ids(S \cup T) = Ids(S) \cup Ids(T)
  BY IdsOfUnion
<1> QED
  BY <1>1, <1>2

LEMMA LossInit == Init => NoSilentLoss
  BY DEF Init, NoSilentLoss

LEMMA LossStep ==
    TypeOK /\ HoldInv /\ OrderInv /\ EpochInv /\ AbortInv /\ NoSilentLoss /\ [Next]_vars
        => NoSilentLoss'
<1> SUFFICES ASSUME TypeOK, HoldInv, OrderInv, EpochInv, AbortInv, NoSilentLoss, [Next]_vars
             PROVE  NoSilentLoss'
  OBVIOUS
<1> USE DEF Steady, Goto, call, mailbox, budget, identity, handle, childVars, supervisor,
            told, floors, history
<1> DEFINE Blame == <<issued, resetFloor, cancelFloor, withdrawn, expired>>
<1>a. ASSUME UNCHANGED Blame, closed' = closed,
             ~closed => \A i \in Kept : i \in Kept' \/ \E r \in issued : r.id = i /\ Void(r)
      PROVE  NoSilentLoss'
  <2>1. SUFFICES ASSUME ~closed, NEW s \in issued PROVE (Void(s) \/ s.id \in Kept)'
    BY <1>a, LossMeans DEF NoSilentLoss, Void, Kept, InHand, Ids
  <2>2. Void(s) \/ s.id \in Kept
    BY <2>1, LossMeans
  <2>3. Void(s) \/ s.id \in Kept'
    BY <1>a, <2>1, <2>2 DEF OrderInv
  <2> QED
    BY <1>a, <2>3 DEF Void
<1>b. ASSUME UNCHANGED Blame, closed' = closed,
             queued \cup results \cup delivered \cup InHand
                 \subseteq queued' \cup results' \cup delivered' \cup InHand'
      PROVE  NoSilentLoss'
  BY <1>a, <1>b DEF Kept, Ids
<1>1. CASE Reset
  <2>1. \A s \in issued' : Void(s)'
    BY <1>1 DEF Reset, Void, OrderInv
  <2> QED
    BY <2>1 DEF NoSilentLoss, Void
<1>2. ASSUME NEW e \in Episodes, NEW d \in Deadlines, Submit(e, d) PROVE NoSilentLoss'
  <2> DEFINE new == [id |-> nextRequestId, episode |-> e, epoch |-> epoch, deadline |-> d]
  <2>1. /\ issued' = issued \cup {new} /\ withdrawn' = withdrawn \cup Ids(queued)
        /\ UNCHANGED <<closed, expired, delivered, resetFloor, cancelFloor, request, pc>>
        /\ \/ exhausted /\ queued' = queued /\ results' = results \cup Outcome({new}, FALSE)
           \/ ~exhausted /\ queued' = {new} /\ results' = results
    BY <1>2 DEF Submit, Mailbox
  <2>2. new.id \in Kept'
    <3>1. Ids(Outcome({new}, FALSE)) = Ids({new})
      BY OutcomeIds
    <3>2. new.id \in Ids({new}) /\ Ids({new}) \subseteq Ids(queued' \cup results')
      BY <2>1, <3>1 DEF Ids
    <3> QED
      BY <3>2 DEF Kept, Ids
  <2>3. InHand' = InHand
    BY <2>1 DEF InHand
  <2>4. Kept \subseteq Kept' \cup Ids(queued)
    BY <2>1, <2>3 DEF Kept, Ids
  <2> HIDE DEF new
  <2>5. SUFFICES ASSUME ~closed, NEW s \in issued PROVE (Void(s) \/ s.id \in Kept)'
    BY <2>1, <2>2 DEF NoSilentLoss, Void, Kept, InHand, Ids
  <2>6. Void(s) \/ s.id \in Kept
    BY <2>5, LossMeans
  <2> QED
    BY <2>1, <2>4, <2>6 DEF Void
<1>3. CASE Poll
  <2>1. InHand' = InHand
    BY <1>3 DEF Poll, InHand
  <2> QED
    BY <1>3, <1>b, <2>1 DEF Poll, AfterPoll
<1>4. ASSUME NEW id \in Ids(queued \cup active), CancelQueued(id) \/ ExpireRequest(id)
      PROVE  NoSilentLoss'
  <2>1. /\ UNCHANGED <<issued, resetFloor, cancelFloor, closed, results, delivered, request, pc>>
        /\ withdrawn \cup expired \cup {id} = withdrawn' \cup expired'
        /\ queued' = queued \/ (queued' = {} /\ id \in Ids(queued))
    BY <1>4 DEF CancelQueued, ExpireRequest
  <2>2. \A i \in Ids(queued) : i \in Ids(queued') \/ i = id
    BY <2>1 DEF TypeOK, Ids
  <2>3. InHand' = InHand
    BY <2>1 DEF InHand
  <2>4. \A i \in Kept : i \in Kept' \/ i = id
    BY <2>1, <2>2, <2>3 DEF Kept, Ids
  <2>5. SUFFICES ASSUME ~closed, NEW s \in issued PROVE (Void(s) \/ s.id \in Kept)'
    BY <2>1 DEF NoSilentLoss, Void, Kept, InHand, Ids
  <2>6. Void(s) \/ s.id \in Kept
    BY <2>5, LossMeans
  <2> QED
    BY <2>1, <2>4, <2>6 DEF Void
<1>5. ASSUME NEW e \in Episodes, CancelEpisode(e) PROVE NoSilentLoss'
  <2>1. /\ queued' = {r \in queued : r.episode # e}
        /\ results' = {r \in results : r.episode # e}
        /\ cancelFloor' = [cancelFloor EXCEPT ![e] = nextRequestId]
        /\ UNCHANGED <<issued, resetFloor, closed, delivered, request, pc, withdrawn, expired,
                       nextRequestId>>
    BY <1>5 DEF CancelEpisode
  <2>2. \A s \in issued : s.episode = e => Void(s)'
    BY <2>1 DEF Void, OrderInv, TypeOK, Request
  <2>3. SUFFICES ASSUME ~closed, NEW s \in issued, s.episode # e
                 PROVE  (Void(s) \/ s.id \in Kept)'
    BY <2>1, <2>2 DEF NoSilentLoss, Void, Kept, InHand, Ids
  <2>4. Void(s) => Void(s)'
    BY <2>1, <2>3 DEF Void, TypeOK, Request
  <2>5. s.id \in Kept => s.id \in Kept'
    <3>1. \A r \in queued \cup results : r.id = s.id => r.episode = s.episode
      BY DEF OrderInv
    <3>2. InHand' = InHand
      BY <2>1 DEF InHand
    <3> QED
      BY <2>1, <2>3, <3>1, <3>2 DEF Kept, Ids
  <2> QED
    BY <2>3, <2>4, <2>5, LossMeans
<1>6. CASE Close
  BY <1>6 DEF Close, NoSilentLoss
<1>7. CASE Child \/ UNCHANGED vars
  <2>1. UNCHANGED <<issued, resetFloor, cancelFloor, withdrawn, expired, closed, queued, results,
                    delivered, request, pc>>
    BY <1>7, ChildFrame, StutterFrame
  <2>2. InHand' = InHand
    BY <2>1 DEF InHand
  <2> QED
    BY <1>b, <2>1, <2>2
<1>8. ASSUME Supervisor, queued \cup results \cup InHand \subseteq queued' \cup results' \cup InHand'
      PROVE  NoSilentLoss'
  <2>1. closed' = closed /\ delivered' = delivered /\ UNCHANGED Blame
    BY <1>8, SupervisorFrame
  <2> QED
    BY <1>8, <1>b, <2>1
<1>9. CASE SupTop \/ SupKeep \/ SupStart \/ SupStartFails \/ SupFault \/ SupReceive
           \/ SupDispatchNothing \/ SupDispatch \/ SupStartFault \/ SupFinally
           \/ SupFailClosed \/ SupEnd
  <2>1. queued \cup results \cup InHand \subseteq queued' \cup results' \cup InHand'
    <3>1. CASE SupTop \/ SupKeep \/ SupStart \/ SupStartFails
      BY <3>1 DEF SupTop, SupKeep, SupStart, SupStartFails, Admitted, HoldInv, InHand
    <3>2. CASE SupFault \/ SupReceive
      BY <3>2 DEF SupFault, SupReceive, Expected, HoldInv, InHand
    <3>3. CASE SupDispatchNothing \/ SupDispatch
      BY <3>3 DEF SupDispatchNothing, SupDispatch, Dispatching, HoldInv, InHand
    <3>4. CASE SupStartFault
      BY <3>4 DEF SupStartFault, Retired, HoldInv, InHand
    <3>5. CASE SupFinally \/ SupFailClosed \/ SupEnd
      BY <3>5 DEF SupFinally, SupFailClosed, SupEnd, HoldInv, InHand
    <3> QED
      BY <1>9, <3>1, <3>2, <3>3, <3>4, <3>5, Zenon
  <2> QED
    BY <1>8, <1>9, <2>1 DEF Supervisor
<1>10. ASSUME Supervisor,
              ~closed => \A i \in Ids(queued \cup results \cup InHand) :
                             \/ i \in Ids(queued' \cup results' \cup InHand')
                             \/ \E r \in issued : r.id = i /\ Void(r)
       PROVE  NoSilentLoss'
  <2>1. closed' = closed /\ delivered' = delivered /\ UNCHANGED Blame
    BY <1>10, SupervisorFrame
  <2> QED
    BY <1>10, <1>a, <2>1 DEF Kept, Ids
<1>11. CASE SupDispatchExpired
  <2>1. /\ results' = results \cup Outcome(queued, FALSE) /\ request = {}
        /\ Ids(Outcome(queued, FALSE)) = Ids(queued)
    BY <1>11, OutcomeIds DEF SupDispatchExpired, ExpiredOutcome, Dispatching, HoldInv
  <2>2. \A i \in Ids(queued \cup results \cup InHand) : i \in Ids(results')
    <3>1. InHand = {}
      BY <2>1 DEF InHand
    <3>2. Ids(results') = Ids(results) \cup Ids(queued)
      <4>1. PICK new : new = Outcome(queued, FALSE)
        OBVIOUS
      <4>2. results' = results \cup new /\ Ids(new) = Ids(queued)
        BY <2>1, <4>1
      <4>3. Ids(results \cup new) = Ids(results) \cup Ids(new)
        BY ONLY IdsOfUnion
      <4> QED
        BY ONLY <4>2, <4>3
    <3>3. Ids(queued \cup results \cup InHand) = Ids(queued) \cup Ids(results)
      <4>1. queued \cup results \cup InHand = queued \cup results
        BY <3>1, Zenon
      <4> QED
        BY ONLY <4>1, IdsOfUnion
    <3> QED
      BY <3>2, <3>3
  <2> QED
    BY <1>10, <1>11, <2>2 DEF Supervisor, Ids
<1>12. CASE SupPublish
  <2>1. /\ results' = results \cup Outcome(request, TRUE) /\ queued' = queued
        /\ Ids(Outcome(request, TRUE)) = Ids(request)
    BY <1>12, OutcomeIds DEF SupPublish
  <2>2. \A i \in Ids(queued \cup results \cup InHand) : i \in Ids(queued' \cup results')
    <3>1. Ids(queued' \cup results') = Ids(queued) \cup Ids(results) \cup Ids(request)
      <4>1. queued' \cup results' = queued \cup results \cup Outcome(request, TRUE)
        BY <2>1
      <4>2. PICK new : new = Outcome(request, TRUE)
        OBVIOUS
      <4>3. Ids(queued \cup results \cup new) = Ids(queued) \cup Ids(results) \cup Ids(new)
        BY ONLY IdsOfUnions
      <4>4. Ids(new) = Ids(request) /\ queued' \cup results' = queued \cup results \cup new
        BY ONLY <2>1, <4>1, <4>2
      <4> QED
        BY ONLY <4>3, <4>4
    <3>2. Ids(queued \cup results \cup InHand) = Ids(queued) \cup Ids(results) \cup Ids(InHand)
      BY ONLY IdsOfUnions
    <3>3. \A r \in InHand : r \in request
      BY DEF InHand
    <3>4. Ids(InHand) \subseteq Ids(request)
      BY <3>3 DEF Ids
    <3> QED
      BY <3>1, <3>2, <3>4
  <2> QED
    BY <1>10, <1>12, <2>2 DEF Supervisor, Ids
<1>13. CASE SupCancelled
  <2>1. /\ UNCHANGED <<queued, results, request>>
        /\ ~closed => localEpoch # epoch \/ abortReason # "none"
    BY <1>13 DEF SupCancelled, CancelReason
  <2>2. ~closed => \A r \in InHand : r \in issued /\ Void(r)
    BY <2>1, AbandonedIsVoid DEF OrderInv, InHand
  <2> QED
    BY <1>10, <1>13, <2>1, <2>2 DEF Supervisor, Ids
<1>14. CASE SupRecordFault
  <2>1. CASE localEpoch # epoch \/ closed
    <3>1. UNCHANGED <<queued, results, request>>
      BY <1>14, <2>1, RecordFaultCases
    <3>2. ~closed => \A r \in InHand : r \in issued /\ Void(r)
      BY <2>1, AbandonedIsVoid DEF OrderInv, InHand
    <3> QED
      BY <1>10, <1>14, <3>1, <3>2 DEF Supervisor, Ids
  <2>2. CASE ~(localEpoch # epoch \/ closed)
    <3> DEFINE answered == Failed \cup Refused(failures')
    <3>1. /\ queued' = queued \ Refused(failures')
          /\ results' = results \cup Outcome(answered, FALSE)
      BY <1>14, <2>2, RecordFaultCases
    <3>2. Ids(Outcome(answered, FALSE)) = Ids(answered)
      BY OutcomeIds
    <3>3. Refused(failures') \subseteq answered
      OBVIOUS
    <3>4. abortReason = "none" => InHand \subseteq answered
      BY DEF Failed, InHand
    <3>5. abortReason # "none" => \A r \in InHand : r \in issued /\ Void(r)
      BY <2>2, AbandonedIsVoid DEF OrderInv, InHand
    <3> HIDE DEF answered
    <3>6. \A i \in Ids(answered) : i \in Ids(results')
      BY <3>1, <3>2 DEF Ids
    <3>7. \A r \in queued \cup results \cup InHand :
              \/ r.id \in Ids(queued' \cup results')
              \/ \E s \in issued : s.id = r.id /\ Void(s)
      BY <3>1, <3>3, <3>4, <3>5, <3>6 DEF Ids
    <3> QED
      BY <1>10, <1>14, <3>7 DEF Supervisor, Ids
  <2> QED
    BY <2>1, <2>2
<1>15. ASSUME NEW o \in AllStopOutcomes, SupStop(o) \/ SupStopStale(o) \/ SupExit(o)
       PROVE  NoSilentLoss'
  <2>1. UNCHANGED <<queued, results>> /\ InHand = {}
    BY <1>15 DEF SupStop, SupStopStale, SupExit, Stop, InHand
  <2> QED
    BY <1>8, <1>15, <2>1 DEF Supervisor
<1>16. CASE SupFailing
  <2> DEFINE lost == {r \in active \cup queued : ~closed /\ r.epoch = epoch}
  <2>1. results' = results \cup Outcome(lost, FALSE) /\ InHand = {}
    BY <1>16 DEF SupFailing, InHand
  <2>2. Ids(Outcome(lost, FALSE)) = Ids(lost)
    BY OutcomeIds
  <2>3. ~closed => queued \subseteq lost
    BY DEF EpochInv
  <2> HIDE DEF lost
  <2>4. ~closed => \A i \in Ids(queued \cup results \cup InHand) : i \in Ids(results')
    <3>1. Ids(results') = Ids(results) \cup Ids(lost)
      <4>1. PICK new : new = Outcome(lost, FALSE)
        OBVIOUS
      <4>2. results' = results \cup new /\ Ids(new) = Ids(lost)
        BY <2>1, <2>2, <4>1
      <4>3. Ids(results \cup new) = Ids(results) \cup Ids(new)
        BY ONLY IdsOfUnion
      <4> QED
        BY ONLY <4>2, <4>3
    <3>2. Ids(queued \cup results \cup InHand) = Ids(queued) \cup Ids(results)
      <4>1. queued \cup results \cup InHand = queued \cup results
        BY <2>1, Zenon
      <4> QED
        BY ONLY <4>1, IdsOfUnion
    <3>3. ~closed => Ids(queued) \subseteq Ids(lost)
      BY <2>3 DEF Ids
    <3> QED
      BY <3>1, <3>2, <3>3
  <2> QED
    BY <1>10, <1>16, <2>4 DEF Supervisor, Ids
<1> QED
  BY <1>1, <1>2, <1>3, <1>4, <1>5, <1>6, <1>7, <1>9, <1>11, <1>12, <1>13, <1>14, <1>15,
     <1>16 DEF Next, Control, Supervisor

----------------------------------------------------------------------------
(***************************************************************************)
(* Together the parts are inductive.                                       *)
(***************************************************************************)
LEMMA IndInvInit == Init => IndInv
  BY TypeInit, HandleInit, ChannelInit, HoldInit, OrderInit, AnswerInit, EpochInit,
     AbortInit, BudgetInit, LossInit DEF IndInv

LEMMA IndInvStep == IndInv /\ [Next]_vars => IndInv'
  BY TypeStep, HandleStep, ChannelStep, HoldStep, OrderStep, AnswerStep, EpochStep,
     AbortStep, BudgetStep, LossStep DEF IndInv

LEMMA Invariance == Spec => []IndInv
  BY IndInvInit, IndInvStep, PTL DEF Spec

----------------------------------------------------------------------------
(***************************************************************************)
(* Every variable keeps its type, and the mailbox, the supervisor's        *)
(* request and _active never hold two requests.                            *)
(***************************************************************************)
THEOREM TypeCorrect == Spec => []TypeOK
<1>1. IndInv => TypeOK
  BY DEF IndInv
<1> QED
  BY <1>1, Invariance, PTL

(***************************************************************************)
(* At no time do two model processes live, however often they have to be   *)
(* stopped and whether or not that succeeds: what lives is held, and only  *)
(* one is held (process.py:360).                                           *)
(***************************************************************************)
THEOREM NeverTwoModels == Spec => []OneModel
<1>1. IndInv => OneModel
  BY DEF IndInv, HandleInv, OneModel
<1> QED
  BY <1>1, Invariance, PTL

(***************************************************************************)
(* A request runs in a process of its own epoch and reads no answer but    *)
(* its own (process.py:318, 405-413, 428).                                 *)
(***************************************************************************)
THEOREM RequestsRunAlone == Spec => []OwnProcess
<1>1. IndInv => OwnProcess
  <2> SUFFICES ASSUME IndInv, pc = "executing"
               PROVE  /\ \A r \in request : r.epoch = processEpoch
                      /\ \A m \in inbox : m.kind = "result" => m.id \in Ids(request)
    BY DEF OwnProcess
  <2>1. \A r \in request : r.epoch = processEpoch
    BY DEF IndInv, EpochInv, HandleInv
  <2>2. \A m \in inbox : m.kind = "result" => m.id \in Ids(request)
    BY DEF IndInv, ChannelInv, Answered
  <2> QED
    BY <2>1, <2>2
<1> QED
  BY <1>1, Invariance, PTL

(***************************************************************************)
(* An abort hits only a request that was itself given up                   *)
(* (process.py:441, 483-484).                                              *)
(***************************************************************************)
THEOREM AbortsHitTheirTarget == Spec => []InnocentSurvives
<1>1. IndInv => InnocentSurvives
  BY DEF IndInv, AbortInv, GivenUp, InnocentSurvives
<1> QED
  BY <1>1, Invariance, PTL

(***************************************************************************)
(* Whatever faults, restarts, resets and expiries happen, a request the    *)
(* caller was not told of is waiting, worked on or answered.               *)
(***************************************************************************)
THEOREM NothingIsLost == Spec => []NoSilentLoss
<1>1. IndInv => NoSilentLoss
  BY DEF IndInv
<1> QED
  BY <1>1, Invariance, PTL

(***************************************************************************)
(* The restart budget is overspent by one fault at most, never while the   *)
(* model runs, and an exhausted backend keeps nobody waiting               *)
(* (process.py:203-207, 377-397, 417).                                     *)
(***************************************************************************)
THEOREM BudgetIsRespected == Spec => []BudgetRespected
<1>1. IndInv => BudgetRespected
  BY DEF IndInv, BudgetInv, BudgetRespected
<1> QED
  BY <1>1, Invariance, PTL

----------------------------------------------------------------------------
(***************************************************************************)
(* The mapping: a request keeps its id and its episode.                    *)
(***************************************************************************)
Waiting == {r \in queued : ~exhausted}
Running == Held \ Unnoticed

LEMMA IdsOfRequests == ASSUME NEW S PROVE Promise!Ids(Requests(S)) = Ids(S)
<1>1. ASSUME NEW s \in S PROVE s.id \in Promise!Ids(Requests(S))
  <2>1. [id |-> s.id, episode |-> s.episode] \in Requests(S)
    BY DEF Requests
  <2> QED
    BY <2>1 DEF Promise!Ids
<1>2. ASSUME NEW r \in Requests(S) PROVE r.id \in Ids(S)
  BY <1>2 DEF Requests, Ids
<1> QED
  BY <1>1, <1>2 DEF Promise!Ids, Ids

LEMMA OutcomesOfRequests ==
    ASSUME NEW S, NEW ok PROVE Promise!Outcome(Requests(S), ok) = Outcome(S, ok)
<1>1. ASSUME NEW s \in S
      PROVE  [id |-> s.id, episode |-> s.episode, ok |-> ok] \in Promise!Outcome(Requests(S), ok)
  <2>1. [id |-> s.id, episode |-> s.episode] \in Requests(S)
    BY DEF Requests
  <2> QED
    BY <2>1 DEF Promise!Outcome
<1>2. ASSUME NEW o \in Promise!Outcome(Requests(S), ok) PROVE o \in Outcome(S, ok)
  BY <1>2 DEF Promise!Outcome, Requests, Outcome
<1> QED
  BY <1>1, <1>2 DEF Outcome

LEMMA SplitRequests == ASSUME NEW S, NEW T PROVE Requests(S \cup T) = Requests(S) \cup Requests(T)
  BY DEF Requests

\* Ids tell submissions apart, so that the mapping separates them too.
LEMMA WithoutRequests ==
    ASSUME OrderInv, NEW S \in SUBSET issued, NEW T \in SUBSET issued
    PROVE  Requests(S) \ Requests(T) = Requests(S \ T)
<1>1. ASSUME NEW s \in S, NEW t \in T,
             [id |-> s.id, episode |-> s.episode] = [id |-> t.id, episode |-> t.episode]
      PROVE  s = t
  <2>1. s.id = t.id
    BY <1>1
  <2> QED
    BY <2>1 DEF OrderInv
<1> QED
  BY <1>1 DEF Requests

LEMMA HeldIsIssued ==
    ASSUME IndInv
    PROVE  /\ Held \in SUBSET request /\ Held \in SUBSET issued /\ queued \in SUBSET issued
           /\ Unnoticed \in SUBSET Held
           /\ \A r \in Held, q \in queued : r.id # q.id
  BY DEF IndInv, OrderInv, Held, Unnoticed

\* What is worked on and not aborted has not been cancelled either.
LEMMA ActiveIsNoticed ==
    ASSUME IndInv, active # {}
    PROVE  Unnoticed = {} /\ \A r, s \in active \cup request : r = s
<1>1. \A r, s \in active \cup request : r = s
  BY DEF IndInv, HoldInv, TypeOK
<1>2. active = request
  BY <1>1 DEF IndInv, HoldInv
<1>3. \A r \in Held : r.id \in Nat /\ cancelFloor[r.episode] \in Nat
                      /\ r.id >= cancelFloor[r.episode]
  BY <1>2 DEF IndInv, AbortInv, TypeOK, Request, Held
<1> QED
  BY <1>1, <1>3 DEF Unnoticed

\* What the promise is about: the mailbox, the wanted work, the outcomes.
View == <<Waiting, Running, Unnoticed, results, delivered, withdrawn \cup expired,
          nextRequestId, closed>>

LEMMA UnseenStutters == UNCHANGED View => UNCHANGED Promise!vars
  BY DEF View, Promise!vars, Promise!pending, Promise!outcomes, Waiting, Running, Requests

----------------------------------------------------------------------------
(***************************************************************************)
(* The control thread.                                                     *)
(***************************************************************************)
LEMMA ResetMaps == ASSUME IndInv, Reset PROVE Promise!Reset
<1> USE DEF supervisor, told, handle
<1>1. localEpoch # epoch'
  BY DEF Reset, IndInv, EpochInv, TypeOK
<1>2. Held' = {}
  BY <1>1 DEF Reset, Held
<1> QED
  BY <1>2 DEF Reset, Promise!Reset, Requests, Unnoticed

LEMMA SubmitMaps ==
    ASSUME IndInv, NEW e \in Episodes, NEW d \in Deadlines, Submit(e, d)
    PROVE  Promise!Submit(e) \/ Promise!Refuse(e)
<1> DEFINE new == [id |-> nextRequestId, episode |-> e, epoch |-> epoch, deadline |-> d]
<1>1. /\ ~closed /\ nextRequestId' = nextRequestId + 1
      /\ withdrawn' = withdrawn \cup Ids(queued)
      /\ UNCHANGED <<closed, exhausted, expired, delivered, request, pc, localEpoch, epoch,
                     abortReason, cancelFloor>>
      /\ \/ exhausted /\ queued' = queued /\ results' = results \cup Outcome({new}, FALSE)
         \/ ~exhausted /\ queued' = {new} /\ results' = results
  BY DEF Submit, Mailbox, supervisor, call, budget, floors
<1>2. Held' = Held /\ Unnoticed' = Unnoticed
  BY <1>1 DEF Held, Unnoticed
<1>3. Requests({new}) = {Promise!New(e)}
  BY DEF Requests, Promise!New
<1>4. CASE exhausted
  <2>1. Waiting = {} /\ Waiting' = {}
    BY <1>1, <1>4 DEF Waiting
  <2>2. Outcome({new}, FALSE) = Promise!Outcome({Promise!New(e)}, FALSE)
    BY <1>3, OutcomesOfRequests
  <2>3. Ids(queued) \subseteq 0 .. nextRequestId - 1
    BY DEF IndInv, OrderInv, TypeOK, Request, Ids
  <2>4. \A i \in Ids(queued) : i \notin Ids(Held)
    BY HeldIsIssued DEF Ids
  <2>5. Promise!Pending = Requests(Held)
    BY <2>1, SplitRequests, HeldIsIssued DEF Promise!Pending, Waiting, Requests
  <2>6. Ids(queued) \in SUBSET Promise!Gone
    <3>1. \A i \in Ids(queued) : \A a \in results \cup delivered : i # a.id
      BY DEF IndInv, AnswerInv, Ids
    <3>2. \A i \in Ids(queued) : i \notin Promise!Ids(Requests(Held))
      BY <2>4, IdsOfRequests
    <3>3. \A i \in Ids(queued) :
              i \notin Promise!Ids(Promise!Pending \cup results \cup delivered)
      BY <2>5, <3>1, <3>2 DEF Promise!Ids
    <3> QED
      BY <2>3, <3>3 DEF Promise!Gone
  <2>7. /\ results' = results \cup Promise!Outcome({Promise!New(e)}, FALSE)
        /\ withdrawn' \cup expired' = (withdrawn \cup expired) \cup Ids(queued)
    BY <1>1, <1>4, <2>2
  <2> QED
    BY <1>1, <1>2, <2>1, <2>6, <2>7 DEF Promise!Refuse, Promise!pending, Waiting, Requests
<1>5. CASE ~exhausted
  <2>1. Waiting = queued /\ Waiting' = {new}
    BY <1>1, <1>5 DEF Waiting
  <2>2. Promise!Ids(Requests(Waiting)) = Ids(queued)
    BY <2>1, IdsOfRequests
  <2>3. Requests(Waiting') = {Promise!New(e)}
    BY <1>3, <2>1
  <2>4. withdrawn' \cup expired' = (withdrawn \cup expired) \cup Ids(queued)
    BY <1>1
  <2>5. results' = results
    BY <1>1, <1>5
  <2> QED
    BY <1>1, <1>2, <2>2, <2>3, <2>4, <2>5 DEF Promise!Submit, Promise!outcomes, Waiting
<1> QED
  BY <1>4, <1>5

LEMMA PollMaps == ASSUME Poll PROVE Promise!Poll
<1>1. Held' = Held /\ Unnoticed' = Unnoticed
  BY DEF Poll, Held, Unnoticed, call, identity, supervisor, floors
<1> QED
  BY <1>1 DEF Poll, AfterPoll, Promise!Poll, Promise!pending, budget, identity

(***************************************************************************)
(* A request leaves the mailbox, or an active one is not wanted any more.  *)
(***************************************************************************)
LEMMA WithdrawMaps ==
    ASSUME IndInv, NEW id \in Ids(queued \cup active), CancelQueued(id) \/ ExpireRequest(id)
    PROVE  id \in 0 .. nextRequestId - 1 /\ Promise!Withdraw(id)
<1>1. id \in 0 .. nextRequestId - 1
  BY DEF IndInv, OrderInv, HoldInv, TypeOK, Request, Ids
<1>2. /\ UNCHANGED <<closed, exhausted, results, delivered, nextRequestId, request, pc, localEpoch,
                     epoch, cancelFloor>>
      /\ withdrawn' \cup expired' = (withdrawn \cup expired) \cup {id}
  BY DEF CancelQueued, ExpireRequest, supervisor, identity, floors, budget
<1>3. CASE id \in Ids(queued)
  <2>1. queued' = {} /\ abortReason' = abortReason
    BY <1>3 DEF CancelQueued, ExpireRequest, call
  <2>2. Held' = Held /\ Unnoticed' = Unnoticed
    BY <1>2, <2>1 DEF Held, Unnoticed
  <2>3. \A r \in Running : r.id # id
    BY <1>3, HeldIsIssued DEF Running, Ids
  <2>4. \A r \in queued : r.id = id
    BY <1>3 DEF Ids, IndInv, TypeOK
  <2>5. /\ {r \in Requests(Running) : r.id # id} = Requests(Running)
        /\ {r \in Requests(Waiting) : r.id # id} = {} /\ Requests(Waiting') = {}
    BY <2>1, <2>3, <2>4 DEF Requests, Waiting
  <2> QED
    BY <1>1, <1>2, <2>2, <2>5 DEF Promise!Withdraw, Promise!outcomes, Waiting, Running
<1>4. CASE id \notin Ids(queued)
  <2>1. queued' = queued /\ id \in Ids(active) /\ abortReason' = "request_timeout"
    BY <1>4 DEF CancelQueued, ExpireRequest, ExpiryAbort
  <2>2. Held' = {} /\ Unnoticed' = {}
    BY <2>1 DEF Held, Unnoticed
  <2>3. Unnoticed = {} /\ \A r \in request : r.id = id
    BY <2>1, ActiveIsNoticed DEF Ids
  <2>4. \A r \in queued : r.id # id
    BY <1>4 DEF Ids
  <2>5. /\ {r \in Requests(Running) : r.id # id} = {}
        /\ {r \in Requests(Waiting) : r.id # id} = Requests(Waiting)
    BY <2>3, <2>4, HeldIsIssued DEF Requests, Waiting, Running
  <2>6. Waiting' = Waiting /\ Running' = {} /\ Requests({}) = {}
    BY <1>2, <2>1, <2>2 DEF Waiting, Running, Requests
  <2> QED
    BY <1>1, <1>2, <2>2, <2>3, <2>5, <2>6 DEF Promise!Withdraw, Promise!outcomes, Waiting, Running
<1> QED
  BY <1>3, <1>4

LEMMA CancelEpisodeMaps ==
    ASSUME IndInv, NEW e \in Episodes, CancelEpisode(e)
    PROVE  Promise!CancelEpisode(e)
<1>1. /\ queued' = {r \in queued : r.episode # e}
      /\ results' = {r \in results : r.episode # e}
      /\ abortReason' = CancelAbort(e)
      /\ cancelFloor' = [cancelFloor EXCEPT ![e] = nextRequestId]
      /\ UNCHANGED <<closed, exhausted, withdrawn, expired, delivered, nextRequestId, request,
                     pc, localEpoch, epoch>>
  BY DEF CancelEpisode, supervisor, identity, budget, told
<1>2. Requests(Waiting') = {r \in Requests(Waiting) : r.episode # e}
  <2>1. Waiting' = {r \in Waiting : r.episode # e}
    BY <1>1 DEF Waiting
  <2> QED
    BY <2>1 DEF Requests
<1>3. /\ Requests(Running') = {r \in Requests(Running) : r.episode # e}
      /\ Requests(Unnoticed') \in
             {Requests(Unnoticed), Requests(Unnoticed) \cup {r \in Requests(Running) : r.episode = e}}
  <2>1. CASE \E r \in active : r.episode = e
    <3>1. Held' = {} /\ Running' = {} /\ Unnoticed' = {}
      BY <1>1, <2>1 DEF CancelAbort, Held, Running, Unnoticed
    <3>2. Unnoticed = {} /\ \A r \in Running : r.episode = e
      BY <2>1, ActiveIsNoticed, HeldIsIssued DEF Running
    <3> QED
      BY <3>1, <3>2 DEF Requests
  <2>2. CASE ~\E r \in active : r.episode = e
    <3>1. Held' = Held
      BY <1>1, <2>2 DEF CancelAbort, Held
    <3>2. ASSUME NEW r \in Held
          PROVE  r.id < cancelFloor'[r.episode] <=> r.id < cancelFloor[r.episode] \/ r.episode = e
      <4>1. r.id < nextRequestId /\ r.episode \in Episodes
        BY HeldIsIssued DEF IndInv, OrderInv, TypeOK, Request
      <4> QED
        BY <1>1, <4>1 DEF IndInv, TypeOK
    <3>3. /\ Running' = {r \in Running : r.episode # e}
          /\ Unnoticed' = Unnoticed \cup {r \in Running : r.episode = e}
      BY <3>1, <3>2 DEF Running, Unnoticed
    <3>4. Requests(Running') = {r \in Requests(Running) : r.episode # e}
      BY <3>3 DEF Requests
    <3>5. Requests(Unnoticed') = Requests(Unnoticed) \cup {r \in Requests(Running) : r.episode = e}
      BY <3>3 DEF Requests
    <3> QED
      BY <3>4, <3>5
  <2> QED
    BY <2>1, <2>2
<1> QED
  BY <1>1, <1>2, <1>3 DEF Promise!CancelEpisode, Waiting, Running

LEMMA CloseMaps == ASSUME Close PROVE Promise!Close
<1>1. Held' = {} /\ Unnoticed' = {}
  BY DEF Close, Held, Unnoticed
<1> QED
  BY <1>1 DEF Close, Promise!Close, Requests, history, told

----------------------------------------------------------------------------
(***************************************************************************)
(* The supervisor: what moves a request, and what only moves pc.           *)
(***************************************************************************)
\* A step that neither changes the mailbox nor what is held goes unseen.
LEMMA QuietStutters ==
    ASSUME Supervisor, UNCHANGED <<queued, exhausted, results>>, Held' = Held
    PROVE  UNCHANGED Promise!vars
<1>1. UNCHANGED <<delivered, withdrawn, expired, nextRequestId, closed, cancelFloor>>
  BY SupervisorFrame
<1>2. Waiting' = Waiting /\ Unnoticed' = Unnoticed /\ Running' = Running
  BY <1>1 DEF Waiting, Unnoticed, Running
<1> QED
  BY <1>1, <1>2, UnseenStutters DEF View

\* The request that waits is taken: nothing was held before.
LEMMA TakenMaps ==
    ASSUME IndInv, Supervisor, Held = {}, Held' = queued, queued' = {}, ~exhausted,
           results' = results
    PROVE  Promise!Take
<1>1. UNCHANGED <<delivered, withdrawn, expired, nextRequestId, closed, cancelFloor>>
  BY SupervisorFrame
<1>2. \A r \in queued : ~(r.id < cancelFloor[r.episode])
  BY DEF IndInv, AbortInv, TypeOK, Request
<1>3. /\ Unnoticed = {} /\ Running = {} /\ Unnoticed' = {} /\ Running' = queued
      /\ Waiting = queued /\ Waiting' = {}
  BY <1>1, <1>2 DEF Unnoticed, Running, Waiting
<1>4. Requests(Running') = Requests(Waiting) /\ Requests({}) = {}
  BY <1>3 DEF Requests
<1> QED
  BY <1>1, <1>3, <1>4 DEF Promise!Take, Promise!outcomes, Waiting, Running

\* Every request in S gets an outcome; what is held is among them.
LEMMA FailedMaps ==
    ASSUME IndInv, Supervisor, ~exhausted, NEW S \in SUBSET (queued \cup Held), Held \subseteq S,
           Waiting' = queued \ S, Held' = {}, results' = results \cup Outcome(S, FALSE)
    PROVE  (\E T \in SUBSET Promise!Pending : Promise!Fail(T)) \/ UNCHANGED Promise!vars
<1>1. UNCHANGED <<delivered, withdrawn, expired, nextRequestId, closed, cancelFloor>>
  BY SupervisorFrame
<1>2. Waiting = queued /\ Running' = {} /\ Unnoticed' = {}
  BY DEF Waiting, Running, Unnoticed
<1>3. results' = results \cup Promise!Outcome(Requests(S), FALSE)
  BY OutcomesOfRequests
<1>4. CASE S = {}
  <2>1. Waiting' = Waiting /\ Held = {} /\ results' = results
    BY <1>2, <1>4 DEF Outcome
  <2>2. Running = {} /\ Unnoticed = {}
    BY <2>1 DEF Running, Unnoticed
  <2> QED
    BY <1>1, <1>2, <2>1, <2>2, UnseenStutters DEF View
<1>5. CASE S # {}
  <2>1. Requests(S) # {} /\ Requests(S) \subseteq Promise!Pending
    <3>1. S \subseteq {r \in queued : ~exhausted} \cup (Held \ Unnoticed) \cup Unnoticed
      OBVIOUS
    <3>2. Requests(S) \subseteq Promise!Pending
      BY <3>1 DEF Requests, Promise!Pending
    <3> QED
      BY <1>5, <3>2 DEF Requests
  <2>2. Requests(queued) \ Requests(S) = Requests(queued \ S)
    BY WithoutRequests, HeldIsIssued DEF IndInv
  <2>3. Requests(Waiting') = Requests(Waiting) \ Requests(S)
    BY <1>2, <2>2
  <2>4. Requests(Running) \ Requests(S) = {} /\ Requests(Unnoticed) \ Requests(S) = {}
        /\ Requests(Running') = {} /\ Requests(Unnoticed') = {}
    BY <1>2, HeldIsIssued DEF Requests, Running
  <2>5. Promise!Fail(Requests(S))
    BY <1>1, <1>3, <2>1, <2>3, <2>4 DEF Promise!Fail, Waiting, Running
  <2> QED
    BY <2>1, <2>5
<1> QED
  BY <1>4, <1>5

LEMMA PublishMaps == ASSUME IndInv, SupPublish PROVE Promise!Succeed
<1>1. /\ pc = "publish" /\ ~closed /\ localEpoch = epoch /\ abortReason = "none"
      /\ pc' = "finally" /\ results' = results \cup Outcome(request, TRUE)
      /\ UNCHANGED <<queued, exhausted>>
  BY DEF SupPublish, MayPublish, CancelReason
<1>2. UNCHANGED <<delivered, withdrawn, expired, nextRequestId, closed, cancelFloor>>
  BY SupervisorFrame DEF Supervisor
<1>3. active # {} /\ Held = request /\ Held # {}
  BY <1>1 DEF IndInv, HoldInv, Held
<1>4. Unnoticed = {} /\ Running = request
  BY <1>3, ActiveIsNoticed DEF Running
<1>5. Held' = {} /\ Running' = {} /\ Unnoticed' = {} /\ Waiting' = Waiting
  BY <1>1 DEF Held, Running, Unnoticed, Waiting
<1>6. Requests(Running) # {} /\ Requests({}) = {}
      /\ Promise!Outcome(Requests(Running), TRUE) = Outcome(request, TRUE)
  BY <1>3, <1>4, OutcomesOfRequests DEF Requests
<1> QED
  BY <1>1, <1>2, <1>4, <1>5, <1>6 DEF Promise!Succeed, Waiting, Running

LEMMA RecordFaultMaps ==
    ASSUME IndInv, SupRecordFault
    PROVE  (\E T \in SUBSET Promise!Pending : Promise!Fail(T)) \/ UNCHANGED Promise!vars
<1>1. Supervisor /\ Held' = {}
  BY RecordFaultCases DEF Supervisor, Held
<1>2. CASE localEpoch # epoch \/ closed
  <2>1. UNCHANGED <<queued, exhausted, results>> /\ Held = {}
    BY <1>2, RecordFaultCases DEF Held
  <2> QED
    BY <1>1, <2>1, QuietStutters
<1>3. CASE ~(localEpoch # epoch \/ closed)
  <2>1. /\ exhausted' = (exhausted \/ OverBudget(failures'))
        /\ queued' = queued \ Refused(failures')
        /\ results' = results \cup Outcome(Failed \cup Refused(failures'), FALSE)
    BY <1>3, RecordFaultCases
  <2>2. ~exhausted /\ Held = Failed
    BY <1>3, RecordFaultCases DEF IndInv, BudgetInv, Held, Failed
  <2>3. Waiting' = queued \ (Failed \cup Refused(failures'))
    <3>1. queued \cap Failed = {}
      BY DEF IndInv, OrderInv, Failed
    <3>2. CASE OverBudget(failures')
      BY <2>1, <3>2 DEF Waiting, Refused
    <3>3. CASE ~OverBudget(failures')
      BY <2>1, <2>2, <3>1, <3>3 DEF Waiting, Refused
    <3> QED
      BY <3>2, <3>3
  <2>4. Failed \cup Refused(failures') \in SUBSET (queued \cup Held)
    BY <2>2 DEF Refused
  <2> QED
    BY <1>1, <2>1, <2>2, <2>3, <2>4, FailedMaps
<1> QED
  BY <1>2, <1>3

LEMMA FailingMaps ==
    ASSUME IndInv, SupFailing
    PROVE  (\E T \in SUBSET Promise!Pending : Promise!Fail(T)) \/ UNCHANGED Promise!vars
<1> DEFINE lost == {r \in active \cup queued : ~closed /\ r.epoch = epoch}
<1>1. /\ Supervisor /\ Held = {} /\ Held' = {} /\ exhausted' = exhausted
      /\ queued' = {} /\ results' = results \cup Outcome(lost, FALSE)
  BY DEF SupFailing, Supervisor, Held, budget
<1>2. lost = queued
  BY DEF SupFailing, IndInv, HoldInv, EpochInv
<1>3. exhausted => queued = {}
  BY DEF SupFailing, IndInv, BudgetInv
<1> HIDE DEF lost
<1>4. CASE exhausted
  <2>1. UNCHANGED <<queued, exhausted, results>>
    BY <1>1, <1>2, <1>3, <1>4 DEF Outcome
  <2> QED
    BY <1>1, <2>1, QuietStutters
<1>5. CASE ~exhausted
  <2>1. Waiting' = queued \ lost /\ lost \in SUBSET (queued \cup Held)
    BY <1>1, <1>2 DEF Waiting
  <2> QED
    BY <1>1, <1>5, <2>1, FailedMaps
<1> QED
  BY <1>4, <1>5
----------------------------------------------------------------------------
LEMMA PromiseInit == Init => Promise!Init
  BY DEF Init, Promise!Init, Requests, Held, Unnoticed

LEMMA SupervisorMaps == IndInv /\ Supervisor => [Promise!Next]_Promise!vars
<1> SUFFICES ASSUME IndInv, Supervisor PROVE [Promise!Next]_Promise!vars
  OBVIOUS
<1> USE DEF Steady, Goto, mailbox, call, budget, identity, handle, childVars, history, told,
            floors
<1>a. IndInv => HoldInv /\ EpochInv /\ BudgetInv
  BY DEF IndInv
<1>1. CASE SupTop \/ SupKeep \/ SupStart \/ SupStartFails \/ SupFault \/ SupReceive
           \/ SupDispatchNothing \/ SupFinally \/ SupEnd
  <2>1. Held' = Held
    <3>1. CASE SupTop \/ SupKeep \/ SupStart \/ SupStartFails \/ SupDispatchNothing
               \/ SupFinally \/ SupEnd
      BY <3>1 DEF SupTop, SupKeep, SupStart, SupStartFails, SupDispatchNothing, SupFinally,
           SupEnd, Held, Admitted, Dispatching
    <3>2. CASE SupFault
      BY <1>a, <3>2 DEF SupFault, Held, HoldInv
    <3>3. CASE SupReceive
      BY <1>a, <3>3 DEF SupReceive, Expected, Held, HoldInv
    <3> QED
      BY <1>1, <3>1, <3>2, <3>3
  <2>2. UNCHANGED <<queued, exhausted, results>>
    BY <1>1 DEF SupTop, SupKeep, SupStart, SupStartFails, SupFault, SupReceive,
         SupDispatchNothing, SupFinally, SupEnd
  <2> QED
    BY <2>1, <2>2, QuietStutters
<1>2. CASE SupCancelled
  <2>1. UNCHANGED <<queued, exhausted, results, request, localEpoch, epoch, closed, abortReason>>
    BY <1>2 DEF SupCancelled
  <2>2. Held = {} /\ Held' = {}
    <3>1. CASE pc \in {"starting", "dispatch"}
      BY <1>2, <3>1 DEF SupCancelled, CancelReason, Held
    <3>2. CASE pc \in {"executing", "publish"}
      BY <1>2, <2>1, <3>2 DEF SupCancelled, CancelReason, Held
    <3> QED
      BY <1>2, <3>1, <3>2 DEF SupCancelled
  <2> QED
    BY <2>1, <2>2, QuietStutters
<1>3. CASE SupDispatchExpired
  <2>1. /\ ~exhausted /\ exhausted' = exhausted /\ Held = {} /\ Held' = {} /\ queued' = {}
        /\ results' = results \cup Outcome(queued, FALSE)
    BY <1>3, <1>a DEF SupDispatchExpired, ExpiredOutcome, Dispatching, BudgetInv, Held
  <2>2. Waiting' = queued \ queued
    BY <2>1 DEF Waiting
  <2>3. (\E T \in SUBSET Promise!Pending : Promise!Fail(T)) \/ UNCHANGED Promise!vars
    BY <2>1, <2>2, FailedMaps
  <2> QED
    BY <2>3 DEF Promise!Next
<1>4. CASE SupDispatch
  <2>1. /\ ~exhausted /\ queued' = {} /\ results' = results /\ Held = {}
    BY <1>4, <1>a DEF SupDispatch, Dispatching, BudgetInv, Held
  <2>2. Held' = queued
    BY <1>4 DEF SupDispatch, Dispatching, DispatchAbort, CancelReason, Held
  <2> QED
    BY <2>1, <2>2, TakenMaps DEF Promise!Next
<1>5. CASE SupPublish
  BY <1>5, PublishMaps DEF Promise!Next
<1>6. CASE SupStartFault
  <2>1. ~exhausted /\ request = {} /\ Held = {} /\ UNCHANGED <<results, exhausted>>
        /\ (closed => queued = {})
    BY <1>6, <1>a DEF SupStartFault, BudgetInv, HoldInv, EpochInv, Held
  <2>2. CASE epoch = localEpoch
    <3>1. queued' = {} /\ Held' = queued
      BY <1>6, <2>1, <2>2 DEF SupStartFault, Retired, Held
    <3> QED
      BY <2>1, <3>1, TakenMaps DEF Promise!Next
  <2>3. CASE epoch # localEpoch
    <3>1. queued' = queued /\ Held' = Held
      BY <1>6, <2>1, <2>3 DEF SupStartFault, Retired, Held
    <3> QED
      BY <2>1, <3>1, QuietStutters
  <2> QED
    BY <2>2, <2>3
<1>7. CASE SupRecordFault
  BY <1>7, RecordFaultMaps DEF Promise!Next
<1>8. ASSUME NEW o \in AllStopOutcomes, SupStop(o) \/ SupStopStale(o) \/ SupExit(o)
      PROVE  UNCHANGED Promise!vars
  <2>1. UNCHANGED <<queued, exhausted, results>> /\ Held' = Held
    BY <1>8 DEF SupStop, SupStopStale, SupExit, Stop, AfterStop, Held
  <2> QED
    BY <2>1, QuietStutters
<1>9. CASE SupFailing
  BY <1>9, FailingMaps DEF Promise!Next
<1>10. CASE SupFailClosed
  <2>1. exhausted' = TRUE /\ Held = {} /\ Held' = {} /\ results' = results
    BY <1>10 DEF SupFailClosed, Held
  <2>2. Unnoticed = {} /\ Unnoticed' = {} /\ Waiting' = {}
    BY <2>1 DEF Unnoticed, Waiting
  <2>3. UNCHANGED <<delivered, withdrawn, expired, nextRequestId, closed>>
    BY SupervisorFrame
  <2>4. Promise!Abandon
    BY <2>1, <2>2, <2>3 DEF Promise!Abandon, Promise!outcomes, Waiting, Requests
  <2> QED
    BY <2>4 DEF Promise!Next
<1> QED
  BY <1>1, <1>2, <1>3, <1>4, <1>5, <1>6, <1>7, <1>8, <1>9, <1>10 DEF Supervisor

(***************************************************************************)
(* Every step is a step of LatestOnlyBackend or leaves it alone.           *)
(***************************************************************************)
LEMMA PromiseStep == IndInv /\ [Next]_vars => [Promise!Next]_Promise!vars
<1> SUFFICES ASSUME IndInv, [Next]_vars PROVE [Promise!Next]_Promise!vars
  OBVIOUS
<1>1. CASE Reset \/ Poll \/ Close
  BY <1>1, ResetMaps, PollMaps, CloseMaps DEF Promise!Next
<1>2. ASSUME NEW e \in Episodes, NEW d \in Deadlines, Submit(e, d) PROVE Promise!Next
  BY <1>2, SubmitMaps DEF Promise!Next
<1>3. ASSUME NEW e \in Episodes, CancelEpisode(e) PROVE Promise!Next
  BY <1>3, CancelEpisodeMaps DEF Promise!Next
<1>4. ASSUME NEW id \in Ids(queued \cup active), CancelQueued(id) \/ ExpireRequest(id)
      PROVE  Promise!Next
  BY <1>4, WithdrawMaps DEF Promise!Next
<1>5. CASE Child \/ UNCHANGED vars
  <2>1. UNCHANGED <<queued, exhausted, results, request, pc, closed, localEpoch, epoch,
                    abortReason, cancelFloor, delivered, withdrawn, expired, nextRequestId>>
    BY <1>5, ChildFrame, StutterFrame
  <2>2. Waiting' = Waiting /\ Held' = Held
    BY <2>1 DEF Waiting, Held
  <2>3. Unnoticed' = Unnoticed /\ Running' = Running
    BY <2>1, <2>2 DEF Unnoticed, Running
  <2> QED
    BY <2>1, <2>2, <2>3, UnseenStutters DEF View
<1>6. CASE Supervisor
  BY <1>6, SupervisorMaps
<1> QED
  BY <1>1, <1>2, <1>3, <1>4, <1>5, <1>6 DEF Next, Control

(***************************************************************************)
(* The process backend is a latest-only backend through every fault,       *)
(* restart, refusal, expiry and failed stop: an outcome comes only from a  *)
(* request that waits or is worked on, once, and what was replaced,        *)
(* withdrawn or reset has none.                                            *)
(***************************************************************************)
THEOREM ProcessImplementsLatestOnly == Spec => ImplementsLatestOnly
  BY Invariance, PromiseInit, PromiseStep, PTL DEF Spec, ImplementsLatestOnly, Promise!Spec
============================================================================
