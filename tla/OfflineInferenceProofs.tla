----------------------- MODULE OfflineInferenceProofs -----------------------
(***************************************************************************)
(* What OfflineInference guarantees for every list of samples, number of   *)
(* repeats and limit of attempts, and for every restart budget and way     *)
(* _stop may end.  The replay only does to the backend what any control    *)
(* thread may do, so the invariant of ProcessBackendProofs holds in it; on *)
(* top of that one ReplayInv carries the two safety properties.            *)
(***************************************************************************)
EXTENDS OfflineInference, ProcessBackendProofs, FiniteSetTheorems, SequenceTheorems

Statuses == {"unanswered", "failed", "invalid", "succeeded"}
AttemptRecord == [position : Nat, id : Nat, status : Statuses]
InProgress == {"submit", "waiting", "sorting", "collecting"}
Asked == {"waiting", "sorting", "collecting"}

(***************************************************************************)
(* Where the replay stands: the present sample is one of the list, the     *)
(* present attempt within the limit, and an exit code comes last.          *)
(***************************************************************************)
PlaceInv ==
    /\ config \in Configs
    /\ phase \in InProgress \cup {"opening", "sample", "joining", "finished"}
    /\ position \in Nat /\ attempt \in Nat /\ attempts \in Seq(AttemptRecord)
    /\ receipt \subseteq Nat /\ \A m, n \in receipt : m = n
    /\ exitCode # -1 => phase = "finished"
    /\ phase \in {"opening", "sample"} => attempt = 0
    /\ phase \in InProgress => position < Total /\ attempt < config.attempts

(***************************************************************************)
(* The request that is asked for is newer than every recorded one.         *)
(***************************************************************************)
ReceiptInv ==
    /\ \A id \in receipt : id < nextRequestId /\ \A i \in DOMAIN attempts : attempts[i].id < id
    /\ \A i \in DOMAIN attempts : attempts[i].id < nextRequestId

(***************************************************************************)
(* The records of the present sample are the last ones, as many as it had  *)
(* attempts, and none of them ended it.                                    *)
(***************************************************************************)
RecordsInv ==
    \A i \in DOMAIN attempts :
        /\ attempts[i].position < Total /\ attempts[i].position <= position
        /\ attempts[i].position = position =>
               attempts[i].status \in {"failed", "unanswered"} /\ i > Len(attempts) - attempt

(***************************************************************************)
(* The replay has been told, or will be with the next drain, of the        *)
(* process of every request that runs or succeeded.                        *)
(***************************************************************************)
Started == Ids({d \in diagnostics : d.kind = "started"}) \cup Ids(generations)

OutcomesInv ==
    /\ batch \cup result \subseteq delivered
    /\ Ids(result) \subseteq receipt
    /\ Ids(active) \subseteq Started
    /\ \A r \in results \cup batch : r.ok => r.id \in Started
    /\ \A r \in result : r.ok => r.id \in Ids(generations)

ReplayInv == PlaceInv /\ ReceiptInv /\ RecordsInv /\ OutcomesInv
                      /\ AttemptsAreOwn /\ ExitIsHonest
----------------------------------------------------------------------------
(***************************************************************************)
(* What the replay is called with.                                         *)
(***************************************************************************)
LEMMA ConfigType ==
    ASSUME PlaceInv
    PROVE  /\ config.samples \in Seq(Episodes) /\ Count \in Nat
           /\ config.attempts \in Nat \ {0} /\ Total \in Nat
<1>1. config \in Configs
  BY DEF PlaceInv
<1>2. config.samples \in Seq(Episodes) /\ config.repeats \in Nat /\ config.attempts \in Nat \ {0}
  BY <1>1, ReplayAssumption
<1>3. PICK n \in Nat : n = Count
  BY <1>2 DEF Count
<1>4. n * config.repeats \in Nat
  BY <1>2
<1> QED
  BY <1>2, <1>3, <1>4 DEF Total

LEMMA EpisodeType ==
    ASSUME PlaceInv, position < Total
    PROVE  Episode(position) \in Episodes
<1>1. PICK n \in Nat : n = Count
  BY ConfigType
<1>2. PICK r \in Nat : r = config.repeats
  BY ReplayAssumption DEF PlaceInv
<1>3. position \in Nat /\ position < n * r
  BY <1>1, <1>2 DEF PlaceInv, Total
<1>4. n # 0
  BY <1>2, <1>3
<1>5. position % n \in 0 .. n - 1
  BY <1>1, <1>3, <1>4
<1>6. PICK k \in 1 .. n : k = (position % n) + 1
  BY <1>1, <1>5
<1>7. config.samples[k] \in Episodes
  BY <1>1, <1>6, ConfigType DEF Count
<1> QED
  BY <1>1, <1>6, <1>7 DEF Episode

(***************************************************************************)
(* The replay uses the backend like any other control thread: what it does *)
(* is a step of ProcessBackend, or none of it.                             *)
(***************************************************************************)
LEMMA BackendCases ==
    PlaceInv /\ [ReplayNext]_replayVars => Control \/ Child \/ SupervisorStep \/ UNCHANGED vars
<1> SUFFICES ASSUME PlaceInv, [ReplayNext]_replayVars
             PROVE  Control \/ Child \/ SupervisorStep \/ UNCHANGED vars
  OBVIOUS
<1>1. CASE CreateBackend \/ CreationRaises \/ DeadlinePasses \/ Finish \/ SortStep
           \/ RecordFailure \/ RecordInvalid \/ RecordSuccess
  BY <1>1 DEF CreateBackend, CreationRaises, DeadlinePasses, Finish, SortStep, Local,
       RecordFailure, RecordInvalid, RecordSuccess, backend
<1>2. CASE EndReplay \/ ResetRaises \/ Interrupt
  BY <1>2 DEF EndReplay, ResetRaises, Interrupt, LeaveWith, Control
<1>3. CASE ResetEpisode
  BY <1>3 DEF ResetEpisode, Control
<1>4. CASE SubmitSample
  <2>1. position < Total
    BY <1>4 DEF SubmitSample, PlaceInv, InProgress, Continues
  <2>2. Submit(Episode(position), FALSE)
    BY <1>4 DEF SubmitSample
  <2> QED
    BY <2>1, <2>2, EpisodeType, ReplayAssumption DEF Control
<1>5. CASE PollStep
  BY <1>5 DEF PollStep, Control
<1>6. CASE RecordUnanswered
  <2>1. CASE UNCHANGED backend
    BY <2>1 DEF backend
  <2>2. ASSUME NEW id \in receipt, ExpireRequest(id) PROVE Control
    <3>1. id \in Ids(queued) \/ id \in Ids(active)
      BY <2>2 DEF ExpireRequest
    <3>2. id \in Ids(queued \cup active)
      BY <3>1 DEF Ids
    <3> QED
      BY <2>2, <3>2 DEF Control
  <2> QED
    BY <1>6, <2>1, <2>2 DEF RecordUnanswered
<1>7. CASE SupervisorStep \/ ChildStep
  BY <1>7 DEF ChildStep
<1>8. CASE UNCHANGED replayVars
  BY <1>8 DEF replayVars, backend
<1> QED
  BY <1>1, <1>2, <1>3, <1>4, <1>5, <1>6, <1>7, <1>8 DEF ReplayNext, ReplayStep

LEMMA BackendStep == PlaceInv /\ [ReplayNext]_replayVars => [Next]_vars
  BY BackendCases DEF SupervisorStep, Next

----------------------------------------------------------------------------
(***************************************************************************)
(* What a record adds, and what becomes of the present sample.             *)
(***************************************************************************)
Recorded(id, status) ==
    /\ attempts' = Append(attempts, [position |-> position, id |-> id, status |-> status])
    /\ UNCHANGED config
    /\ status = "failed" => \E r \in result : ~r.ok
    /\ status = "succeeded" => \E r \in result : r.ok
    /\ \/ phase' = "sample" /\ position' = position + 1 /\ attempt' = 0
       \/ /\ status \in {"failed", "unanswered"} /\ attempt + 1 # config.attempts
          /\ phase' = "submit" /\ attempt' = attempt + 1 /\ UNCHANGED position

LEMMA RecordCases ==
    ASSUME RecordUnanswered \/ RecordFailure \/ RecordInvalid \/ RecordSuccess
    PROVE  /\ phase = "collecting" /\ receipt' = {} /\ result' = {} /\ UNCHANGED exitCode
           /\ \E id \in receipt, status \in Statuses : Recorded(id, status)
<1>1. ASSUME NEW status \in Statuses, Record(status),
             status = "invalid" => unavailable',
             status = "failed" => \E r \in result : ~r.ok,
             status = "succeeded" => \E r \in result : r.ok
      PROVE  /\ phase = "collecting" /\ receipt' = {} /\ result' = {} /\ UNCHANGED exitCode
             /\ \E id \in receipt : Recorded(id, status)
  <2>1. PICK id \in receipt : attempts' = Append(attempts,
             [position |-> position, id |-> id, status |-> status])
    BY <1>1 DEF Record
  <2>2. Recorded(id, status)
    <3>1. CASE status = "succeeded" \/ unavailable' \/ attempt + 1 = config.attempts
      BY <1>1, <2>1, <3>1 DEF Record, Recorded
    <3>2. CASE ~(status = "succeeded" \/ unavailable' \/ attempt + 1 = config.attempts)
      BY <1>1, <2>1, <3>2 DEF Record, Recorded, Statuses
    <3> QED
      BY <3>1, <3>2
  <2> QED
    BY <1>1, <2>2 DEF Record, outcome
<1>2. CASE RecordUnanswered
  BY <1>1, <1>2 DEF RecordUnanswered, Statuses
<1>3. CASE RecordFailure
  BY <1>1, <1>3 DEF RecordFailure, Statuses
<1>4. CASE RecordInvalid
  BY <1>1, <1>4 DEF RecordInvalid, Statuses
<1>5. CASE RecordSuccess
  BY <1>1, <1>5 DEF RecordSuccess, Statuses
<1> QED
  BY <1>2, <1>3, <1>4, <1>5

\* Every other step leaves the records alone.
Others == \/ CreateBackend \/ CreationRaises \/ EndReplay \/ ResetEpisode \/ ResetRaises
          \/ SubmitSample \/ PollStep \/ SortStep \/ DeadlinePasses \/ Interrupt \/ Finish
          \/ SupervisorStep \/ ChildStep \/ UNCHANGED replayVars

LEMMA OthersKeep == Others => UNCHANGED <<config, position, attempt, attempts>>
  BY DEF Others, CreateBackend, CreationRaises, EndReplay, ResetEpisode, ResetRaises,
     SubmitSample, PollStep, SortStep, DeadlinePasses, Interrupt, Finish, SupervisorStep,
     ChildStep, LeaveWith, records, replay, replayVars

LEMMA ReplayCases ==
    [ReplayNext]_replayVars =>
        Others \/ RecordUnanswered \/ RecordFailure \/ RecordInvalid \/ RecordSuccess
  BY DEF ReplayNext, ReplayStep, Others

\* A record comes after all others.
LEMMA RecordedLog ==
    ASSUME PlaceInv, NEW id, NEW status,
           attempts' = Append(attempts, [position |-> position, id |-> id, status |-> status])
    PROVE  /\ Len(attempts) \in Nat /\ Len(attempts') = Len(attempts) + 1
           /\ DOMAIN attempts = 1 .. Len(attempts)
           /\ DOMAIN attempts' = 1 .. Len(attempts) + 1
           /\ \A i \in DOMAIN attempts : attempts'[i] = attempts[i]
           /\ attempts'[Len(attempts) + 1]
                  = [position |-> position, id |-> id, status |-> status]
<1> DEFINE rec == [position |-> position, id |-> id, status |-> status]
<1>1. attempts \in Seq(AttemptRecord) /\ attempts' = Append(attempts, rec)
  BY DEF PlaceInv
<1> HIDE DEF rec
<1>2. Len(attempts) \in Nat /\ DOMAIN attempts = 1 .. Len(attempts)
  BY <1>1
<1>3. /\ Len(attempts') = Len(attempts) + 1
      /\ \A i \in 1 .. Len(attempts) : attempts'[i] = attempts[i]
      /\ attempts'[Len(attempts) + 1] = rec
      /\ DOMAIN attempts' = 1 .. Len(attempts) + 1
  BY <1>1
<1> QED
  BY <1>2, <1>3 DEF rec
----------------------------------------------------------------------------
(***************************************************************************)
(* The parts of the invariant, one after the other.                        *)
(***************************************************************************)
LEMMA PlaceStep == TypeOK /\ PlaceInv /\ [ReplayNext]_replayVars => PlaceInv'
<1> SUFFICES ASSUME TypeOK, PlaceInv, [ReplayNext]_replayVars PROVE PlaceInv'
  OBVIOUS
<1>1. CASE Others
  <2>1. UNCHANGED <<config, position, attempt, attempts>>
    BY <1>1, OthersKeep
  <2>2. Total' = Total /\ config'.attempts = config.attempts
    BY <2>1 DEF Total, Count
  <2>3. CASE CreateBackend \/ CreationRaises \/ EndReplay \/ ResetRaises \/ Finish \/ Interrupt
    BY <2>1, <2>2, <2>3 DEF CreateBackend, CreationRaises, EndReplay, ResetRaises, Finish,
         Interrupt, LeaveWith, Step, answer, outcome, PlaceInv, InProgress, Continues
  <2>4. CASE ResetEpisode
    BY <2>1, <2>2, <2>4, ConfigType DEF ResetEpisode, answer, outcome, PlaceInv, InProgress,
         Continues
  <2>5. CASE SubmitSample
    BY <2>1, <2>2, <2>5, ConfigType DEF TypeOK, SubmitSample, outcome, PlaceInv, InProgress, Continues
  <2>6. CASE PollStep \/ SortStep \/ DeadlinePasses
    BY <2>1, <2>2, <2>6 DEF PollStep, SortStep, DeadlinePasses, Step, answer, outcome,
         PlaceInv, InProgress
  <2>7. CASE SupervisorStep \/ ChildStep \/ UNCHANGED replayVars
    BY <2>1, <2>2, <2>7 DEF SupervisorStep, ChildStep, replayVars, replay, answer, outcome,
         PlaceInv
  <2> QED
    BY <1>1, <2>3, <2>4, <2>5, <2>6, <2>7 DEF Others
<1>2. CASE RecordUnanswered \/ RecordFailure \/ RecordInvalid \/ RecordSuccess
  <2>1. /\ phase = "collecting" /\ UNCHANGED exitCode
        /\ \E id \in receipt, status \in Statuses : Recorded(id, status)
    BY <1>2, RecordCases
  <2>2. ASSUME NEW id \in receipt, id \in Nat, NEW status \in Statuses, Recorded(id, status)
        PROVE  PlaceInv'
    <3>1. position \in Nat /\ attempt \in Nat /\ position < Total
          /\ attempt < config.attempts /\ exitCode = -1
      BY <2>1 DEF PlaceInv, InProgress
    <3>2. attempts' \in Seq(AttemptRecord)
      <4>1. attempts \in Seq(AttemptRecord)
        BY DEF PlaceInv
      <4>2. [position |-> position, id |-> id, status |-> status] \in AttemptRecord
        BY <2>2, <3>1 DEF AttemptRecord
      <4> QED
        BY <2>2, <4>1, <4>2 DEF Recorded
    <3>3. Total' = Total /\ config'.attempts = config.attempts /\ config' \in Configs
      BY <2>2 DEF Recorded, Total, Count, PlaceInv
    <3>4. receipt' = {} /\ exitCode' = -1
      BY <1>2, <3>1, RecordCases
    <3> QED
      BY <2>1, <2>2, <3>1, <3>2, <3>3, <3>4, ConfigType DEF Recorded, PlaceInv, InProgress
  <2> QED
    BY <2>1, <2>2 DEF PlaceInv
<1> QED
  BY <1>1, <1>2, ReplayCases

LEMMA IdsGrow ==
    TypeOK /\ [Next]_vars =>
        nextRequestId' \in Nat /\ nextRequestId' >= nextRequestId /\ delivered \subseteq delivered'
<1> SUFFICES ASSUME TypeOK, [Next]_vars
             PROVE  /\ nextRequestId' \in Nat /\ nextRequestId' >= nextRequestId
                    /\ delivered \subseteq delivered'
  OBVIOUS
<1>1. nextRequestId \in Nat
  BY DEF TypeOK
<1>2. CASE Control
  <2>1. \/ UNCHANGED nextRequestId
        \/ nextRequestId' = nextRequestId + 1
    BY <1>2 DEF Control, Reset, Submit, Poll, CancelQueued, ExpireRequest, CancelEpisode,
         Close, identity
  <2>2. delivered \subseteq delivered'
    BY <1>2 DEF Control, Reset, Submit, Poll, CancelQueued, ExpireRequest, CancelEpisode,
         Close, history, told
  <2> QED
    BY <1>1, <2>1, <2>2
<1>3. CASE Child
  BY <1>1, <1>3, ChildFrame
<1>4. CASE Supervisor
  BY <1>1, <1>4, SupervisorFrame
<1>5. CASE UNCHANGED vars
  BY <1>1, <1>5, StutterFrame
<1> QED
  BY <1>2, <1>3, <1>4, <1>5 DEF Next

LEMMA ReceiptStep ==
    TypeOK /\ PlaceInv /\ ReceiptInv /\ [ReplayNext]_replayVars => ReceiptInv'
<1> SUFFICES ASSUME TypeOK, PlaceInv, ReceiptInv, [ReplayNext]_replayVars PROVE ReceiptInv'
  OBVIOUS
<1>1. /\ nextRequestId \in Nat /\ nextRequestId' \in Nat /\ nextRequestId' >= nextRequestId
      /\ \A i \in DOMAIN attempts : attempts[i].id \in Nat
      /\ receipt \subseteq Nat
  <2>1. \A i \in DOMAIN attempts : attempts[i] \in AttemptRecord
    BY DEF PlaceInv
  <2> QED
    BY <2>1, BackendStep, IdsGrow DEF TypeOK, PlaceInv, AttemptRecord
<1>2. CASE SubmitSample
  <2>1. receipt' = {nextRequestId} /\ nextRequestId' = nextRequestId + 1
    BY <1>2 DEF SubmitSample, Submit
  <2>2. UNCHANGED attempts
    BY <1>2, OthersKeep DEF Others
  <2> QED
    BY <1>1, <2>1, <2>2 DEF ReceiptInv
<1>3. CASE Others /\ ~SubmitSample
  <2>1. UNCHANGED <<attempts, receipt>>
    <3>1. UNCHANGED receipt
      BY <1>3 DEF Others, CreateBackend, CreationRaises, EndReplay, ResetEpisode, ResetRaises,
           PollStep, SortStep, DeadlinePasses, Interrupt, Finish, SupervisorStep, ChildStep,
           LeaveWith, answer, replay, replayVars
    <3> QED
      BY <1>3, <3>1, OthersKeep
  <2> QED
    BY <1>1, <2>1 DEF ReceiptInv
<1>4. CASE RecordUnanswered \/ RecordFailure \/ RecordInvalid \/ RecordSuccess
  <2>1. PICK id \in receipt, status \in Statuses : Recorded(id, status)
    BY <1>4, RecordCases
  <2>0. /\ Len(attempts) \in Nat /\ Len(attempts') = Len(attempts) + 1
        /\ DOMAIN attempts = 1 .. Len(attempts)
        /\ DOMAIN attempts' = 1 .. Len(attempts) + 1
        /\ \A i \in DOMAIN attempts : attempts'[i] = attempts[i]
        /\ attempts'[Len(attempts) + 1]
               = [position |-> position, id |-> id, status |-> status]
    BY <2>1, RecordedLog DEF Recorded
  <2>2. receipt' = {}
    BY <1>4, RecordCases
  <2>3. id < nextRequestId /\ id \in Nat
    BY <1>1, <2>1 DEF ReceiptInv
  <2>4. ASSUME NEW i \in DOMAIN attempts' PROVE attempts'[i].id < nextRequestId'
    <3>1. CASE i \in DOMAIN attempts
      BY <1>1, <2>0, <3>1 DEF ReceiptInv
    <3>2. CASE i = Len(attempts) + 1
      BY <1>1, <2>0, <2>3, <3>2
    <3> QED
      BY <2>0, <2>4, <3>1, <3>2
  <2> QED
    BY <2>2, <2>4 DEF ReceiptInv
<1> QED
  BY <1>2, <1>3, <1>4, ReplayCases

LEMMA RecordsStep ==
    PlaceInv /\ RecordsInv /\ [ReplayNext]_replayVars => RecordsInv'
<1> SUFFICES ASSUME PlaceInv, RecordsInv, [ReplayNext]_replayVars PROVE RecordsInv'
  OBVIOUS
<1>1. CASE Others
  <2>1. UNCHANGED <<config, position, attempt, attempts>>
    BY <1>1, OthersKeep
  <2> QED
    BY <2>1 DEF RecordsInv, Total, Count
<1>2. CASE RecordUnanswered \/ RecordFailure \/ RecordInvalid \/ RecordSuccess
  <2>1. PICK id \in receipt, status \in Statuses : Recorded(id, status)
    BY <1>2, RecordCases
  <2>2. phase = "collecting" /\ position < Total /\ position \in Nat /\ attempt \in Nat
    BY <1>2, RecordCases DEF PlaceInv, InProgress
  <2>3. Total' = Total /\ Total \in Nat
    BY <2>1, ConfigType DEF Recorded, Total, Count
  <2>4. \/ position' = position + 1 /\ attempt' = 0
        \/ /\ status \in {"failed", "unanswered"}
           /\ position' = position /\ attempt' = attempt + 1
    BY <2>1 DEF Recorded
  <2>0. /\ Len(attempts) \in Nat /\ Len(attempts') = Len(attempts) + 1
        /\ DOMAIN attempts = 1 .. Len(attempts)
        /\ DOMAIN attempts' = 1 .. Len(attempts) + 1
        /\ \A i \in DOMAIN attempts : attempts'[i] = attempts[i]
        /\ attempts'[Len(attempts) + 1]
               = [position |-> position, id |-> id, status |-> status]
    BY <2>1, RecordedLog DEF Recorded
  <2>5. PICK n \in Nat : n = Len(attempts)
    BY <2>0
  <2>m. PICK m \in Nat : m = Len(attempts') /\ m = n + 1
    BY <2>0, <2>5
  <2>6. ASSUME NEW i \in 1 .. n
        PROVE  /\ attempts'[i].position < Total' /\ attempts'[i].position <= position'
               /\ attempts'[i].position = position' =>
                      /\ attempts'[i].status \in {"failed", "unanswered"}
                      /\ i > m - attempt'
    <3>1. i \in DOMAIN attempts /\ attempts'[i] = attempts[i]
      BY <2>0, <2>5
    <3>2. attempts[i].position \in Nat
      <4>1. attempts[i] \in AttemptRecord
        BY <3>1 DEF PlaceInv
      <4> QED
        BY <4>1 DEF AttemptRecord
    <3>3. /\ attempts[i].position < Total /\ attempts[i].position <= position
          /\ attempts[i].position = position =>
                 attempts[i].status \in {"failed", "unanswered"} /\ i > n - attempt
      BY <2>5, <3>1 DEF RecordsInv
    <3> QED
      BY <2>2, <2>3, <2>4, <2>m, <3>1, <3>2, <3>3
  <2>7. ASSUME NEW i \in DOMAIN attempts', i = n + 1
        PROVE  /\ attempts'[i].position < Total' /\ attempts'[i].position <= position'
               /\ attempts'[i].position = position' =>
                      /\ attempts'[i].status \in {"failed", "unanswered"}
                      /\ i > m - attempt'
    <3>1. attempts'[i].position = position /\ attempts'[i].status = status
      BY <2>0, <2>5, <2>7
    <3> QED
      BY <2>2, <2>3, <2>4, <2>m, <2>7, <3>1
  <2>8. \A i \in DOMAIN attempts' : i \in 1 .. n \/ i = n + 1
    BY <2>0, <2>5
  <2> DEFINE Good(i) == /\ attempts'[i].position < Total' /\ attempts'[i].position <= position'
                        /\ attempts'[i].position = position' =>
                               /\ attempts'[i].status \in {"failed", "unanswered"}
                               /\ i > m - attempt'
  <2>9. ASSUME NEW i \in DOMAIN attempts' PROVE Good(i)
    <3>1. CASE i \in 1 .. n
      BY <2>6, <2>8, <3>1
    <3>2. CASE i = n + 1
      BY <2>7, <2>8, <3>2
    <3> QED
      BY <2>8, <3>1, <3>2
  <2> QED
    BY <2>9, <2>m DEF RecordsInv
<1> QED
  BY <1>1, <1>2, ReplayCases
(***************************************************************************)
(* AttemptsAreOwn in two parts: the order of the records, and the outcome  *)
(* each was made of.                                                       *)
(***************************************************************************)
InOrder(a, b, distance) ==
    /\ a.id < b.id
    /\ a.position = b.position =>
           a.status \in {"failed", "unanswered"} /\ distance < config.attempts

Justified(a) ==
    /\ a.status = "failed" => \E r \in delivered : r.id = a.id /\ ~r.ok
    /\ a.status = "succeeded" => /\ \E r \in delivered : r.id = a.id /\ r.ok
                                 /\ a.id \in Ids(generations)

LEMMA AttemptsMean ==
    /\ AttemptsAreOwn <=>
           /\ \A i, j \in DOMAIN attempts : i < j => InOrder(attempts[i], attempts[j], j - i)
           /\ \A i \in DOMAIN attempts : Justified(attempts[i])
    /\ AttemptsAreOwn' <=>
           /\ \A i, j \in DOMAIN attempts' : i < j => InOrder(attempts[i], attempts[j], j - i)'
           /\ \A i \in DOMAIN attempts' : Justified(attempts[i])'
  BY DEF AttemptsAreOwn, InOrder, Justified, Ids
(***************************************************************************)
(* A success is published only for the request in _active.                 *)
(***************************************************************************)
LEMMA FailuresAreNotOk == ASSUME NEW S, NEW r \in Outcome(S, FALSE) PROVE r.ok = FALSE
  BY DEF Outcome

LEMMA NewSuccess ==
    HoldInv /\ [Next]_vars => \A r \in results' \ results : r.ok => r.id \in Ids(active)
<1> SUFFICES ASSUME HoldInv, [Next]_vars, NEW r \in results' \ results, r.ok
             PROVE  r.id \in Ids(active)
  OBVIOUS
<1>1. CASE Control
  <2>1. ASSUME NEW e \in Episodes, NEW d \in Deadlines, Submit(e, d) PROVE FALSE
    <3>1. PICK new : results' = results \/ results' = results \cup Outcome({new}, FALSE)
      BY <2>1 DEF Submit
    <3> QED
      BY <3>1, FailuresAreNotOk
  <2>2. CASE Reset \/ Poll \/ Close \/ \E e \in Episodes : CancelEpisode(e)
    BY <2>2 DEF Reset, Poll, AfterPoll, Close, CancelEpisode
  <2>3. CASE \E id \in Ids(queued \cup active) : CancelQueued(id) \/ ExpireRequest(id)
    BY <2>3 DEF CancelQueued, ExpireRequest
  <2> QED
    BY <1>1, <2>1, <2>2, <2>3 DEF Control
<1>2. CASE Child
  BY <1>2, ChildFrame
<1>3. CASE SupPublish
  <2>1. active = request
    BY <1>3 DEF SupPublish, HoldInv
  <2>2. r \in Outcome(request, TRUE)
    BY <1>3 DEF SupPublish
  <2> QED
    BY <2>1, <2>2 DEF Outcome, Ids
<1>4. CASE SupDispatchExpired \/ SupRecordFault \/ SupFailing
  <2>1. PICK S : results' \subseteq results \cup Outcome(S, FALSE)
    <3>1. CASE SupDispatchExpired
      BY <3>1 DEF SupDispatchExpired, ExpiredOutcome
    <3>2. CASE SupRecordFault
      <4>1. \/ results' = results
            \/ results' = results \cup Outcome(Failed \cup Refused(failures'), FALSE)
        BY <3>2 DEF SupRecordFault, mailbox
      <4> QED
        BY <4>1
    <3>3. CASE SupFailing
      BY <3>3 DEF SupFailing
    <3> QED
      BY <1>4, <3>1, <3>2, <3>3
  <2> QED
    BY <2>1, FailuresAreNotOk
<1>5. CASE Supervisor /\ ~SupPublish
           /\ ~(SupDispatchExpired \/ SupRecordFault \/ SupFailing)
  BY <1>5 DEF Supervisor, SupTop, SupKeep, SupStart, SupStartFails, SupCancelled, SupFault,
     SupReceive, SupDispatchNothing, SupDispatch, SupStartFault, SupStop, SupStopStale,
     SupExit, SupFinally, SupFailClosed, SupEnd, Stop, Goto, mailbox
<1>6. CASE UNCHANGED vars
  BY <1>6, StutterFrame
<1> QED
  BY <1>1, <1>2, <1>3, <1>4, <1>5, <1>6 DEF Next

(***************************************************************************)
(* What the supervisor told of started requests is never forgotten, and is *)
(* with the replay after a drain.                                          *)
(***************************************************************************)
LEMMA DrainKeeps ==
    Drain => Ids(generations) \subseteq Ids(generations') /\ Started \subseteq Ids(generations')
<1> SUFFICES ASSUME Drain
             PROVE  /\ Ids(generations) \subseteq Ids(generations')
                    /\ Started \subseteq Ids(generations')
  OBVIOUS
<1>1. ASSUME NEW d \in diagnostics, d.kind = "started" PROVE d.id \in Ids(generations')
  <2>1. [id |-> d.id, process |-> d.process] \in generations'
    BY <1>1 DEF Drain
  <2> QED
    BY <2>1 DEF Ids
<1>2. generations \subseteq generations'
  BY DEF Drain
<1> QED
  BY <1>1, <1>2 DEF Started, Ids

LEMMA StartedGrows ==
    [ReplayNext]_replayVars =>
        Started \subseteq Started' /\ Ids(generations) \subseteq Ids(generations')
<1> SUFFICES ASSUME [ReplayNext]_replayVars
             PROVE  Started \subseteq Started' /\ Ids(generations) \subseteq Ids(generations')
  OBVIOUS
<1>1. CASE PollStep \/ SortStep
  BY <1>1, DrainKeeps DEF PollStep, SortStep, Started
<1>2. CASE ~(PollStep \/ SortStep)
  <2>1. generations' = generations
    BY <1>2 DEF ReplayNext, ReplayStep, CreateBackend, CreationRaises, EndReplay, ResetEpisode,
       ResetRaises, SubmitSample, DeadlinePasses, Interrupt, Finish, SupervisorStep,
       ChildStep, LeaveWith, RecordUnanswered, RecordFailure, RecordInvalid, RecordSuccess,
       Record, records, replay, replayVars
  <2>2. diagnostics \subseteq diagnostics'
    BY <1>2 DEF ReplayNext, ReplayStep, CreateBackend, CreationRaises, EndReplay, ResetEpisode,
       ResetRaises, SubmitSample, DeadlinePasses, Interrupt, Finish, SupervisorStep,
       ChildStep, LeaveWith, RecordUnanswered, RecordFailure, RecordInvalid, RecordSuccess,
       Record, Local, replayVars
  <2> QED
    BY <2>1, <2>2 DEF Started, Ids
<1> QED
  BY <1>1, <1>2

\* Whoever is handed to a process is told of in the same step.
LEMMA ActiveIsStarted ==
    PlaceInv /\ Ids(active) \subseteq Started /\ [ReplayNext]_replayVars =>
        Ids(active') \subseteq Started'
<1> SUFFICES ASSUME PlaceInv, Ids(active) \subseteq Started, [ReplayNext]_replayVars,
                    NEW r \in active'
             PROVE  r.id \in Started'
  BY DEF Ids
<1>1. CASE r \in active
  BY <1>1, StartedGrows DEF Ids
<1>2. CASE r \notin active
  <2>1. SupervisorStep
    BY <1>2, BackendCases, ControlFrame, ChildFrame, StutterFrame
  <2>2. [kind |-> "started", id |-> r.id, process |-> generation] \in diagnostics'
    BY <1>2, <2>1 DEF SupervisorStep, Emitted
  <2> QED
    BY <2>2 DEF Started, Ids
<1> QED
  BY <1>1, <1>2
LEMMA OutcomesStep ==
    IndInv /\ PlaceInv /\ OutcomesInv /\ [ReplayNext]_replayVars => OutcomesInv'
<1> SUFFICES ASSUME IndInv, PlaceInv, OutcomesInv, [ReplayNext]_replayVars PROVE OutcomesInv'
  OBVIOUS
<1>1. delivered \subseteq delivered'
  BY BackendStep, IdsGrow DEF IndInv
<1>2. Started \subseteq Started' /\ Ids(generations) \subseteq Ids(generations')
  BY StartedGrows
<1>3. Ids(active') \subseteq Started'
  BY ActiveIsStarted DEF OutcomesInv
<1>4. \A r \in results' : r.ok => r.id \in Started'
  <2>1. HoldInv
    BY DEF IndInv
  <2>2. \A r \in results' \ results : r.ok => r.id \in Ids(active)
    BY <2>1, BackendStep, NewSuccess
  <2> QED
    BY <1>2, <2>2 DEF OutcomesInv
<1>5. CASE PollStep
  <2>1. batch' = results /\ delivered' = delivered \cup results /\ UNCHANGED <<receipt, result>>
    BY <1>5 DEF PollStep, Poll
  <2> QED
    BY <1>2, <1>3, <1>4, <2>1 DEF OutcomesInv
<1>6. CASE SortStep
  <2>1. batch' = {} /\ result' = {r \in batch : r.id \in receipt} /\ UNCHANGED receipt
    BY <1>6 DEF SortStep, Own
  <2>2. Started \subseteq Ids(generations')
    BY <1>6, DrainKeeps DEF SortStep
  <2>3. \A r \in result' : r.ok => r.id \in Ids(generations')
    BY <2>1, <2>2 DEF OutcomesInv
  <2>4. result' \subseteq delivered' /\ Ids(result') \subseteq receipt'
    BY <1>1, <2>1 DEF OutcomesInv, Ids
  <2> QED
    BY <1>3, <1>4, <2>1, <2>3, <2>4 DEF OutcomesInv
<1>7. CASE ~(PollStep \/ SortStep)
  <2>1. batch' = batch
    BY <1>7 DEF ReplayNext, ReplayStep, CreateBackend, CreationRaises, EndReplay, ResetEpisode,
       ResetRaises, SubmitSample, DeadlinePasses, Interrupt, Finish, SupervisorStep,
       ChildStep, LeaveWith, RecordUnanswered, RecordFailure, RecordInvalid, RecordSuccess,
       Record, answer, replay, replayVars
  <2>2. result' = {} \/ UNCHANGED <<result, receipt>>
    BY <1>7 DEF ReplayNext, ReplayStep, CreateBackend, CreationRaises, EndReplay, ResetEpisode,
       ResetRaises, SubmitSample, DeadlinePasses, Interrupt, Finish, SupervisorStep,
       ChildStep, LeaveWith, RecordUnanswered, RecordFailure, RecordInvalid, RecordSuccess,
       Record, answer, replay, replayVars
  <2>3. /\ result' \subseteq delivered' /\ Ids(result') \subseteq receipt'
        /\ \A r \in result' : r.ok => r.id \in Ids(generations')
    BY <1>1, <1>2, <2>2 DEF OutcomesInv, Ids
  <2>4. /\ batch' \subseteq delivered'
        /\ \A r \in batch' : r.ok => r.id \in Started'
    BY <1>1, <1>2, <2>1 DEF OutcomesInv
  <2> QED
    BY <1>3, <1>4, <2>3, <2>4 DEF OutcomesInv
<1> QED
  BY <1>5, <1>6, <1>7

LEMMA AttemptsStep ==
    IndInv /\ ReplayInv /\ [ReplayNext]_replayVars => AttemptsAreOwn'
<1> SUFFICES ASSUME IndInv, ReplayInv, [ReplayNext]_replayVars PROVE AttemptsAreOwn'
  OBVIOUS
<1> USE DEF ReplayInv
<1>1. delivered \subseteq delivered' /\ Ids(generations) \subseteq Ids(generations')
  BY BackendStep, IdsGrow, StartedGrows DEF IndInv
<1>2. /\ \A i, j \in DOMAIN attempts : i < j => InOrder(attempts[i], attempts[j], j - i)
      /\ \A i \in DOMAIN attempts : Justified(attempts[i])
  BY AttemptsMean
<1>4. CASE Others
  <2>1. UNCHANGED <<config, attempts>>
    BY <1>4, OthersKeep
  <2>2. \A i \in DOMAIN attempts' : Justified(attempts[i])'
    BY <1>1, <1>2, <2>1 DEF Justified
  <2>3. \A i, j \in DOMAIN attempts' : i < j => InOrder(attempts[i], attempts[j], j - i)'
    BY <1>2, <2>1 DEF InOrder
  <2> QED
    BY <2>2, <2>3, AttemptsMean
<1>5. CASE RecordUnanswered \/ RecordFailure \/ RecordInvalid \/ RecordSuccess
  <2>1. PICK id \in receipt, status \in Statuses : Recorded(id, status)
    BY <1>5, RecordCases
  <2>2. phase = "collecting" /\ attempt \in Nat /\ position < Total
        /\ attempt < config.attempts /\ config.attempts \in Nat
    BY <1>5, RecordCases, ConfigType DEF PlaceInv, InProgress
  <2>3. PICK n \in Nat :
          /\ n = Len(attempts)
          /\ DOMAIN attempts = 1 .. n /\ DOMAIN attempts' = 1 .. n + 1
          /\ \A i \in DOMAIN attempts : attempts'[i] = attempts[i]
          /\ attempts'[n + 1] = [position |-> position, id |-> id, status |-> status]
    BY <2>1, RecordedLog DEF Recorded
  <2>4. config' = config
    BY <2>1 DEF Recorded
  <2>5. ASSUME NEW i \in 1 .. n, NEW j \in 1 .. n + 1, i < j
        PROVE  InOrder(attempts[i], attempts[j], j - i)'
    <3>1. CASE j \in 1 .. n
      <4>1. InOrder(attempts[i], attempts[j], j - i)
        BY <1>2, <2>3, <2>5, <3>1
      <4>2. attempts'[i] = attempts[i] /\ attempts'[j] = attempts[j]
        BY <2>3, <3>1
      <4> QED
        BY <2>4, <4>1, <4>2 DEF InOrder
    <3>2. CASE j = n + 1
      <4>1. attempts'[i] = attempts[i] /\ i \in DOMAIN attempts
        BY <2>3
      <4>2. attempts[i].id < id
        BY <2>1, <4>1 DEF ReceiptInv
      <4>3. attempts[i].position = position =>
                attempts[i].status \in {"failed", "unanswered"} /\ i > n - attempt
        BY <2>3, <4>1 DEF RecordsInv
      <4>4. i > n - attempt => j - i < config.attempts
        BY <2>2, <3>2
      <4>5. attempts'[j].id = id /\ attempts'[j].position = position
        BY <2>3, <3>2
      <4> QED
        BY <2>4, <4>1, <4>2, <4>3, <4>4, <4>5 DEF InOrder
    <3> QED
      BY <3>1, <3>2
  <2>6. \A i \in 1 .. n : Justified(attempts[i])'
    BY <1>1, <1>2, <2>3 DEF Justified
  <2>7. Justified(attempts[n + 1])'
    <3>1. attempts'[n + 1].id = id /\ attempts'[n + 1].status = status
      BY <2>3
    <3>2. \A r \in result : r.id = id /\ r \in delivered
                               /\ (r.ok => r.id \in Ids(generations))
      BY <2>1 DEF OutcomesInv, PlaceInv, Ids
    <3>3. status = "failed" => \E r \in delivered : r.id = id /\ ~r.ok
      BY <2>1, <3>2 DEF Recorded
    <3>4. status = "succeeded" => /\ \E r \in delivered : r.id = id /\ r.ok
                                  /\ id \in Ids(generations)
      BY <2>1, <3>2 DEF Recorded
    <3> QED
      BY <1>1, <3>1, <3>3, <3>4 DEF Justified
  <2>8. \A i, j \in DOMAIN attempts' : i < j => InOrder(attempts[i], attempts[j], j - i)'
    <3>1. \A i, j \in 1 .. n + 1 : i < j => i \in 1 .. n
      OBVIOUS
    <3> QED
      BY <2>3, <2>5, <3>1
  <2>9. \A i \in DOMAIN attempts' : Justified(attempts[i])'
    <3>1. \A i \in 1 .. n + 1 : i \in 1 .. n \/ i = n + 1
      OBVIOUS
    <3> QED
      BY <2>3, <2>6, <2>7, <3>1
  <2> QED
    BY <2>8, <2>9, AttemptsMean
<1> QED
  BY <1>4, <1>5, ReplayCases
(***************************************************************************)
(* As many good samples as there are samples are all of them.              *)
(***************************************************************************)
LEMMA AllGood ==
    ASSUME PlaceInv, RecordsInv, Cardinality(GoodSamples) = Total
    PROVE  GoodSamples = 0 .. Total - 1
<1>1. PICK t \in Nat : t = Total
  BY ConfigType
<1>2. GoodSamples \subseteq 0 .. t - 1
  <2>1. ASSUME NEW i \in DOMAIN attempts PROVE attempts[i].position \in 0 .. t - 1
    <3>1. attempts[i] \in AttemptRecord
      BY DEF PlaceInv
    <3>2. attempts[i].position \in Nat /\ attempts[i].position < t
      BY <1>1, <3>1 DEF AttemptRecord, RecordsInv
    <3> QED
      BY <1>1, <3>2
  <2> QED
    BY <2>1 DEF GoodSamples
<1>3. IsFiniteSet(0 .. t - 1) /\ Cardinality(0 .. t - 1) = t
  <2>1. 0 \in Int /\ t - 1 \in Int /\ (IF 0 > t - 1 THEN 0 ELSE t - 1 - 0 + 1) = t
    BY <1>1
  <2> QED
    BY <2>1, FS_Interval
<1>4. GoodSamples = 0 .. t - 1
  BY <1>1, <1>2, <1>3, FS_Subset
<1> QED
  BY <1>1, <1>4

LEMMA ExitStep ==
    IndInv /\ ReplayInv /\ [ReplayNext]_replayVars => ExitIsHonest'
<1> SUFFICES ASSUME IndInv, ReplayInv, [ReplayNext]_replayVars, exitCode' = 0
             PROVE  (GoodSamples = 0 .. Total - 1 /\ living = {} /\ pc = "dead")'
  BY DEF ExitIsHonest
<1>1. CASE Finish
  <2>1. PICK closedWell \in {FALSE, pc = "dead" /\ process = {}} :
            exitCode' = IF Succeeded(Cardinality(GoodSamples), closedWell) THEN 0 ELSE 1
    BY <1>1, Zenon DEF Finish
  <2>2. Cardinality(GoodSamples) = Total /\ pc = "dead" /\ process = {}
    <3>1. Succeeded(Cardinality(GoodSamples), closedWell)
      BY <2>1
    <3> QED
      BY <2>1, <3>1 DEF Succeeded
  <2>3. living = {}
    BY <2>2 DEF IndInv, HandleInv
  <2>4. GoodSamples = 0 .. Total - 1
    BY <2>2, AllGood DEF ReplayInv
  <2>5. UNCHANGED <<config, attempts, living, pc>>
    <3>1. UNCHANGED vars
      BY <1>1 DEF Finish, Local, backend
    <3> QED
      BY <1>1, <3>1, OthersKeep, StutterFrame DEF Others
  <2>6. Total' = Total /\ GoodSamples' = GoodSamples
    BY <2>5 DEF Total, Count, GoodSamples
  <2> QED
    BY <2>2, <2>3, <2>4, <2>5, <2>6
<1>2. CASE ~Finish
  <2>1. exitCode = 0
    <3>1. CASE CreationRaises \/ Interrupt
      BY <3>1 DEF CreationRaises, Interrupt
    <3>2. CASE RecordUnanswered \/ RecordFailure \/ RecordInvalid \/ RecordSuccess
      BY <3>2, RecordCases
    <3>3. CASE Others /\ ~(CreationRaises \/ Interrupt)
      BY <1>2, <3>3 DEF Others, CreateBackend, EndReplay, ResetEpisode, ResetRaises,
         SubmitSample, PollStep, SortStep, DeadlinePasses, SupervisorStep, ChildStep,
         LeaveWith, outcome, replay, replayVars
    <3> QED
      BY <3>1, <3>2, <3>3, ReplayCases
  <2>2. phase = "finished" /\ GoodSamples = 0 .. Total - 1 /\ living = {} /\ pc = "dead"
    BY <2>1 DEF ReplayInv, PlaceInv, ExitIsHonest
  <2>3. UNCHANGED replayVars
    BY <2>2 DEF ReplayNext, ReplayStep, CreateBackend, CreationRaises, EndReplay, ResetEpisode,
       ResetRaises, SubmitSample, PollStep, SortStep, DeadlinePasses, Interrupt, Finish,
       SupervisorStep, ChildStep, RecordUnanswered, RecordFailure, RecordInvalid,
       RecordSuccess, Record, Step, Continues
  <2>4. UNCHANGED <<config, attempts, living, pc>>
    <3>1. UNCHANGED vars
      BY <2>3 DEF replayVars, backend
    <3> QED
      BY <2>3, <3>1, OthersKeep, StutterFrame DEF Others
  <2>5. Total' = Total /\ GoodSamples' = GoodSamples
    BY <2>4 DEF Total, Count, GoodSamples
  <2> QED
    BY <2>2, <2>4, <2>5
<1> QED
  BY <1>1, <1>2

----------------------------------------------------------------------------
(***************************************************************************)
(* Together the parts are inductive, on top of the backend's invariant.    *)
(***************************************************************************)
LEMMA ReplayInvInit == ReplayInit => ReplayInv
<1> SUFFICES ASSUME ReplayInit PROVE ReplayInv
  OBVIOUS
<1>1. PlaceInv
  BY DEF ReplayInit, PlaceInv, InProgress
<1>2. attempts = <<>> /\ DOMAIN attempts = {} /\ receipt = {}
  BY DEF ReplayInit
<1>3. ReceiptInv /\ RecordsInv /\ AttemptsAreOwn
  BY <1>2 DEF ReceiptInv, RecordsInv, AttemptsAreOwn
<1>4. OutcomesInv
  BY DEF ReplayInit, Init, OutcomesInv, Ids
<1>5. ExitIsHonest
  BY DEF ReplayInit, ExitIsHonest
<1> QED
  BY <1>1, <1>3, <1>4, <1>5 DEF ReplayInv

LEMMA ReplayInvStep ==
    IndInv /\ ReplayInv /\ [ReplayNext]_replayVars => IndInv' /\ ReplayInv'
<1> SUFFICES ASSUME IndInv, ReplayInv, [ReplayNext]_replayVars PROVE IndInv' /\ ReplayInv'
  OBVIOUS
<1>1. TypeOK /\ PlaceInv /\ ReceiptInv /\ RecordsInv /\ OutcomesInv
  BY DEF IndInv, ReplayInv
<1>2. IndInv'
  BY <1>1, BackendStep, IndInvStep
<1> QED
  BY <1>1, <1>2, PlaceStep, ReceiptStep, RecordsStep, OutcomesStep, AttemptsStep, ExitStep
     DEF ReplayInv

LEMMA ReplayInvariance == ReplaySpec => [](IndInv /\ ReplayInv)
<1>1. ReplayInit => IndInv /\ ReplayInv
  BY IndInvInit, ReplayInvInit DEF ReplayInit
<1> QED
  BY <1>1, ReplayInvStep, PTL DEF ReplaySpec

(***************************************************************************)
(* A replay is a behaviour of the backend with one control thread that     *)
(* keeps to its interface, so that everything ProcessBackend guarantees    *)
(* holds in it: one model at a time, nothing lost, nothing of an earlier   *)
(* epoch.                                                                  *)
(***************************************************************************)
THEOREM ReplayIsUseOfBackend == ReplaySpec => Spec
<1>1. IndInv /\ ReplayInv /\ [ReplayNext]_replayVars => [Next]_vars
  BY BackendStep DEF ReplayInv
<1>2. ReplayInit => Init
  BY DEF ReplayInit
<1> QED
  BY <1>1, <1>2, ReplayInvariance, PTL DEF ReplaySpec, Spec

(***************************************************************************)
(* For any samples, repeats and limit of attempts: no attempt is recorded  *)
(* with the outcome of another, none follows a success or an end of the    *)
(* attempts, and a saved prediction has a known process                    *)
(* (offline_inference.py:196-245).                                         *)
(***************************************************************************)
THEOREM AttemptsOwn == ReplaySpec => []AttemptsAreOwn
<1>1. ReplayInv => AttemptsAreOwn
  BY DEF ReplayInv
<1> QED
  BY <1>1, ReplayInvariance, PTL

(***************************************************************************)
(* Exit code 0 is never a lie, whatever died, hung or could not be killed  *)
(* on the way (docs/FLUXVLA_CLI.md:150).                                   *)
(***************************************************************************)
THEOREM ExitHonest == ReplaySpec => []ExitIsHonest
<1>1. ReplayInv => ExitIsHonest
  BY DEF ReplayInv
<1> QED
  BY <1>1, ReplayInvariance, PTL
============================================================================
