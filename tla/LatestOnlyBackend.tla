------------------------- MODULE LatestOnlyBackend -------------------------
(***************************************************************************)
(* What an AsyncPolicyBackend (src/robovla_runtime/backends/base.py)       *)
(* promises the control thread, whatever works behind it: one request      *)
(* waits, one is worked on, an outcome is returned once, and what was      *)
(* replaced, withdrawn, cancelled or reset has none.  ThreadedBackend and  *)
(* ProcessBackend are shown to implement it.                               *)
(*                                                                         *)
(* A request waits, runs, is failing, is ready or returned, or is gone;    *)
(* it never goes back.                                                     *)
(***************************************************************************)
EXTENDS Integers

CONSTANT Episodes    \* episode ids the control thread uses

VARIABLES
    waiting,    \* the request in the mailbox
    running,    \* the request that is worked on
    failing,    \* requests cancelled too late: they may still fail, not succeed
    ready,      \* outcomes poll() will return
    returned,   \* outcomes it returned
    withdrawn,  \* ids the caller was told will have no new outcome
    handedOut,  \* ids given to requests so far
    closed

pending  == <<waiting, running, failing>>
outcomes == <<ready, returned>>
vars     == <<pending, outcomes, withdrawn, handedOut, closed>>

Ids(S) == {s.id : s \in S}
Pending == waiting \cup running \cup failing
Gone == (0 .. handedOut - 1) \ Ids(Pending \cup ready \cup returned)
Outcome(S, ok) == {[id |-> s.id, episode |-> s.episode, ok |-> ok] : s \in S}

Init ==
    /\ waiting = {} /\ running = {} /\ failing = {}
    /\ ready = {} /\ returned = {} /\ withdrawn = {}
    /\ handedOut = 0 /\ closed = FALSE

(***************************************************************************)
(* The newest request takes the mailbox and the receipt names the one that *)
(* was there; a backend that can serve nobody refuses with an outcome, and *)
(* its receipt may still name what was lost before.                        *)
(***************************************************************************)
New(e) == [id |-> handedOut, episode |-> e]

Submit(e) ==
    /\ ~closed
    /\ waiting' = {New(e)}
    /\ withdrawn' = withdrawn \cup Ids(waiting)
    /\ handedOut' = handedOut + 1
    /\ UNCHANGED <<running, failing, outcomes, closed>>

Refuse(e) ==
    /\ ~closed
    /\ ready' = ready \cup Outcome({New(e)}, FALSE)
    /\ \E lost \in SUBSET Gone : withdrawn' = withdrawn \cup lost
    /\ handedOut' = handedOut + 1
    /\ UNCHANGED <<pending, returned, closed>>

Poll ==
    /\ returned' = returned \cup ready
    /\ ready' = {}
    /\ UNCHANGED <<pending, withdrawn, handedOut, closed>>

\* The caller gives a request up; if it has an outcome already, this stays.
Withdraw(id) ==
    /\ waiting' = {s \in waiting : s.id # id}
    /\ running' = {s \in running : s.id # id}
    /\ withdrawn' = withdrawn \cup {id}
    /\ UNCHANGED <<failing, outcomes, handedOut, closed>>

\* The backend ends for good, and what waits with it.
Abandon ==
    /\ waiting' = {}
    /\ UNCHANGED <<running, failing, outcomes, withdrawn, handedOut, closed>>

\* What is worked on is dropped, or left to fail.
CancelEpisode(e) ==
    /\ waiting' = {s \in waiting : s.episode # e}
    /\ running' = {s \in running : s.episode # e}
    /\ failing' \in {failing, failing \cup {s \in running : s.episode = e}}
    /\ ready' = {r \in ready : r.episode # e}
    /\ UNCHANGED <<returned, withdrawn, handedOut, closed>>

Reset ==
    /\ ~closed
    /\ waiting' = {} /\ running' = {} /\ failing' = {} /\ ready' = {}
    /\ UNCHANGED <<returned, withdrawn, handedOut, closed>>

\* Outcomes that are there may be kept to be polled, or dropped.
Close ==
    /\ closed' = TRUE
    /\ waiting' = {} /\ running' = {} /\ failing' = {}
    /\ ready' \in {{}, ready}
    /\ UNCHANGED <<returned, withdrawn, handedOut>>

Take ==
    /\ running = {}
    /\ running' = waiting /\ waiting' = {}
    /\ UNCHANGED <<failing, outcomes, withdrawn, handedOut, closed>>

Succeed ==
    /\ running # {}
    /\ ready' = ready \cup Outcome(running, TRUE)
    /\ running' = {}
    /\ UNCHANGED <<waiting, failing, returned, withdrawn, handedOut, closed>>

\* One fault may end several requests.
Fail(S) ==
    /\ S # {}
    /\ ready' = ready \cup Outcome(S, FALSE)
    /\ waiting' = waiting \ S /\ running' = running \ S /\ failing' = failing \ S
    /\ UNCHANGED <<returned, withdrawn, handedOut, closed>>

Next ==
    \/ \E e \in Episodes : Submit(e) \/ Refuse(e) \/ CancelEpisode(e)
    \/ \E id \in 0 .. handedOut - 1 : Withdraw(id)
    \/ Poll \/ Abandon \/ Reset \/ Close \/ Take \/ Succeed
    \/ \E S \in SUBSET Pending : Fail(S)

Spec == Init /\ [][Next]_vars
============================================================================
