---------------------------- MODULE ActionBuffer ----------------------------
(***************************************************************************)
(* ActionBuffer and Executor.tick (src/robovla_runtime/execution): the     *)
(* buffer holds one chunk of timed actions and hands the executor the one  *)
(* whose period contains the current time.                                 *)
(*                                                                         *)
(* Time is an integer number of units, Period of them per action; the      *)
(* tolerances of the code absorb float rounding, which integers have not.  *)
(* Predictions arrive late, twice, out of order and malformed; executor    *)
(* ticks come at any time, as those of a delayed control loop do.          *)
(***************************************************************************)
EXTENDS Integers, Sequences

CONSTANTS
    Episodes,          \* episode ids
    Period,            \* spec.period_s, in time units
    MaxActionsPerChunk,\* max_actions_per_chunk
    ChunkLengths,      \* how many actions a prediction may have
    MaxRequests,       \* bound: predictions in a behaviour
    MaxTime,           \* bound: the clock
    MaxTicks,          \* bound: executor ticks
    MaxResets          \* bound: buffer resets

ASSUME BufferAssumption ==
    /\ Period \in Nat \ {0} /\ MaxActionsPerChunk \in Nat \ {0}
    /\ ChunkLengths \subseteq Nat \ {0}
    /\ MaxRequests \in Nat /\ MaxTime \in Nat /\ MaxTicks \in Nat /\ MaxResets \in Nat

VARIABLES
    episodeId,          \* episode_id
    episodeGeneration,  \* episode_generation
    chunk,              \* _chunk: none or one
    seenRequests,       \* _seen_requests
    consumed,           \* _consumed: <<request id, index>>
    now,                \* the clock
    sent,               \* predictions made so far; each may arrive any number of times
    executed            \* Executor.records that carry an action, in order

vars == <<episodeId, episodeGeneration, chunk, seenRequests, consumed, now, sent, executed>>

\* What _validate_timestamps and the ActionSpec checks make of a chunk.
Faults == {"none", "bad_timestamp", "unsupported_spec", "spec_mismatch"}

Chunk == [id : Nat, episode : Episodes, generation : Nat, start : Nat,
          len : Nat \ {0}, fault : Faults]

Action == [id : Nat, generation : Nat, index : Nat, start : Nat, at : Nat,
           bufferGeneration : Nat]

\* Faulty... definitions, here and below, are slips the code could have made;
\* put in the place of the definition after them they show a property notices.
FaultyIndexAt(c, t) == IF t < c.start THEN -1 ELSE (t - c.start + Period - 1) \div Period

\* _index_at: the action whose period contains t, or -1 before the first.
IndexAt(c, t) == IF t < c.start THEN -1 ELSE (t - c.start) \div Period

EndAt(c) == c.start + c.len * Period

Truncated(c) ==
    [c EXCEPT !.len = IF c.len < MaxActionsPerChunk THEN c.len ELSE MaxActionsPerChunk]

\* coverage_s
Coverage(t) ==
    IF \E c \in chunk : t < EndAt(c)
    THEN LET c == CHOOSE c \in chunk : TRUE
         IN EndAt(c) - (IF t < c.start THEN c.start ELSE t)
    ELSE 0

Init ==
    /\ episodeId \in Episodes /\ episodeGeneration = 0
    /\ chunk = {} /\ seenRequests = {} /\ consumed = {}
    /\ now = 0 /\ sent = {} /\ executed = <<>>

FaultyLeftByReset == chunk
LeftByReset == {}

Reset(e) ==
    /\ episodeGeneration < MaxResets
    /\ episodeId' = e
    /\ episodeGeneration' = episodeGeneration + 1
    /\ chunk' = LeftByReset /\ seenRequests' = {} /\ consumed' = {}
    /\ UNCHANGED <<now, sent, executed>>

Expired(c) == IndexAt(Truncated(c), now) >= Truncated(c).len

\* accept()'s early returns, in the order of the code.
Refused(c) ==
    \/ c.episode # episodeId
    \/ c.generation # episodeGeneration
    \/ c.fault # "none"
    \/ c.id \in seenRequests

Accepted(c) == ~Refused(c) /\ ~Expired(c)

\* A refused chunk is not remembered, an expired one is.
FaultySeenWith(c) == IF Accepted(c) THEN seenRequests ELSE seenRequests \cup {c.id}
SeenWith(c) == IF Refused(c) THEN seenRequests ELSE seenRequests \cup {c.id}

\* What is left of the current chunk stays unless the new one is accepted.
FaultyStoredAfter(c) == IF Accepted(c) THEN {Truncated(c)}
                        ELSE IF Expired(c) THEN {} ELSE chunk
StoredAfter(c) == IF Accepted(c) THEN {Truncated(c)} ELSE chunk

\* accept()
Accept(c) ==
    /\ seenRequests' = SeenWith(c)
    /\ chunk' = StoredAfter(c)
    /\ UNCHANGED <<episodeId, episodeGeneration, consumed, now, sent, executed>>

\* Whether pop() returns an action of c now, and what Executor.tick does with it.
Poppable(c) ==
    /\ IndexAt(c, now) \in 0 .. c.len - 1
    /\ <<c.id, IndexAt(c, now)>> \notin consumed

ConsumedWith(c) == consumed \cup {<<c.id, IndexAt(c, now)>>}

Execute(c) ==
    /\ Poppable(c)
    /\ Len(executed) < MaxTicks
    /\ consumed' = ConsumedWith(c)
    /\ executed' = Append(executed,
           [id |-> c.id, generation |-> c.generation, index |-> IndexAt(c, now),
            start |-> c.start, at |-> now, bufferGeneration |-> episodeGeneration])
    /\ UNCHANGED <<episodeId, episodeGeneration, chunk, seenRequests, now, sent>>

\* pop() returned None: the fallback command, and a spent chunk is dropped.
Fallback ==
    /\ ~\E c \in chunk : Poppable(c)
    /\ chunk' = {c \in chunk : IndexAt(c, now) < c.len}
    /\ UNCHANGED <<episodeId, episodeGeneration, seenRequests, consumed, now,
                   sent, executed>>

(***************************************************************************)
(* The surroundings: the clock, and a model that answers for the buffer's  *)
(* present episode with a chunk that starts about now.                     *)
(***************************************************************************)
Tick ==
    /\ now < MaxTime
    /\ now' = now + 1
    /\ UNCHANGED <<episodeId, episodeGeneration, chunk, seenRequests, consumed,
                   sent, executed>>

Predict(start, len, fault) ==
    /\ \A c \in sent : c.id < MaxRequests - 1
    /\ sent' = sent \cup {[id |-> IF sent = {} THEN 0 ELSE
                                    1 + (CHOOSE c \in sent : \A d \in sent : d.id <= c.id).id,
                           episode |-> episodeId, generation |-> episodeGeneration,
                           start |-> start, len |-> len, fault |-> fault]}
    /\ UNCHANGED <<episodeId, episodeGeneration, chunk, seenRequests, consumed,
                   now, executed>>

Next ==
    \/ \E e \in Episodes : Reset(e)
    \/ \E c \in sent : Accept(c)
    \/ \E c \in chunk : Execute(c)
    \/ Fallback
    \/ Tick
    \/ \E start \in now .. now + 1, len \in ChunkLengths, fault \in Faults :
           Predict(start, len, fault)

Spec == Init /\ [][Next]_vars

----------------------------------------------------------------------------
(***************************************************************************)
(* Types; the stored chunk is never longer than the execution horizon.     *)
(***************************************************************************)
TypeOK ==
    /\ episodeId \in Episodes /\ episodeGeneration \in Nat
    /\ chunk \in SUBSET Chunk /\ \A c, d \in chunk : c = d
    /\ \A c \in chunk : c.len <= MaxActionsPerChunk
    /\ seenRequests \in SUBSET Nat
    /\ consumed \in SUBSET (Nat \X Nat)
    /\ now \in Nat
    /\ sent \in SUBSET Chunk
    /\ executed \in Seq(Action)

SameChunk(i, j) ==
    /\ executed[i].id = executed[j].id
    /\ executed[i].generation = executed[j].generation

(***************************************************************************)
(* docs/ROADMAP.md:131: no action is executed twice and the indices of a   *)
(* chunk go up, however the control loop jitters; a chunk that a newer one *)
(* replaced is never executed again, though its prediction may arrive a    *)
(* second time (action_buffer.py:79-81, 96-104).                           *)
(***************************************************************************)
OnceAndInOrder ==
    /\ \A i, j \in DOMAIN executed :
           i < j /\ SameChunk(i, j) => executed[i].index < executed[j].index
    /\ \A i, k \in DOMAIN executed : \A j \in i .. k :
           SameChunk(i, k) => SameChunk(i, j)

(***************************************************************************)
(* An action is executed in the period it was predicted for, and never     *)
(* after a reset that came after its prediction, even when the episode     *)
(* keeps its id (docs/ROADMAP.md:131, action_buffer.py:55-73, 122-127).    *)
(***************************************************************************)
InItsTime ==
    \A i \in DOMAIN executed :
        LET a == executed[i]
        IN /\ a.generation = a.bufferGeneration
           /\ a.start + a.index * Period <= a.at
           /\ a.at < a.start + (a.index + 1) * Period

(***************************************************************************)
(* The tail that can still be executed is lost only to a reset or to a     *)
(* well-formed chunk of the present episode that is new and has an action  *)
(* left at this moment.  A prediction that is malformed, expired, a        *)
(* duplicate or of another episode leaves it alone, and so does a tick     *)
(* that finds nothing to do; and nothing that was replaced comes back,     *)
(* since requests are only forgotten by a reset                            *)
(* (action_buffer.py:59-61, 79-90, 97-101).                                *)
(***************************************************************************)
Replaces(c) ==
    /\ c.fault = "none" /\ c.episode = episodeId /\ c.generation = episodeGeneration
    /\ c.id \in seenRequests' \ seenRequests
    /\ now < EndAt(c)

WasReset == episodeGeneration' = episodeGeneration + 1

TailKept ==
    [][/\ \A c \in chunk \ chunk' :
              now < EndAt(c) => WasReset \/ \E d \in chunk' : Replaces(d)
       /\ \A c \in chunk' \ chunk : Replaces(c)
       /\ WasReset \/ seenRequests \subseteq seenRequests']_vars

(***************************************************************************)
(* Coverage is honest: while the schedulers read a positive coverage of a  *)
(* chunk that has begun, the present action is there to be executed unless *)
(* it already was (action_buffer.py:92-117).                               *)
(***************************************************************************)
CoverageIsHonest ==
    \A c \in chunk :
        c.start <= now =>
            (Coverage(now) > 0
               <=> Poppable(c) \/ \E i \in DOMAIN executed :
                      /\ executed[i].id = c.id /\ executed[i].generation = c.generation
                      /\ executed[i].index = IndexAt(c, now))
============================================================================
