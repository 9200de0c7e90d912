------------------------ MODULE ActionBufferProofs ------------------------
(***************************************************************************)
(* What ActionBuffer guarantees for every period, horizon, chunk length,   *)
(* number of predictions and length of an episode.  The indices of a chunk *)
(* go up because time does: the executor's log is tied to the clock.       *)
(***************************************************************************)
EXTENDS ActionBuffer, TLAPS

(***************************************************************************)
(* The stored chunk passed accept() in the present episode, and accept()   *)
(* remembers it.                                                           *)
(***************************************************************************)
ChunkInv ==
    \A c \in chunk : /\ c.episode = episodeId /\ c.generation = episodeGeneration
                     /\ c.id \in seenRequests

(***************************************************************************)
(* The log of the executor: nothing in it is of the future, what is of the *)
(* present generation was accepted in it, and _consumed is what it says.   *)
(***************************************************************************)
Current(i) == executed[i].generation = episodeGeneration

LogInv ==
    /\ \A i \in DOMAIN executed :
           /\ executed[i].at <= now
           /\ executed[i].generation <= episodeGeneration
           /\ Current(i) => /\ executed[i].id \in seenRequests
                            /\ <<executed[i].id, executed[i].index>> \in consumed
    /\ \A p \in consumed : \E i \in DOMAIN executed :
           Current(i) /\ p = <<executed[i].id, executed[i].index>>

(***************************************************************************)
(* From the first action of the stored chunk on, the log has only actions  *)
(* of this chunk: what was accepted once never comes back.                 *)
(***************************************************************************)
OfChunk(i, c) == executed[i].id = c.id /\ executed[i].generation = c.generation

TailInv ==
    \A c \in chunk : \A i \in DOMAIN executed :
        OfChunk(i, c) => /\ executed[i].start = c.start /\ executed[i].index < c.len
                         /\ \A j \in i .. Len(executed) : OfChunk(j, c)

\* Predictions are numbered: there is a last one.
SentInv == sent = {} \/ \E c \in sent : \A d \in sent : d.id <= c.id

IndInv == TypeOK /\ SentInv /\ ChunkInv /\ LogInv /\ TailInv /\ InItsTime /\ OnceAndInOrder

----------------------------------------------------------------------------
(***************************************************************************)
(* _index_at is the period that contains t.                                *)
(***************************************************************************)
LEMMA IndexBounds ==
    ASSUME NEW c \in Chunk, NEW t \in Nat, c.start <= t
    PROVE  /\ IndexAt(c, t) \in Nat
           /\ c.start + IndexAt(c, t) * Period <= t
           /\ t < c.start + (IndexAt(c, t) + 1) * Period
<1> DEFINE n == t - c.start
<1>1. c.start \in Nat /\ n \in Nat /\ Period \in Nat \ {0}
  BY BufferAssumption DEF Chunk
<1>2. IndexAt(c, t) = n \div Period
  BY <1>1 DEF IndexAt
<1>3. n \div Period \in Nat /\ (n \div Period) * Period <= n /\ n < (n \div Period + 1) * Period
  <2> HIDE DEF n
  <2> QED
    BY <1>1
<1> HIDE DEF n
<1>4. n = t - c.start
  BY DEF n
<1> DEFINE q == n \div Period
<1>5. q \in Nat /\ q * Period <= n /\ n < (q + 1) * Period /\ IndexAt(c, t) = q
  BY <1>2, <1>3
<1>6. q * Period \in Nat /\ (q + 1) * Period \in Nat
  BY <1>1, <1>3
<1> HIDE DEF q
<1> QED
  BY <1>1, <1>4, <1>5, <1>6

\* Either both say that an action of the chunk is still to come or neither.
LEMMA IndexAndEnd ==
    ASSUME NEW c \in Chunk, NEW t \in Nat
    PROVE  IndexAt(c, t) < c.len <=> t < EndAt(c)
<1>1. c.start \in Nat /\ c.len \in Nat \ {0} /\ Period \in Nat \ {0}
  BY BufferAssumption DEF Chunk
<1>2. CASE t < c.start
  <2>1. IndexAt(c, t) = -1 /\ c.len * Period \in Nat
    BY <1>1, <1>2 DEF IndexAt
  <2> QED
    BY <1>1, <1>2, <2>1 DEF EndAt
<1>3. CASE c.start <= t
  <2> DEFINE n == t - c.start
  <2>1. n \in Nat /\ IndexAt(c, t) = n \div Period
    BY <1>1, <1>3 DEF IndexAt
  <2>2. t < EndAt(c) <=> n < c.len * Period
    <3>1. c.len * Period \in Nat
      BY <1>1
    <3> QED
      BY <1>1, <3>1 DEF EndAt
  <2> HIDE DEF n
  <2> DEFINE l == c.len
  <2>3. l \in Nat
    BY <1>1
  <2> HIDE DEF l
  <2>4. n \div Period < l <=> n < l * Period
    BY <1>1, <2>1, <2>3
  <2> QED
    BY <2>1, <2>2, <2>4 DEF l
<1> QED
  BY <1>1, <1>2, <1>3

LEMMA LeftInTime ==
    ASSUME NEW c \in Chunk, NEW t \in Nat, ~(IndexAt(c, t) >= c.len)
    PROVE  t < EndAt(c)
<1>1. IndexAt(c, t) \in Int /\ c.len \in Int
  BY IndexBounds DEF IndexAt, Chunk
<1> QED
  BY <1>1, IndexAndEnd

LEMMA TruncatedType ==
    ASSUME NEW c \in Chunk
    PROVE  /\ Truncated(c) \in Chunk /\ Truncated(c).len <= MaxActionsPerChunk
           /\ Truncated(c).id = c.id /\ Truncated(c).episode = c.episode
           /\ Truncated(c).generation = c.generation /\ Truncated(c).fault = c.fault
  BY BufferAssumption DEF Truncated, Chunk

----------------------------------------------------------------------------
(***************************************************************************)
(* Types, and the numbering of the predictions.                            *)
(***************************************************************************)
LEMMA TypeInit == Init => TypeOK /\ SentInv
  BY DEF Init, TypeOK, SentInv

LEMMA ActionType ==
    ASSUME TypeOK, NEW c \in chunk, Poppable(c)
    PROVE  /\ IndexAt(c, now) \in Nat
           /\ [id |-> c.id, generation |-> c.generation, index |-> IndexAt(c, now),
               start |-> c.start, at |-> now, bufferGeneration |-> episodeGeneration] \in Action
<1>1. IndexAt(c, now) \in Nat
  BY DEF TypeOK, Poppable, Chunk
<1> QED
  BY <1>1 DEF TypeOK, Chunk, Action

LEMMA TypeStep == TypeOK /\ SentInv /\ [Next]_vars => TypeOK' /\ SentInv'
<1> SUFFICES ASSUME TypeOK, SentInv, [Next]_vars PROVE TypeOK' /\ SentInv'
  OBVIOUS
<1> USE DEF TypeOK
<1>1. ASSUME NEW e \in Episodes, Reset(e) PROVE TypeOK' /\ SentInv'
  BY <1>1 DEF Reset, LeftByReset, SentInv
<1>2. ASSUME NEW c \in sent, Accept(c) PROVE TypeOK' /\ SentInv'
  <2>1. c.id \in Nat /\ Truncated(c) \in Chunk /\ Truncated(c).len <= MaxActionsPerChunk
    BY TruncatedType DEF Chunk
  <2>2. /\ seenRequests' \subseteq seenRequests \cup {c.id}
        /\ chunk' = chunk \/ chunk' = {Truncated(c)}
        /\ UNCHANGED <<episodeId, episodeGeneration, consumed, now, sent, executed>>
    BY <1>2 DEF Accept, SeenWith, StoredAfter
  <2> QED
    BY <2>1, <2>2 DEF SentInv
<1>3. ASSUME NEW c \in chunk, Execute(c) PROVE TypeOK' /\ SentInv'
  <2> DEFINE a == [id |-> c.id, generation |-> c.generation, index |-> IndexAt(c, now),
                   start |-> c.start, at |-> now, bufferGeneration |-> episodeGeneration]
  <2>1. IndexAt(c, now) \in Nat /\ a \in Action /\ c.id \in Nat
    BY <1>3, ActionType DEF Execute, Chunk
  <2>2. /\ executed' = Append(executed, a) /\ consumed' = consumed \cup {<<c.id, IndexAt(c, now)>>}
        /\ UNCHANGED <<episodeId, episodeGeneration, chunk, seenRequests, now, sent>>
    BY <1>3 DEF Execute, ConsumedWith
  <2> HIDE DEF a
  <2>3. executed' \in Seq(Action) /\ consumed' \in SUBSET (Nat \X Nat)
    BY <2>1, <2>2
  <2> QED
    BY <2>2, <2>3 DEF SentInv
<1>4. CASE Fallback \/ Tick \/ UNCHANGED vars
  <2>1. /\ UNCHANGED <<episodeId, episodeGeneration, seenRequests, consumed, sent, executed>>
        /\ chunk' \subseteq chunk /\ now' \in Nat
    BY <1>4 DEF Fallback, Tick, vars
  <2> QED
    BY <2>1 DEF SentInv
<1>5. ASSUME NEW start \in now .. now + 1, NEW len \in ChunkLengths, NEW fault \in Faults,
             Predict(start, len, fault)
      PROVE  TypeOK' /\ SentInv'
  <2> DEFINE last == CHOOSE c \in sent : \A d \in sent : d.id <= c.id
             id == IF sent = {} THEN 0 ELSE 1 + last.id
             new == [id |-> id, episode |-> episodeId, generation |-> episodeGeneration,
                     start |-> start, len |-> len, fault |-> fault]
  <2>1. sent # {} => last \in sent /\ \A d \in sent : d.id <= last.id
    BY DEF SentInv
  <2> HIDE DEF last
  <2>2. id \in Nat /\ \A d \in sent : d.id <= id
    BY <2>1, SMTT(30) DEF Chunk
  <2> HIDE DEF id
  <2>3. new \in Chunk /\ new.id = id
    BY <2>2, BufferAssumption DEF Chunk
  <2>4. /\ sent' = sent \cup {new}
        /\ UNCHANGED <<episodeId, episodeGeneration, chunk, seenRequests, consumed, now, executed>>
    BY <1>5 DEF Predict, id, last
  <2> HIDE DEF new
  <2>5. SentInv'
    BY <2>2, <2>3, <2>4 DEF SentInv
  <2> QED
    BY <2>3, <2>4, <2>5
<1> QED
  BY <1>1, <1>2, <1>3, <1>4, <1>5 DEF Next

----------------------------------------------------------------------------
(***************************************************************************)
(* What the steps leave alone.                                             *)
(***************************************************************************)
LEMMA AcceptCases ==
    ASSUME TypeOK, NEW c \in sent, Accept(c)
    PROVE  /\ UNCHANGED <<episodeId, episodeGeneration, consumed, now, executed>>
           /\ seenRequests' \in {seenRequests, seenRequests \cup {c.id}}
           /\ \/ chunk' = chunk
              \/ /\ chunk' = {Truncated(c)} /\ ~Expired(c)
                 /\ seenRequests' = seenRequests \cup {c.id} /\ c.id \notin seenRequests
                 /\ c.episode = episodeId /\ c.generation = episodeGeneration
                 /\ c.fault = "none"
  BY DEF Accept, SeenWith, StoredAfter, Accepted, Refused

LEMMA ExecuteCases ==
    ASSUME TypeOK, NEW c \in chunk, Execute(c)
    PROVE  /\ UNCHANGED <<episodeId, episodeGeneration, chunk, seenRequests, now>>
           /\ c \in Chunk /\ c.start <= now
           /\ IndexAt(c, now) \in Nat /\ IndexAt(c, now) < c.len
           /\ <<c.id, IndexAt(c, now)>> \notin consumed
           /\ consumed' = consumed \cup {<<c.id, IndexAt(c, now)>>}
           /\ Len(executed') = Len(executed) + 1
           /\ DOMAIN executed = 1 .. Len(executed) /\ DOMAIN executed' = 1 .. Len(executed')
           /\ \A i \in DOMAIN executed : executed'[i] = executed[i]
           /\ LET a == executed'[Len(executed')]
              IN /\ a.id = c.id /\ a.generation = c.generation /\ a.index = IndexAt(c, now)
                 /\ a.start = c.start /\ a.at = now /\ a.bufferGeneration = episodeGeneration
<1>1. /\ UNCHANGED <<episodeId, episodeGeneration, chunk, seenRequests, now>>
      /\ <<c.id, IndexAt(c, now)>> \notin consumed
      /\ consumed' = consumed \cup {<<c.id, IndexAt(c, now)>>}
  BY DEF Execute, ConsumedWith, Poppable
<1>2. IndexAt(c, now) \in 0 .. c.len - 1 /\ c \in Chunk /\ c.len \in Nat /\ c.start \in Nat
  BY DEF Execute, Poppable, TypeOK, Chunk
<1>3. c.start <= now
  BY <1>2 DEF IndexAt, TypeOK
<1>4. executed' = Append(executed,
           [id |-> c.id, generation |-> c.generation, index |-> IndexAt(c, now),
            start |-> c.start, at |-> now, bufferGeneration |-> episodeGeneration])
  BY DEF Execute
<1>5. executed \in Seq(Action)
  BY DEF TypeOK
<1> QED
  BY <1>1, <1>2, <1>3, <1>4, <1>5
Rest == \/ Fallback \/ Tick \/ UNCHANGED vars
        \/ \E start \in now .. now + 1, len \in ChunkLengths, fault \in Faults :
               Predict(start, len, fault)

LEMMA RestCases ==
    ASSUME TypeOK, Rest
    PROVE  /\ UNCHANGED <<episodeId, episodeGeneration, seenRequests, consumed, executed>>
           /\ chunk' \subseteq chunk /\ now <= now' /\ now' \in Nat
<1>1. /\ UNCHANGED <<episodeId, episodeGeneration, seenRequests, consumed, executed>>
      /\ chunk' \subseteq chunk /\ (now' = now \/ now' = now + 1)
  BY DEF Rest, Fallback, Tick, Predict, vars
<1> QED
  BY <1>1 DEF TypeOK

LEMMA LogType ==
    ASSUME TypeOK
    PROVE  /\ Len(executed) \in Nat /\ DOMAIN executed = 1 .. Len(executed)
           /\ \A i \in DOMAIN executed : executed[i] \in Action
<1>1. executed \in Seq(Action)
  BY DEF TypeOK
<1> QED
  BY <1>1

LEMMA NextCases ==
    ASSUME [Next]_vars
    PROVE  \/ \E e \in Episodes : Reset(e)
           \/ \E c \in sent : Accept(c)
           \/ \E c \in chunk : Execute(c)
           \/ Rest
  BY DEF Next, Rest

----------------------------------------------------------------------------
(***************************************************************************)
(* The chunk, the log and the tail.                                        *)
(***************************************************************************)
LEMMA ChunkStep == TypeOK /\ ChunkInv /\ [Next]_vars => ChunkInv'
<1> SUFFICES ASSUME TypeOK, ChunkInv, [Next]_vars PROVE ChunkInv'
  OBVIOUS
<1>1. ASSUME NEW e \in Episodes, Reset(e) PROVE ChunkInv'
  BY <1>1 DEF Reset, LeftByReset, ChunkInv
<1>2. ASSUME NEW c \in sent, Accept(c) PROVE ChunkInv'
  <2>1. /\ Truncated(c).id = c.id /\ Truncated(c).episode = c.episode
        /\ Truncated(c).generation = c.generation
    BY TruncatedType DEF TypeOK
  <2> QED
    BY <1>2, <2>1, AcceptCases DEF ChunkInv
<1>3. ASSUME NEW c \in chunk, Execute(c) PROVE ChunkInv'
  BY <1>3, ExecuteCases DEF ChunkInv
<1>4. CASE Rest
  BY <1>4, RestCases DEF ChunkInv
<1> QED
  BY <1>1, <1>2, <1>3, <1>4, NextCases

LEMMA LogStep == TypeOK /\ ChunkInv /\ LogInv /\ [Next]_vars => LogInv'
<1> SUFFICES ASSUME TypeOK, ChunkInv, LogInv, [Next]_vars PROVE LogInv'
  OBVIOUS
<1>0. \A i \in DOMAIN executed : executed[i].generation \in Nat /\ executed[i].at \in Nat
  BY LogType DEF Action
<1>1. ASSUME NEW e \in Episodes, Reset(e) PROVE LogInv'
  <2>1. /\ episodeGeneration' = episodeGeneration + 1 /\ consumed' = {}
        /\ UNCHANGED <<now, executed>>
    BY <1>1 DEF Reset
  <2>2. episodeGeneration \in Nat
    BY DEF TypeOK
  <2>3. \A i \in DOMAIN executed :
            /\ executed[i].generation <= episodeGeneration /\ executed[i].at <= now
    BY DEF LogInv
  <2>4. \A i \in DOMAIN executed : executed[i].generation < episodeGeneration'
    BY <1>0, <2>1, <2>2, <2>3
  <2> QED
    BY <1>0, <2>1, <2>2, <2>3, <2>4 DEF LogInv, Current
<1>2. ASSUME NEW c \in sent, Accept(c) PROVE LogInv'
  BY <1>2, AcceptCases DEF LogInv, Current
<1>3. ASSUME NEW c \in chunk, Execute(c) PROVE LogInv'
  <2> DEFINE n == Len(executed')
  <2>1. /\ DOMAIN executed' = DOMAIN executed \cup {n}
        /\ \A i \in DOMAIN executed : executed'[i] = executed[i]
    <3>1. /\ n = Len(executed) + 1 /\ Len(executed) \in Nat
          /\ DOMAIN executed = 1 .. Len(executed) /\ DOMAIN executed' = 1 .. n
          /\ \A i \in DOMAIN executed : executed'[i] = executed[i]
      BY <1>3, ExecuteCases, LogType
    <3> HIDE DEF n
    <3> QED
      BY <3>1
  <2>2. /\ executed'[n].id = c.id /\ executed'[n].generation = c.generation
        /\ executed'[n].index = IndexAt(c, now) /\ executed'[n].at = now
        /\ consumed' = consumed \cup {<<c.id, IndexAt(c, now)>>}
        /\ UNCHANGED <<episodeGeneration, seenRequests, now>>
    BY <1>3, ExecuteCases
  <2>3. c.generation = episodeGeneration /\ c.id \in seenRequests
    BY DEF ChunkInv
  <2> HIDE DEF n
  <2>4. \A i \in DOMAIN executed' :
            /\ executed'[i].at <= now' /\ executed'[i].generation <= episodeGeneration'
            /\ executed'[i].generation = episodeGeneration' =>
                   /\ executed'[i].id \in seenRequests'
                   /\ <<executed'[i].id, executed'[i].index>> \in consumed'
    BY <2>1, <2>2, <2>3 DEF LogInv, Current, TypeOK
  <2>5. ASSUME NEW p \in consumed' PROVE \E i \in DOMAIN executed' :
            executed'[i].generation = episodeGeneration' /\ p = <<executed'[i].id, executed'[i].index>>
    <3>1. CASE p = <<c.id, IndexAt(c, now)>>
      BY <2>1, <2>2, <2>3, <3>1
    <3>2. CASE p \in consumed
      BY <2>1, <2>2, <3>2 DEF LogInv, Current
    <3> QED
      BY <2>2, <2>5, <3>1, <3>2
  <2> QED
    BY <2>4, <2>5 DEF LogInv, Current
<1>4. CASE Rest
  <2>1. UNCHANGED <<episodeGeneration, seenRequests, consumed, executed>> /\ now <= now'
        /\ now' \in Nat /\ now \in Nat
    BY <1>4, RestCases DEF TypeOK
  <2> QED
    BY <1>0, <2>1 DEF LogInv, Current
<1> QED
  BY <1>1, <1>2, <1>3, <1>4, NextCases

LEMMA TailStep == TypeOK /\ ChunkInv /\ LogInv /\ TailInv /\ [Next]_vars => TailInv'
<1> SUFFICES ASSUME TypeOK, ChunkInv, LogInv, TailInv, [Next]_vars PROVE TailInv'
  OBVIOUS
<1>1. ASSUME NEW e \in Episodes, Reset(e) PROVE TailInv'
  BY <1>1 DEF Reset, LeftByReset, TailInv
<1>2. ASSUME NEW c \in sent, Accept(c) PROVE TailInv'
  <2>1. executed' = executed /\ (chunk' = chunk \/ chunk' = {Truncated(c)})
    BY <1>2, AcceptCases
  <2>2. ASSUME chunk' # chunk PROVE \A i \in DOMAIN executed : ~OfChunk(i, Truncated(c))
    <3>1. Truncated(c).id \notin seenRequests /\ Truncated(c).generation = episodeGeneration
      BY <1>2, <2>2, AcceptCases, TruncatedType DEF TypeOK
    <3> QED
      BY <3>1 DEF LogInv, Current, OfChunk
  <2> QED
    BY <2>1, <2>2 DEF TailInv, OfChunk
<1>3. ASSUME NEW c \in chunk, Execute(c) PROVE TailInv'
  <2> DEFINE n == Len(executed')
  <2>1. /\ DOMAIN executed = 1 .. Len(executed) /\ n = Len(executed) + 1
        /\ DOMAIN executed' = 1 .. n /\ Len(executed) \in Nat
        /\ \A i \in DOMAIN executed : executed'[i] = executed[i]
    BY <1>3, ExecuteCases, LogType
  <2>2. /\ executed'[n].id = c.id /\ executed'[n].generation = c.generation
        /\ executed'[n].index = IndexAt(c, now) /\ executed'[n].start = c.start
        /\ IndexAt(c, now) < c.len /\ chunk' = chunk
    BY <1>3, ExecuteCases
  <2>3. chunk = {c}
    BY DEF TypeOK
  <2> HIDE DEF n
  <2>4. ASSUME NEW i \in DOMAIN executed', executed'[i].id = c.id, executed'[i].generation = c.generation
        PROVE  /\ executed'[i].start = c.start /\ executed'[i].index < c.len
               /\ \A j \in i .. n : executed'[j].id = c.id /\ executed'[j].generation = c.generation
    <3>1. CASE i = n
      BY <2>1, <2>2, <3>1
    <3>2. CASE i \in DOMAIN executed
      <4>1. OfChunk(i, c)
        BY <2>1, <2>4, <3>2 DEF OfChunk
      <4>2. executed[i].start = c.start /\ executed[i].index < c.len
            /\ \A j \in i .. Len(executed) : OfChunk(j, c)
        BY <3>2, <4>1 DEF TailInv
      <4>3. ASSUME NEW j \in i .. n
            PROVE  executed'[j].id = c.id /\ executed'[j].generation = c.generation
        <5>1. j = n \/ (j \in i .. Len(executed) /\ j \in DOMAIN executed)
          BY <2>1, <3>2, <4>3
        <5> QED
          BY <2>1, <2>2, <4>2, <5>1 DEF OfChunk
      <4> QED
        BY <2>1, <3>2, <4>2, <4>3
    <3> QED
      BY <2>1, <3>1, <3>2
  <2> QED
    BY <2>2, <2>3, <2>4 DEF TailInv, OfChunk, n
<1>4. CASE Rest
  BY <1>4, RestCases DEF TailInv, OfChunk
<1> QED
  BY <1>1, <1>2, <1>3, <1>4, NextCases
----------------------------------------------------------------------------
(***************************************************************************)
(* The executor: its actions are in time, and time makes the indices go    *)
(* up.                                                                     *)
(***************************************************************************)
LEMMA OrderOfMultiples ==
    ASSUME NEW i \in Nat, NEW k \in Nat, NEW P \in Nat \ {0}, i * P < (k + 1) * P
    PROVE  i <= k
  OBVIOUS

LEMMA InItsTimeStep == TypeOK /\ ChunkInv /\ InItsTime /\ [Next]_vars => InItsTime'
<1> SUFFICES ASSUME TypeOK, ChunkInv, InItsTime, [Next]_vars PROVE InItsTime'
  OBVIOUS
<1>a. ASSUME executed' = executed PROVE InItsTime'
  BY <1>a DEF InItsTime
<1>1. ASSUME NEW e \in Episodes, Reset(e) PROVE InItsTime'
  BY <1>1, <1>a DEF Reset
<1>2. ASSUME NEW c \in sent, Accept(c) PROVE InItsTime'
  BY <1>2, <1>a, AcceptCases
<1>3. ASSUME NEW c \in chunk, Execute(c) PROVE InItsTime'
  <2> DEFINE n == Len(executed')
             k == IndexAt(c, now)
  <2>1. /\ \A i \in DOMAIN executed' : i \in DOMAIN executed \/ i = n
        /\ \A i \in DOMAIN executed : executed'[i] = executed[i]
    <3>1. /\ n = Len(executed) + 1 /\ Len(executed) \in Nat
          /\ DOMAIN executed = 1 .. Len(executed) /\ DOMAIN executed' = 1 .. n
          /\ \A i \in DOMAIN executed : executed'[i] = executed[i]
      BY <1>3, ExecuteCases, LogType
    <3> HIDE DEF n
    <3> QED
      BY <3>1
  <2>2. /\ executed'[n].generation = c.generation /\ executed'[n].index = k
        /\ executed'[n].start = c.start /\ executed'[n].at = now
        /\ executed'[n].bufferGeneration = episodeGeneration
    BY <1>3, ExecuteCases
  <2>3. c.generation = episodeGeneration
    BY DEF ChunkInv
  <2>4. c.start + k * Period <= now /\ now < c.start + (k + 1) * Period
    BY <1>3, ExecuteCases, IndexBounds DEF TypeOK
  <2> HIDE DEF n, k
  <2> QED
    BY <2>1, <2>2, <2>3, <2>4 DEF InItsTime
<1>4. CASE Rest
  BY <1>4, <1>a, RestCases
<1> QED
  BY <1>1, <1>2, <1>3, <1>4, NextCases

LEMMA OnceStep == IndInv /\ [Next]_vars => OnceAndInOrder'
<1> SUFFICES ASSUME IndInv, [Next]_vars PROVE OnceAndInOrder'
  OBVIOUS
<1> USE DEF IndInv
<1>a. ASSUME executed' = executed PROVE OnceAndInOrder'
  BY <1>a DEF OnceAndInOrder, SameChunk
<1>1. ASSUME NEW e \in Episodes, Reset(e) PROVE OnceAndInOrder'
  BY <1>1, <1>a DEF Reset
<1>2. ASSUME NEW c \in sent, Accept(c) PROVE OnceAndInOrder'
  BY <1>2, <1>a, AcceptCases
<1>3. ASSUME NEW c \in chunk, Execute(c) PROVE OnceAndInOrder'
  <2> DEFINE n == Len(executed')
             k == IndexAt(c, now)
             Same(i, j) == /\ executed'[i].id = executed'[j].id
                           /\ executed'[i].generation = executed'[j].generation
  <2>1. /\ n = Len(executed) + 1 /\ Len(executed) \in Nat
        /\ DOMAIN executed = 1 .. Len(executed) /\ DOMAIN executed' = 1 .. n
        /\ \A i \in DOMAIN executed : executed'[i] = executed[i]
    BY <1>3, ExecuteCases, LogType
  <2>2. /\ executed'[n].id = c.id /\ executed'[n].generation = c.generation
        /\ executed'[n].index = k /\ <<c.id, k>> \notin consumed
    BY <1>3, ExecuteCases
  <2>3. now < c.start + (k + 1) * Period /\ k \in Nat /\ c.start \in Nat /\ now \in Nat
    BY <1>3, ExecuteCases, IndexBounds DEF TypeOK, Chunk
  <2>4. c.generation = episodeGeneration
    BY DEF ChunkInv
  <2> HIDE DEF n, k
  <2>5. ASSUME NEW i \in DOMAIN executed, Same(i, n) PROVE executed[i].index < k
    <3>1. OfChunk(i, c) /\ Current(i)
      BY <2>1, <2>2, <2>4, <2>5 DEF OfChunk, Current
    <3>2. executed[i].start = c.start /\ <<c.id, executed[i].index>> \in consumed
      BY <3>1 DEF TailInv, LogInv, OfChunk
    <3>3. executed[i].start + executed[i].index * Period <= executed[i].at
          /\ executed[i].at <= now
      BY DEF InItsTime, LogInv
    <3>4. executed[i].index \in Nat /\ executed[i].at \in Nat
      BY LogType DEF Action
    <3> DEFINE m == executed[i].index
               t == executed[i].at
    <3>5. m \in Nat /\ t \in Nat /\ c.start + m * Period <= t /\ t <= now /\ m # k
      BY <2>2, <3>2, <3>3, <3>4
    <3> HIDE DEF m, t
    <3>6. m * Period \in Nat /\ (k + 1) * Period \in Nat
      BY <2>3, <3>5, BufferAssumption
    <3>7. m * Period < (k + 1) * Period
      BY <2>3, <3>5, <3>6
    <3>8. m <= k
      BY <2>3, <3>5, <3>7, OrderOfMultiples, BufferAssumption
    <3> QED
      BY <2>3, <3>5, <3>8 DEF m
  <2>6. ASSUME NEW i \in DOMAIN executed', NEW j \in DOMAIN executed', i < j, Same(i, j)
        PROVE  executed'[i].index < executed'[j].index
    <3>1. i \in DOMAIN executed
      BY <2>1, <2>6
    <3>2. CASE j = n
      BY <2>1, <2>2, <2>5, <2>6, <3>1, <3>2
    <3>3. CASE j \in DOMAIN executed
      BY <2>1, <2>6, <3>1, <3>3 DEF OnceAndInOrder, SameChunk
    <3> QED
      BY <2>1, <3>2, <3>3
  <2>7. ASSUME NEW i \in DOMAIN executed', NEW l \in DOMAIN executed', NEW j \in i .. l, Same(i, l)
        PROVE  Same(i, j)
    <3>1. CASE l = n
      <4>1. CASE j = n
        BY <2>7, <3>1, <4>1
      <4>2. CASE j # n
        <5>1. i \in DOMAIN executed /\ j \in i .. Len(executed)
          BY <2>1, <2>7, <3>1, <4>2
        <5>2. OfChunk(i, c)
          BY <2>1, <2>2, <2>7, <3>1, <5>1 DEF OfChunk
        <5>3. OfChunk(j, c) /\ j \in DOMAIN executed
          BY <2>1, <5>1, <5>2 DEF TailInv
        <5> QED
          BY <2>1, <5>1, <5>2, <5>3 DEF OfChunk
      <4> QED
        BY <4>1, <4>2
    <3>2. CASE l \in DOMAIN executed
      <4>1. i \in DOMAIN executed /\ j \in DOMAIN executed
        BY <2>1, <2>7, <3>2
      <4> QED
        BY <2>1, <2>7, <3>2, <4>1 DEF OnceAndInOrder, SameChunk
    <3> QED
      BY <2>1, <3>1, <3>2
  <2> QED
    BY <2>6, <2>7 DEF OnceAndInOrder, SameChunk
<1>4. CASE Rest
  BY <1>4, <1>a, RestCases
<1> QED
  BY <1>1, <1>2, <1>3, <1>4, NextCases

----------------------------------------------------------------------------
LEMMA IndInvInit == Init => IndInv
  BY TypeInit DEF Init, IndInv, ChunkInv, LogInv, TailInv, InItsTime, OnceAndInOrder

LEMMA IndInvStep == IndInv /\ [Next]_vars => IndInv'
  BY TypeStep, ChunkStep, LogStep, TailStep, InItsTimeStep, OnceStep DEF IndInv

LEMMA Invariance == Spec => []IndInv
  BY IndInvInit, IndInvStep, PTL DEF Spec

(***************************************************************************)
(* No action is executed twice, the indices of a chunk go up, and a chunk  *)
(* that was replaced never returns, whatever the jitter of the control     *)
(* loop (action_buffer.py:79-81, 96-104).                                  *)
(***************************************************************************)
THEOREM ExecutedOnceInOrder == Spec => []OnceAndInOrder
<1>1. IndInv => OnceAndInOrder
  BY DEF IndInv
<1> QED
  BY <1>1, Invariance, PTL

(***************************************************************************)
(* An action is executed in its own period and never across a reset        *)
(* (action_buffer.py:55-73, 122-127).                                      *)
(***************************************************************************)
THEOREM ExecutedInTime == Spec => []InItsTime
<1>1. IndInv => InItsTime
  BY DEF IndInv
<1> QED
  BY <1>1, Invariance, PTL

(***************************************************************************)
(* While coverage_s is positive within a chunk, pop() returns the present  *)
(* action or has returned it (action_buffer.py:92-117).                    *)
(***************************************************************************)
THEOREM CoverageHonest == Spec => []CoverageIsHonest
<1>1. IndInv => CoverageIsHonest
  <2> SUFFICES ASSUME IndInv, NEW c \in chunk, c.start <= now
               PROVE  Coverage(now) > 0
                        <=> Poppable(c) \/ \E i \in DOMAIN executed :
                               /\ executed[i].id = c.id /\ executed[i].generation = c.generation
                               /\ executed[i].index = IndexAt(c, now)
    BY DEF CoverageIsHonest
  <2>1. chunk = {c} /\ c \in Chunk /\ now \in Nat /\ c.generation = episodeGeneration
    BY DEF IndInv, TypeOK, ChunkInv
  <2>2. IndexAt(c, now) \in Nat /\ (IndexAt(c, now) < c.len <=> now < EndAt(c))
    BY <2>1, IndexBounds, IndexAndEnd
  <2>3. Coverage(now) > 0 <=> now < EndAt(c)
    <3>1. EndAt(c) \in Nat /\ c.start \in Nat
      BY <2>1, BufferAssumption DEF EndAt, Chunk
    <3>2. (CHOOSE d \in chunk : TRUE) = c
      BY <2>1
    <3>3. CASE now < EndAt(c)
      <4>1. Coverage(now) = EndAt(c) - now
        BY <2>1, <3>1, <3>2, <3>3 DEF Coverage
      <4> QED
        BY <2>1, <3>1, <3>3, <4>1
    <3>4. CASE ~(now < EndAt(c))
      BY <2>1, <3>4 DEF Coverage
    <3> QED
      BY <3>3, <3>4
  <2>4. <<c.id, IndexAt(c, now)>> \in consumed <=>
            \E i \in DOMAIN executed :
                /\ executed[i].id = c.id /\ executed[i].generation = c.generation
                /\ executed[i].index = IndexAt(c, now)
    BY <2>1 DEF IndInv, LogInv, Current
  <2>5. (\E i \in DOMAIN executed :
            /\ executed[i].id = c.id /\ executed[i].generation = c.generation
            /\ executed[i].index = IndexAt(c, now)) => IndexAt(c, now) < c.len
    BY DEF IndInv, TailInv, OfChunk
  <2>6. Poppable(c) <=> IndexAt(c, now) < c.len /\ <<c.id, IndexAt(c, now)>> \notin consumed
    <3>1. IndexAt(c, now) < c.len <=> IndexAt(c, now) \in 0 .. c.len - 1
      <4>1. c.len \in Nat
        BY <2>1 DEF Chunk
      <4> QED
        BY <2>2, <4>1
    <3> QED
      BY <3>1 DEF Poppable
  <2> QED
    BY <2>2, <2>3, <2>4, <2>5, <2>6
<1> QED
  BY <1>1, Invariance, PTL

(***************************************************************************)
(* For every period and horizon: actions that can still be executed are    *)
(* lost only to a reset or to a new, well-formed chunk of the present      *)
(* episode that has an action left, and no request is forgotten before a   *)
(* reset (action_buffer.py:59-61, 79-90, 97-101).                          *)
(***************************************************************************)
THEOREM TailIsKept == Spec => TailKept
<1> DEFINE Keeps == /\ \A c \in chunk \ chunk' :
                           now < EndAt(c) => WasReset \/ \E d \in chunk' : Replaces(d)
                    /\ \A c \in chunk' \ chunk : Replaces(c)
                    /\ WasReset \/ seenRequests \subseteq seenRequests'
<1>1. IndInv /\ [Next]_vars => [Keeps]_vars
  <2> SUFFICES ASSUME IndInv, [Next]_vars PROVE Keeps
    OBVIOUS
  <2>1. TypeOK
    BY DEF IndInv
  <2>2. ASSUME NEW e \in Episodes, Reset(e) PROVE Keeps
    BY <2>2 DEF Reset, LeftByReset, WasReset
  <2>3. ASSUME NEW c \in sent, Accept(c) PROVE Keeps
    <3>1. CASE chunk' = chunk
      BY <2>1, <2>3, <3>1, AcceptCases
    <3>2. CASE chunk' # chunk
      <4>1. /\ chunk' = {Truncated(c)} /\ ~Expired(c)
            /\ seenRequests' = seenRequests \cup {c.id} /\ c.id \notin seenRequests
            /\ c.episode = episodeId /\ c.generation = episodeGeneration /\ c.fault = "none"
        BY <2>1, <2>3, <3>2, AcceptCases
      <4>2. /\ Truncated(c) \in Chunk /\ Truncated(c).id = c.id
            /\ Truncated(c).episode = c.episode /\ Truncated(c).generation = c.generation
            /\ Truncated(c).fault = c.fault /\ now \in Nat
        BY <2>1, TruncatedType DEF TypeOK
      <4>3. now < EndAt(Truncated(c))
        BY <4>1, <4>2, LeftInTime DEF Expired
      <4>4. Replaces(Truncated(c))
        BY <4>1, <4>2, <4>3 DEF Replaces
      <4> QED
        BY <4>1, <4>4
    <3> QED
      BY <3>1, <3>2
  <2>4. ASSUME NEW c \in chunk, Execute(c) PROVE Keeps
    BY <2>1, <2>4, ExecuteCases
  <2>5. CASE Fallback
    <3>1. chunk' = {c \in chunk : IndexAt(c, now) < c.len} /\ seenRequests' = seenRequests
      BY <2>5 DEF Fallback
    <3>2. \A c \in chunk : now < EndAt(c) <=> IndexAt(c, now) < c.len
      BY <2>1, IndexAndEnd DEF TypeOK
    <3> QED
      BY <3>1, <3>2
  <2>6. CASE Rest /\ ~Fallback
    BY <2>6 DEF Rest, Tick, Predict, vars
  <2> QED
    BY <2>2, <2>3, <2>4, <2>5, <2>6, NextCases
<1>2. [][Keeps]_vars => TailKept
  BY PTL DEF TailKept
<1> HIDE DEF Keeps
<1> QED
  BY <1>1, <1>2, Invariance, PTL DEF Spec
============================================================================
