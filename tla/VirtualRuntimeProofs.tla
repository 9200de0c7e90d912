------------------------ MODULE VirtualRuntimeProofs ------------------------
(***************************************************************************)
(* What VirtualRuntime guarantees for every period, horizon, latency,      *)
(* threshold, window, quantile, margin, deadband and interval, and for any *)
(* number of ticks: its types, that nobody idles unasked, what the         *)
(* estimator keeps in mind, and the supply criterion.                      *)
(***************************************************************************)
EXTENDS VirtualRuntime, FiniteSetTheorems, SequenceTheorems, WellFoundedInduction, TLAPS

(***************************************************************************)
(* The loop's clock only ever shows the beginning of a tick, and so does   *)
(* every time that is taken from it.                                       *)
(***************************************************************************)
AtTick(t) == \E k \in Nat : t = k * Period

ClockInv ==
    /\ AtTick(now) /\ now <= TickCount * Period
    /\ phase \in {"poll", "decide", "repoll", "execute", "advance", "finished"}
    /\ phase # "finished" => now < TickCount * Period

(***************************************************************************)
(* The prediction in flight and the chunk in the buffer each begin at the  *)
(* tick they were asked for, and the buffer cannot refuse the one in       *)
(* flight: it is of the present episode, well-formed and not yet seen.     *)
(***************************************************************************)
ChunkInv ==
    /\ config \in Configs
    /\ episodeId = Episode /\ episodeGeneration = 1
    /\ sent \in SUBSET Buffer!Chunk
    /\ sent = {} \/ \E c \in sent : \A d \in sent : d.id <= c.id
    /\ lastRequestedAt = -1 \/ (AtTick(lastRequestedAt) /\ lastRequestedAt <= now)
    /\ \A p, q \in pending : p = q
    /\ \A p \in pending :
           /\ p.chunk \in sent /\ p.chunk.len = ChunkSize
           /\ p.requestedAt = lastRequestedAt /\ p.chunk.start = lastRequestedAt
           /\ AtTick(lastRequestedAt) /\ p.readyAt \in Nat
           /\ ~Buffer!Refused(p.chunk)
    /\ \A n \in seenRequests : \E c \in sent : n = c.id
    /\ phase = "repoll" => pending # {} /\ lastRequestedAt = now
    /\ \A c, d \in chunk : c = d
    /\ \A c \in chunk : /\ AtTick(c.start) /\ c.start <= now
                        /\ c.len = ExecuteHorizon /\ c.id \in seenRequests

(***************************************************************************)
(* Of the chunk in the buffer only actions of earlier periods were popped, *)
(* and in the present tick at most the present one.                        *)
(***************************************************************************)
ConsumedInv ==
    /\ \A u \in consumed : u[1] \in seenRequests /\ u[2] \in Nat
    /\ \A c \in chunk : \A k :
           <<c.id, k>> \in consumed =>
               \/ k < Buffer!IndexAt(c, now)
               \/ phase = "advance" /\ k = Buffer!IndexAt(c, now)

IdleInv ==
    phase = "execute" =>
        \/ \E c \in chunk : now < c.start + Budget
        \/ pending # {}
        \/ /\ config.scheduler = "adaptive_async"
           /\ now - lastRequestedAt < config.minRequestInterval

(***************************************************************************)
(* The controller's window holds the last measured latencies.              *)
(***************************************************************************)
WindowInv ==
    /\ samples \in Seq(Nat) /\ measured \in Seq(Nat)
    /\ Len(samples) <= WindowSize /\ Len(samples) <= Len(measured)
    /\ Len(samples) < WindowSize => Len(samples) = Len(measured)
    /\ \A k \in 1 .. Len(samples) : samples[k] = measured[Len(measured) - Len(samples) + k]
    /\ threshold \in 0 .. Scaled(Budget) /\ limited \in BOOLEAN

(***************************************************************************)
(* The log of the episode: times of accepted chunks do not go down, and a  *)
(* fallback is one of a tick that is done.                                 *)
(***************************************************************************)
Done(t) == t < now \/ (t = now /\ phase = "advance")

LogInv ==
    /\ latencies \in Seq(Latencies)
    /\ acceptedAt \in Seq(Nat)
    /\ \A i \in DOMAIN acceptedAt : acceptedAt[i] <= now
    /\ \A i, j \in DOMAIN acceptedAt : i < j => acceptedAt[i] <= acceptedAt[j]
    /\ \A t \in fallbackAt : t \in Nat /\ Done(t)

(***************************************************************************)
(* Under a steady latency every prediction takes the same number of ticks, *)
(* Took in all, and the controller knows it from the first one.            *)
(***************************************************************************)
Adaptive == config.scheduler = "adaptive_async"
Took     == measured[1]
Interval == config.minRequestInterval

SteadyInv ==
    Adaptive /\ Steady =>
        /\ \A p \in pending :
               /\ latencies # <<>> /\ p.readyAt = p.requestedAt + latencies[1]
               /\ now < p.readyAt + Period
               /\ phase \in {"decide", "execute", "advance"} => now < p.readyAt
        /\ \A i \in DOMAIN measured :
               /\ AtTick(measured[i]) /\ latencies # <<>>
               /\ latencies[1] <= measured[i] /\ measured[i] < latencies[1] + Period
        /\ measured # <<>> =>
               /\ threshold = Scaled(Least(Took + Margin, Budget))
               /\ limited <=> Took + Most(Took, Interval) > Budget

(***************************************************************************)
(* The last accepted chunk was asked for at Began and lasts to ItsEnd.     *)
(* Until it has ended there was no fallback since; the next request comes  *)
(* so early that its chunk takes over, exactly unless supply is limited.   *)
(***************************************************************************)
Last   == acceptedAt[Len(acceptedAt)]
Began  == Last - Took
ItsEnd == Began + Budget

PaceInv ==
    Adaptive /\ Steady /\ acceptedAt # <<>> =>
        /\ measured # <<>> /\ Took < Budget
        /\ AtTick(Began)
        /\ \A c \in chunk : c.start = Began
        /\ now < ItsEnd => chunk # {}
        /\ (\E t \in fallbackAt : Last <= t) <=> Done(ItsEnd)
        /\ pending = {} =>
               /\ lastRequestedAt = Began
               /\ \/ limited
                  \/ now + Took < ItsEnd
                  \/ phase \in {"poll", "decide", "finished"} /\ now + Took = ItsEnd
        /\ pending # {} =>
               /\ lastRequestedAt >= Last
               /\ limited <=> lastRequestedAt + Took > ItsEnd

VirtualInv == ClockInv /\ ChunkInv /\ ConsumedInv /\ IdleInv /\ WindowInv /\ LogInv
                       /\ ThresholdTracks /\ SteadyInv /\ PaceInv /\ SupplyCriterion
----------------------------------------------------------------------------
(***************************************************************************)
(* Arithmetic of ticks and of scaled times.                                *)
(***************************************************************************)
LEMMA BudgetType ==
    /\ Period \in Nat \ {0} /\ ExecuteHorizon \in Nat \ {0} /\ ChunkSize \in Nat
    /\ ExecuteHorizon <= ChunkSize
    /\ Budget \in Nat \ {0} /\ AtTick(Budget)
<1>1. Period \in Nat \ {0} /\ ChunkSize \in Nat /\ ExecuteHorizon \in 1 .. ChunkSize
  BY VirtualAssumption
<1> QED
  BY <1>1 DEF Budget, AtTick

LEMMA TickType == ASSUME NEW t, AtTick(t) PROVE t \in Nat
  BY BudgetType DEF AtTick

LEMMA TickGap ==
    ASSUME NEW s, NEW t, AtTick(s), AtTick(t), s < t
    PROVE  s + Period <= t
<1>1. PICK j \in Nat : s = j * Period
  BY DEF AtTick
<1>2. PICK k \in Nat : t = k * Period
  BY DEF AtTick
<1>3. PICK d \in Nat \ {0} : d = Period
  BY BudgetType
<1>4. ~(k <= j)
  <2>1. k <= j => k * d <= j * d
    BY <1>3
  <2>2. j * d < k * d
    BY <1>1, <1>2, <1>3
  <2>3. j * d \in Nat /\ k * d \in Nat
    BY <1>3
  <2> QED
    BY <2>1, <2>2, <2>3
<1>5. j + 1 <= k
  BY <1>4
<1>6. (j + 1) * d <= k * d /\ (j + 1) * d = j * d + d
  BY <1>3, <1>5
<1> QED
  BY <1>1, <1>2, <1>3, <1>6

LEMMA TickSum == ASSUME NEW s, NEW t, AtTick(s), AtTick(t) PROVE AtTick(s + t)
<1>1. PICK j \in Nat : s = j * Period
  BY DEF AtTick
<1>2. PICK k \in Nat : t = k * Period
  BY DEF AtTick
<1>3. j * Period + k * Period = (j + k) * Period /\ j + k \in Nat
  BY BudgetType
<1> QED
  BY <1>1, <1>2, <1>3 DEF AtTick

LEMMA TickDifference ==
    ASSUME NEW s, NEW t, AtTick(s), AtTick(t), s <= t PROVE AtTick(t - s)
<1>1. PICK j \in Nat : s = j * Period
  BY DEF AtTick
<1>2. PICK k \in Nat : t = k * Period
  BY DEF AtTick
<1>3. j <= k
  <2>1. k < j => k * Period < j * Period
    BY BudgetType
  <2>2. j * Period \in Nat /\ k * Period \in Nat
    BY BudgetType
  <2> QED
    BY <1>1, <1>2, <2>1, <2>2
<1>4. k * Period - j * Period = (k - j) * Period /\ k - j \in Nat
  BY <1>3, BudgetType
<1> QED
  BY <1>1, <1>2, <1>4 DEF AtTick

LEMMA OnePeriod == AtTick(Period) /\ AtTick(0)
<1>1. Period = 1 * Period /\ 0 = 0 * Period
  BY BudgetType
<1> QED
  BY <1>1 DEF AtTick

LEMMA ScaledFacts ==
    ASSUME NEW s \in Nat, NEW t \in Nat
    PROVE  /\ Scaled(s) \in Nat
           /\ Scaled(s) + Scaled(t) = Scaled(s + t)
           /\ Scaled(s) <= Scaled(t) <=> s <= t
<1>1. PICK d \in Nat \ {0} : d = QuantileDen
  BY VirtualAssumption
<1>2. s * d \in Nat /\ t * d \in Nat /\ s * d + t * d = (s + t) * d
  BY <1>1
<1>3. s <= t => s * d <= t * d
  BY <1>1
<1>4. t < s => t * d < s * d
  BY <1>1
<1> QED
  BY <1>1, <1>2, <1>3, <1>4 DEF Scaled
----------------------------------------------------------------------------
(***************************************************************************)
(* The estimator.  Numbers have a least one, which stands in for induction *)
(* over the length of a sequence.                                          *)
(***************************************************************************)
LEMMA Minimum ==
    ASSUME NEW S \in SUBSET Nat, S # {}
    PROVE  \E least \in S : \A n \in S : least <= n
<1>1. PICK least \in S : \A n \in S : ~ (<<n, least>> \in OpToRel(<, Nat))
  BY NatLessThanWellFounded, WFMin
<1>2. \A n \in S : <<n, least>> \in OpToRel(<, Nat) <=> n < least
  BY DEF OpToRel
<1>3. \A n \in S : n \in Nat /\ least \in Nat /\ ~(n < least)
  BY <1>1, <1>2
<1> QED
  BY <1>3

\* A sequence of numbers has an upper bound: take the shortest prefix without.
Bounds(s, k, b) == \A i \in 1 .. k : s[i] <= b

LEMMA Bounded ==
    ASSUME NEW s \in Seq(Nat)
    PROVE  \E b \in Nat : \A i \in DOMAIN s : s[i] <= b
<1>1. PICK n \in Nat : n = Len(s) /\ DOMAIN s = 1 .. n
  OBVIOUS
<1>2. \A i \in 1 .. n : s[i] \in Nat
  BY <1>1
<1> DEFINE Unbounded == {k \in 0 .. n : ~ \E b \in Nat : Bounds(s, k, b)}
<1>3. ASSUME NEW k \in Unbounded PROVE \E m \in Unbounded : m < k
  <2>1. k \in 0 .. n /\ ~ \E b \in Nat : Bounds(s, k, b)
    OBVIOUS
  <2>2. k # 0
    <3>1. Bounds(s, 0, 0)
      BY DEF Bounds
    <3> QED
      BY <2>1, <3>1
  <2>3. k - 1 \in 0 .. n /\ k \in 1 .. n /\ k - 1 < k
    BY <1>1, <2>1, <2>2
  <2>4. ASSUME NEW b \in Nat, Bounds(s, k - 1, b) PROVE FALSE
    <3>1. PICK c \in Nat : b <= c /\ s[k] <= c
      <4>1. s[k] \in Nat
        BY <1>2, <2>3
      <4> QED
        BY <4>1
    <3>2. ASSUME NEW i \in 1 .. k PROVE s[i] <= c
      <4>1. CASE i = k
        BY <3>1, <4>1
      <4>2. CASE i # k
        <5>1. i \in 1 .. k - 1 /\ i \in 1 .. n
          BY <2>3, <4>2
        <5>2. s[i] <= b /\ s[i] \in Nat
          BY <1>2, <2>4, <5>1 DEF Bounds
        <5> QED
          BY <3>1, <5>2
      <4> QED
        BY <4>1, <4>2
    <3>3. Bounds(s, k, c)
      BY <3>2 DEF Bounds
    <3> QED
      BY <2>1, <3>3
  <2> QED
    BY <2>3, <2>4
<1>4. Unbounded = {}
  <2>1. Unbounded \in SUBSET Nat
    BY <1>1
  <2>2. ASSUME NEW k \in Unbounded, \A m \in Unbounded : k <= m PROVE FALSE
    <3>1. PICK m \in Unbounded : m < k
      BY <1>3
    <3>2. k <= m /\ k \in Nat /\ m \in Nat
      BY <2>1, <2>2
    <3> QED
      BY <3>1, <3>2
  <2> HIDE DEF Unbounded
  <2> QED
    BY <2>1, <2>2, Minimum
<1>5. PICK b \in Nat : Bounds(s, n, b)
  <2>1. n \in 0 .. n
    BY <1>1
  <2> QED
    BY <1>4, <2>1
<1> QED
  BY <1>1, <1>5 DEF Bounds

(***************************************************************************)
(* There is a value at every rank: the least number that k of the values   *)
(* do not exceed is one of them.                                           *)
(***************************************************************************)
UpTo(s, v) == {i \in DOMAIN s : s[i] <= v}

LEMMA RankExists ==
    ASSUME NEW s \in Seq(Nat), NEW k \in 1 .. Len(s)
    PROVE  AtRank(s, k) \in {s[i] : i \in DOMAIN s}
<1>1. PICK n \in Nat : n = Len(s) /\ DOMAIN s = 1 .. n /\ k \in 1 .. n
  OBVIOUS
<1>2. \A i \in DOMAIN s : s[i] \in Nat
  BY <1>1
<1>3. IsFiniteSet(DOMAIN s) /\ Cardinality(DOMAIN s) = n
  <2>1. 1 \in Int /\ n \in Int /\ (IF 1 > n THEN 0 ELSE n - 1 + 1) = n
    BY <1>1
  <2> QED
    BY <1>1, <2>1, FS_Interval
<1>4. ASSUME NEW T \in SUBSET (DOMAIN s) PROVE Cardinality(T) \in Nat
  BY <1>3, FS_Subset, FS_CardinalityType
<1> DEFINE Enough == {v \in Nat : Cardinality(UpTo(s, v)) >= k}
<1>5. PICK b \in Nat : \A i \in DOMAIN s : s[i] <= b
  BY Bounded
<1>6. b \in Enough
  <2>1. UpTo(s, b) = DOMAIN s
    BY <1>5 DEF UpTo
  <2>2. n >= k
    BY <1>1
  <2> QED
    BY <1>3, <2>1, <2>2
<1>7. PICK v \in Enough : \A w \in Enough : v <= w
  <2>1. Enough \in SUBSET Nat /\ Enough # {}
    BY <1>6
  <2> QED
    BY <2>1, Minimum
<1>8. v \in Nat /\ Cardinality(UpTo(s, v)) >= k
  BY <1>7
<1> DEFINE Smaller == {i \in DOMAIN s : s[i] < v}
<1>9. Cardinality(Smaller) < k
  <2>1. CASE v = 0
    <3>1. Smaller = {}
      BY <1>2, <2>1
    <3>2. Cardinality(Smaller) = 0
      BY <3>1, FS_EmptySet
    <3>3. 0 < k
      BY <1>1
    <3> QED
      BY <3>2, <3>3
  <2>2. CASE v # 0
    <3>1. PICK w \in Nat : w = v - 1
      BY <1>8, <2>2
    <3>2. Smaller = UpTo(s, w)
      BY <1>2, <1>8, <3>1 DEF UpTo
    <3>3. w \notin Enough
      BY <1>7, <1>8, <3>1
    <3>4. ~(Cardinality(UpTo(s, w)) >= k)
      BY <3>3
    <3>5. PICK m \in Nat : m = Cardinality(UpTo(s, w))
      BY <1>4 DEF UpTo
    <3>6. ~(m >= k) /\ k \in Nat
      BY <1>1, <3>4, <3>5
    <3>7. m < k
      BY <3>6
    <3> QED
      BY <3>2, <3>5, <3>7
  <2> QED
    BY <2>1, <2>2
<1>10. PICK i \in DOMAIN s : s[i] = v
  <2>1. Smaller # UpTo(s, v)
    <3>1. PICK m \in Nat : m = Cardinality(Smaller)
      BY <1>4
    <3>2. m < k /\ k \in Nat
      BY <1>1, <1>9, <3>1
    <3>3. ~(m >= k)
      BY <3>2
    <3> QED
      BY <1>8, <3>1, <3>3
  <2>2. Smaller \subseteq UpTo(s, v)
    BY <1>2, <1>8 DEF UpTo
  <2>3. PICK i \in DOMAIN s : s[i] <= v /\ ~(s[i] < v)
    BY <2>1, <2>2 DEF UpTo
  <2> QED
    BY <1>2, <1>8, <2>3
<1>11. /\ v \in {s[j] : j \in DOMAIN s}
       /\ Cardinality({j \in DOMAIN s : s[j] < v}) < k
       /\ Cardinality({j \in DOMAIN s : s[j] <= v}) >= k
  BY <1>8, <1>9, <1>10 DEF UpTo
<1> HIDE DEF Enough, Smaller
<1> QED
  BY <1>11 DEF AtRank
(***************************************************************************)
(* The estimate of latencies lies between two of them, and it is their     *)
(* common value when they are all equal.                                   *)
(***************************************************************************)
LEMMA BetweenBounds ==
    ASSUME NEW x \in Nat, NEW y \in Nat, NEW r \in 0 .. QuantileDen
    PROVE  /\ Between(x, y, r) \in Int
           /\ \E a, b \in {x, y} : /\ Scaled(a) <= Between(x, y, r)
                                   /\ Between(x, y, r) <= Scaled(b)
<1>1. PICK d \in Nat \ {0} : d = QuantileDen /\ r \in 0 .. d
  BY VirtualAssumption
<1>2. Scaled(x) = x * d /\ Scaled(y) = y * d /\ Between(x, y, r) = x * d + (y - x) * r
  BY <1>1 DEF Scaled, Between
<1>3. Between(x, y, r) \in Int
  BY <1>1, <1>2
<1>4. CASE x <= y
  <2>1. PICK e \in Nat : y = x + e /\ y - x = e
    BY <1>4
  <2>2. 0 <= e * r /\ e * r <= e * d /\ y * d = x * d + e * d
    BY <1>1, <2>1
  <2>3. x * d <= x * d + e * r /\ x * d + e * r <= y * d
    <3>1. x * d \in Nat /\ e * r \in Nat /\ e * d \in Nat
      BY <1>1
    <3> QED
      BY <2>2, <3>1
  <2> QED
    BY <1>2, <1>3, <2>1, <2>3
<1>5. CASE ~(x <= y)
  <2>1. PICK e \in Nat : x = y + e /\ y - x = -e
    BY <1>5
  <2>2. 0 <= e * r /\ e * r <= e * d /\ x * d = y * d + e * d /\ (y - x) * r = -(e * r)
    BY <1>1, <2>1
  <2>3. x * d + (y - x) * r <= x * d /\ y * d <= x * d + (y - x) * r
    <3>1. y * d \in Nat /\ e * r \in Nat /\ e * d \in Nat
      BY <1>1
    <3> QED
      BY <2>2, <3>1
  <2> QED
    BY <1>2, <1>3, <2>3
<1> QED
  BY <1>4, <1>5

LEMMA QuantilePosition ==
    ASSUME NEW n \in Nat \ {0}, NEW q, NEW r,
           q = ((n - 1) * QuantileNum) \div QuantileDen,
           r = ((n - 1) * QuantileNum) % QuantileDen
    PROVE  /\ q + 1 \in 1 .. n /\ r \in 0 .. QuantileDen
           /\ r # 0 => q + 1 + 1 \in 1 .. n
<1>1. PICK d \in Nat \ {0} : d = QuantileDen
  BY VirtualAssumption
<1>2. PICK m \in Nat : m = n - 1
  OBVIOUS
<1>3. PICK p \in Nat : p = (n - 1) * QuantileNum /\ p <= m * d
  <2>1. PICK e \in Nat : e = QuantileNum /\ e <= d
    BY <1>1, VirtualAssumption
  <2>2. m * e \in Nat /\ m * e <= m * d
    BY <1>1, <2>1
  <2> QED
    BY <1>2, <2>1, <2>2
<1>4. q = p \div d /\ r = p % d
  BY <1>1, <1>3
<1>5. q \in Nat /\ r \in 0 .. d - 1 /\ p = q * d + r
  BY <1>1, <1>4
<1>6. q <= m
  <2>1. m < q => m * d < q * d
    BY <1>1, <1>5
  <2>2. q * d <= p /\ q * d \in Nat /\ m * d \in Nat
    BY <1>1, <1>5
  <2> QED
    BY <1>3, <1>5, <2>1, <2>2
<1>7. ASSUME r # 0 PROVE q # m
  <2>1. q * d < p /\ q * d \in Nat
    BY <1>1, <1>5, <1>7
  <2> QED
    BY <1>1, <1>3, <2>1
<1> QED
  BY <1>1, <1>2, <1>5, <1>6, <1>7

LEMMA EstimateBetween ==
    ASSUME NEW s \in Seq(Nat), s # <<>>
    PROVE  /\ Estimate(s) \in Int
           /\ \E i, j \in DOMAIN s :
                  /\ s[i] \in Nat /\ s[j] \in Nat
                  /\ Scaled(s[i]) <= Estimate(s) /\ Estimate(s) <= Scaled(s[j])
<1>1. PICK n \in Nat \ {0} : n = Len(s)
  BY EmptySeq
<1>2. PICK q, r : /\ q = ((n - 1) * QuantileNum) \div QuantileDen
                  /\ r = ((n - 1) * QuantileNum) % QuantileDen
  OBVIOUS
<1>3. /\ q + 1 \in 1 .. Len(s) /\ r \in 0 .. QuantileDen
      /\ r # 0 => q + 1 + 1 \in 1 .. Len(s)
  BY <1>1, <1>2, QuantilePosition
<1>4. PICK x : x = AtRank(s, q + 1)
  OBVIOUS
<1>5. PICK y : y = AtRank(s, IF r = 0 THEN q + 1 ELSE q + 1 + 1)
  OBVIOUS
<1>6. Estimate(s) = Between(x, y, r)
  BY <1>1, <1>2, <1>4, <1>5 DEF Estimate
<1>7. x \in {s[i] : i \in DOMAIN s} /\ y \in {s[i] : i \in DOMAIN s}
  <2>1. CASE r = 0
    BY <1>3, <1>4, <1>5, <2>1, RankExists
  <2>2. CASE r # 0
    BY <1>3, <1>4, <1>5, <2>2, RankExists
  <2> QED
    BY <2>1, <2>2
<1>8. x \in Nat /\ y \in Nat
  BY <1>7
<1>9. PICK a, b \in {x, y} : Scaled(a) <= Between(x, y, r) /\ Between(x, y, r) <= Scaled(b)
  BY <1>3, <1>8, BetweenBounds
<1>10. Between(x, y, r) \in Int
  BY <1>3, <1>8, BetweenBounds
<1>11. PICK i \in DOMAIN s : a = s[i]
  BY <1>7, <1>9
<1>12. PICK j \in DOMAIN s : b = s[j]
  BY <1>7, <1>9
<1>13. s[i] \in Nat /\ s[j] \in Nat
  BY <1>8, <1>9, <1>11, <1>12
<1> QED
  BY <1>6, <1>9, <1>10, <1>11, <1>12, <1>13
----------------------------------------------------------------------------
(***************************************************************************)
(* The buffer at a tick.  A chunk of ExecuteHorizon actions that began at  *)
(* a tick covers Budget from there on.                                     *)
(***************************************************************************)
LEMMA Multiple ==
    ASSUME NEW k \in Nat PROVE (k * Period) \div Period = k
<1>1. PICK d \in Nat \ {0} : d = Period
  BY BudgetType
<1>2. k * d \in Nat /\ (k * d) \div d \in Int /\ (k * d) % d \in 0 .. d - 1
  BY <1>1
<1>3. k * d = d * ((k * d) \div d) + ((k * d) % d)
  <2>1. PICK p \in Nat : p = k * d
    BY <1>2
  <2>2. p = d * (p \div d) + (p % d)
    BY <1>1
  <2> QED
    BY <2>1, <2>2
<1>4. PICK q \in Int, r \in 0 .. d - 1 : q = (k * d) \div d /\ k * d = d * q + r
  BY <1>2, <1>3
<1>5. q = k
  <2>1. CASE q < k
    <3>1. d * (q + 1) <= d * k /\ d * (q + 1) = d * q + d
      BY <1>1, <1>4, <2>1
    <3>2. d * q \in Int /\ d * k \in Int /\ d * k = k * d
      BY <1>1, <1>4
    <3> QED
      BY <1>1, <1>4, <3>1, <3>2
  <2>2. CASE k < q
    <3>1. d * k < d * q /\ d * k = k * d /\ d * q \in Int /\ d * k \in Int
      BY <1>1, <1>4, <2>2
    <3> QED
      BY <1>1, <1>4, <3>1
  <2> QED
    BY <1>4, <2>1, <2>2
<1> QED
  BY <1>1, <1>4, <1>5

LEMMA IndexAtTick ==
    ASSUME NEW c, NEW t, AtTick(c.start), AtTick(t), c.start <= t
    PROVE  /\ Buffer!IndexAt(c, t) \in Nat
           /\ Buffer!IndexAt(c, t) < ExecuteHorizon <=> t < c.start + Budget
           /\ Buffer!IndexAt(c, t + Period) = Buffer!IndexAt(c, t) + 1
<1>1. c.start \in Nat /\ t \in Nat /\ ~(t < c.start) /\ ~(t + Period < c.start)
  BY TickType, BudgetType
<1>2. PICK k \in Nat : t - c.start = k * Period
  BY TickDifference DEF AtTick
<1>3. t + Period - c.start = (k + 1) * Period
  BY <1>1, <1>2, BudgetType
<1>4. Buffer!IndexAt(c, t) = k /\ Buffer!IndexAt(c, t + Period) = k + 1
  <2>1. (k * Period) \div Period = k /\ ((k + 1) * Period) \div Period = k + 1
    BY Multiple
  <2>2. Buffer!IndexAt(c, t) = k
    BY <1>1, <1>2, <2>1 DEF Buffer!IndexAt
  <2>3. PICK u : u = t + Period
    OBVIOUS
  <2>4. u \in Nat /\ ~(u < c.start) /\ u - c.start = (k + 1) * Period
    BY <1>1, <1>3, <2>3, BudgetType
  <2>5. Buffer!IndexAt(c, u) = k + 1
    BY <1>1, <2>1, <2>4, BudgetType DEF Buffer!IndexAt
  <2> QED
    BY <2>2, <2>3, <2>5
<1>5. k < ExecuteHorizon <=> k * Period < ExecuteHorizon * Period
  <2>1. PICK d \in Nat \ {0}, h \in Nat : d = Period /\ h = ExecuteHorizon
    BY BudgetType
  <2>2. k < h => k * d < h * d
    BY <2>1
  <2>3. h <= k => h * d <= k * d
    BY <2>1
  <2>4. k * d \in Nat /\ h * d \in Nat
    BY <2>1
  <2> QED
    BY <2>1, <2>2, <2>3, <2>4
<1>6. t = c.start + k * Period /\ k * Period \in Nat /\ ExecuteHorizon * Period \in Nat
  BY <1>1, <1>2, BudgetType
<1>7. k * Period < ExecuteHorizon * Period <=> t < c.start + Budget
  BY <1>1, <1>6 DEF Budget
<1> QED
  BY <1>4, <1>5, <1>7

LEMMA PoppableAtTick ==
    ASSUME ClockInv, ChunkInv, ConsumedInv, phase # "advance", NEW c \in chunk
    PROVE  Buffer!Poppable(c) <=> now < c.start + Budget
<1>1. AtTick(c.start) /\ c.start <= now /\ c.len = ExecuteHorizon
  BY DEF ChunkInv
<1>2. PICK k \in Nat : k = Buffer!IndexAt(c, now)
  BY <1>1, IndexAtTick DEF ClockInv
<1>3. k < ExecuteHorizon <=> now < c.start + Budget
  BY <1>1, <1>2, IndexAtTick DEF ClockInv
<1>4. <<c.id, k>> \notin consumed
  <2>1. <<c.id, k>> \in consumed => k < k
    BY <1>2 DEF ConsumedInv
  <2> QED
    BY <1>2, <2>1
<1>5. Buffer!Poppable(c) <=> k \in 0 .. ExecuteHorizon - 1
  BY <1>1, <1>2, <1>4 DEF Buffer!Poppable
<1> QED
  BY <1>2, <1>3, <1>5, BudgetType

\* What is left of the buffer's chunk, the coverage, is what the schedulers read.
LEMMA CoverageAtTick ==
    ASSUME ClockInv, ChunkInv
    PROVE  /\ Buffer!Coverage(now) \in Nat
           /\ \A c \in chunk : now < c.start + Budget =>
                  Buffer!Coverage(now) = c.start + Budget - now
           /\ Buffer!Coverage(now) # 0 => \E c \in chunk : now < c.start + Budget
<1>0. now \in Nat
  BY TickType DEF ClockInv
<1>1. ASSUME NEW c \in chunk
      PROVE  /\ Buffer!EndAt(c) = c.start + Budget /\ c.start \in Nat /\ c.start <= now
             /\ c = CHOOSE d \in chunk : TRUE
  <2>1. c.len = ExecuteHorizon /\ AtTick(c.start) /\ c.start <= now /\ \A d \in chunk : d = c
    BY DEF ChunkInv
  <2>2. Buffer!EndAt(c) = c.start + Budget
    BY <2>1 DEF Buffer!EndAt, Budget
  <2> QED
    BY <2>1, <2>2, TickType
<1>2. ASSUME NEW c \in chunk, now < c.start + Budget
      PROVE  Buffer!Coverage(now) = c.start + Budget - now
  <2>1. \E d \in chunk : now < Buffer!EndAt(d)
    BY <1>1, <1>2
  <2>2. Buffer!Coverage(now) = Buffer!EndAt(c) - (IF now < c.start THEN c.start ELSE now)
    <3>1. PICK b : b = (CHOOSE d \in chunk : TRUE) /\ b = c
      BY <1>1
    <3>2. Buffer!Coverage(now) = Buffer!EndAt(b) - (IF now < b.start THEN b.start ELSE now)
      BY <2>1, <3>1, Zenon DEF Buffer!Coverage
    <3> QED
      BY <3>1, <3>2
  <2>3. (IF now < c.start THEN c.start ELSE now) = now
    BY <1>0, <1>1
  <2>4. Buffer!Coverage(now) = Buffer!EndAt(c) - now
    BY <2>2, <2>3
  <2>5. Buffer!EndAt(c) = c.start + Budget /\ c.start \in Nat
    BY <1>1
  <2> QED
    BY <1>0, <2>4, <2>5, BudgetType
<1>3. CASE \E c \in chunk : now < c.start + Budget
  <2>1. PICK c \in chunk : now < c.start + Budget
    BY <1>3
  <2>2. Buffer!Coverage(now) = c.start + Budget - now /\ c.start \in Nat
    BY <1>1, <1>2, <2>1
  <2>3. Buffer!Coverage(now) \in Nat
    BY <1>0, <2>1, <2>2, BudgetType
  <2> QED
    BY <1>2, <1>3, <2>3
<1>4. CASE ~ \E c \in chunk : now < c.start + Budget
  <2>1. ~ \E c \in chunk : now < Buffer!EndAt(c)
    BY <1>1, <1>4
  <2>2. Buffer!Coverage(now) = 0
    BY <2>1 DEF Buffer!Coverage
  <2> QED
    BY <1>4, <2>2
<1> QED
  BY <1>3, <1>4

LEMMA ConfigType ==
    ASSUME config \in Configs
    PROVE  /\ config.scheduler \in Schedulers
           /\ config.scheduler \in {"sync", "fixed_async", "adaptive_async"}
           /\ config.prefetchThreshold \in Nat
           /\ Interval \in Nat \ {0}
  BY VirtualAssumption DEF Configs, Interval
----------------------------------------------------------------------------
(***************************************************************************)
(* What a step does, in terms of ticks.                                    *)
(***************************************************************************)
LEMMA CollectCases ==
    ASSUME ClockInv, ChunkInv, Collect
    PROVE  \E p \in pending :
               /\ pending = {p} /\ pending' = {} /\ now >= p.readyAt
               /\ p.requestedAt = lastRequestedAt /\ AtTick(lastRequestedAt)
               /\ lastRequestedAt <= now
               /\ p.chunk.id \notin seenRequests
               /\ seenRequests' = seenRequests \cup {p.chunk.id}
               /\ Buffer!Expired(p.chunk) <=> lastRequestedAt + Budget <= now
               /\ now < lastRequestedAt + Budget =>
                      \E c : /\ chunk' = {c} /\ c.id = p.chunk.id
                             /\ c.start = lastRequestedAt /\ c.len = ExecuteHorizon
               /\ ~(now < lastRequestedAt + Budget) => chunk' = chunk
               /\ phase' = AfterPolling
               /\ IF config.scheduler = "adaptive_async"
                  THEN Observe(now - lastRequestedAt)
                  ELSE UNCHANGED <<controller, measured>>
               /\ acceptedAt' = IF lastRequestedAt + Budget <= now THEN acceptedAt
                                ELSE Append(acceptedAt, now)
<1>1. PICK p \in pending : now >= p.readyAt
  BY DEF Collect, Ready
<1>2. \A q \in pending : q = p
  BY DEF ChunkInv
<1>3. /\ p.chunk \in Buffer!Chunk /\ p.chunk.len = ChunkSize
      /\ p.requestedAt = lastRequestedAt /\ p.chunk.start = lastRequestedAt
      /\ AtTick(lastRequestedAt) /\ lastRequestedAt \in Nat
  BY TickType DEF ChunkInv
<1>4. lastRequestedAt <= now /\ AtTick(now) /\ now \in Nat
  <2>1. lastRequestedAt # -1
    BY <1>3
  <2> QED
    BY <2>1, TickType DEF ChunkInv, ClockInv
<1>5. PICK c : c = Buffer!Truncated(p.chunk)
  OBVIOUS
<1>6. c.id = p.chunk.id /\ c.start = lastRequestedAt /\ c.len = ExecuteHorizon
  <2>1. (IF p.chunk.len < ExecuteHorizon THEN p.chunk.len ELSE ExecuteHorizon) = ExecuteHorizon
    BY <1>3, BudgetType
  <2>2. c = [p.chunk EXCEPT !.len = ExecuteHorizon]
    BY <1>5, <2>1 DEF Buffer!Truncated
  <2> QED
    BY <1>3, <2>2 DEF Buffer!Chunk
<1>7. Buffer!IndexAt(c, now) < ExecuteHorizon <=> now < lastRequestedAt + Budget
  BY <1>3, <1>4, <1>6, IndexAtTick
<1>8. Buffer!Expired(p.chunk) <=> lastRequestedAt + Budget <= now
  <2>1. Buffer!Expired(p.chunk) <=> Buffer!IndexAt(c, now) >= ExecuteHorizon
    BY <1>5, <1>6 DEF Buffer!Expired
  <2>2. Buffer!IndexAt(c, now) \in Nat
    BY <1>3, <1>4, <1>6, IndexAtTick
  <2> QED
    BY <1>3, <1>4, <1>7, <2>1, <2>2, BudgetType
<1>9. Buffer!Accept(p.chunk) /\ ~Buffer!Refused(p.chunk)
  BY <1>2 DEF Collect, ChunkInv
<1>10. /\ p.chunk.id \notin seenRequests /\ seenRequests' = seenRequests \cup {p.chunk.id}
       /\ chunk' = IF Buffer!Expired(p.chunk) THEN chunk ELSE {c}
  <2>1. seenRequests' = Buffer!SeenWith(p.chunk) /\ chunk' = Buffer!StoredAfter(p.chunk)
    BY <1>9 DEF Buffer!Accept
  <2>2. Buffer!Accepted(p.chunk) <=> ~Buffer!Expired(p.chunk)
    BY <1>9 DEF Buffer!Accepted
  <2>3. p.chunk.id \notin seenRequests
    BY <1>9 DEF Buffer!Refused
  <2> QED
    BY <1>5, <1>9, <2>1, <2>2, <2>3 DEF Buffer!SeenWith, Buffer!StoredAfter
<1>11. now < lastRequestedAt + Budget <=> ~(lastRequestedAt + Budget <= now)
  BY <1>3, <1>4, BudgetType
<1>12. /\ now < lastRequestedAt + Budget => chunk' = {c}
       /\ ~(now < lastRequestedAt + Budget) => chunk' = chunk
  BY <1>8, <1>10, <1>11
<1>13. /\ IF config.scheduler = "adaptive_async"
          THEN Observe(now - lastRequestedAt)
          ELSE UNCHANGED <<controller, measured>>
       /\ acceptedAt' = IF Buffer!Expired(p.chunk) THEN acceptedAt
                        ELSE Append(acceptedAt, now)
  <2>1. Buffer!Accepted(p.chunk) <=> ~Buffer!Expired(p.chunk)
    BY <1>9 DEF Buffer!Accepted
  <2> QED
    BY <1>2, <1>3, <2>1 DEF Collect
<1>14. pending = {p} /\ pending' = {} /\ phase' = AfterPolling
  BY <1>2 DEF Collect
<1> QED
  BY <1>1, <1>3, <1>4, <1>6, <1>8, <1>10, <1>12, <1>13, <1>14

\* What Collect leaves alone.
LEMMA CollectKeeps ==
    ASSUME Collect
    PROVE  /\ now' = now /\ sent' = sent /\ consumed' = consumed
           /\ episodeId' = episodeId /\ episodeGeneration' = episodeGeneration
           /\ config' = config /\ lastRequestedAt' = lastRequestedAt
           /\ latencies' = latencies /\ fallbackAt' = fallbackAt
           /\ phase \in {"poll", "repoll"}
           /\ phase = "poll" => phase' = "decide"
           /\ phase = "repoll" => phase' = "execute"
  BY DEF Collect, Buffer!Accept, AfterPolling

LEMMA RequestCases ==
    ASSUME ClockInv, ChunkInv, NEW latency \in Latencies, Request(latency)
    PROVE  /\ \E c \in Buffer!Chunk :
                  /\ sent' = sent \cup {c} /\ c \notin sent
                  /\ \A d \in sent : d.id <= c.id /\ d.id # c.id
                  /\ c.start = now /\ c.len = ChunkSize /\ c.fault = "none"
                  /\ c.episode = episodeId /\ c.generation = episodeGeneration
                  /\ pending' = {[requestedAt |-> now, readyAt |-> now + latency, chunk |-> c]}
           /\ now + latency \in Nat
           /\ phase = "decide" /\ phase' = "repoll" /\ WantsRequest
           /\ lastRequestedAt' = now /\ latencies' = Append(latencies, latency)
           /\ UNCHANGED <<episodeId, episodeGeneration, chunk, seenRequests, consumed, now,
                          config, controller, measured, acceptedAt, fallbackAt>>
<1>1. /\ Buffer!Predict(now, ChunkSize, "none")
      /\ pending' = {[requestedAt |-> now, readyAt |-> now + latency, chunk |-> c] :
                        c \in sent' \ sent}
  BY DEF Request, Predicted
<1>2. now \in Nat /\ latency \in Nat
  BY TickType, VirtualAssumption DEF ClockInv
<1>3. PICK id \in Nat : /\ \A d \in sent : d.id < id
                        /\ id = IF sent = {} THEN 0 ELSE
                                1 + (CHOOSE c \in sent : \A d \in sent : d.id <= c.id).id
  <2>1. CASE sent = {}
    BY <2>1
  <2>2. CASE sent # {}
    <3>1. PICK m \in sent : /\ m = CHOOSE c \in sent : \A d \in sent : d.id <= c.id
                            /\ \A d \in sent : d.id <= m.id
      BY <2>2 DEF ChunkInv
    <3>2. \A d \in sent : d.id \in Nat
      BY DEF ChunkInv, Buffer!Chunk
    <3>3. m.id + 1 \in Nat /\ \A d \in sent : d.id < m.id + 1
      BY <3>1, <3>2
    <3>4. 1 + m.id = m.id + 1
      BY <3>1, <3>2
    <3> QED
      BY <2>2, <3>1, <3>3, <3>4
  <2> QED
    BY <2>1, <2>2
<1>4. PICK c : c = [id |-> id, episode |-> episodeId, generation |-> episodeGeneration,
                    start |-> now, len |-> ChunkSize, fault |-> "none"]
  OBVIOUS
<1>5. sent' = sent \cup {c}
  BY <1>1, <1>3, <1>4, Zenon DEF Buffer!Predict
<1>6. c \in Buffer!Chunk
  <2>1. ChunkSize \in Nat \ {0}
    BY BudgetType
  <2> QED
    BY <1>2, <1>4, <2>1 DEF Buffer!Chunk, Buffer!Faults, ChunkInv
<1>7. /\ c.id = id /\ c.start = now /\ c.len = ChunkSize /\ c.fault = "none"
      /\ c.episode = episodeId /\ c.generation = episodeGeneration
  BY <1>4
<1>8. c \notin sent /\ \A d \in sent : d.id <= c.id /\ d.id # c.id
  <2>1. \A d \in sent : d.id \in Nat /\ d.id < c.id
    BY <1>3, <1>7 DEF ChunkInv, Buffer!Chunk
  <2>2. c.id \in Nat
    BY <1>7
  <2> QED
    BY <2>1, <2>2
<1>9. pending' = {[requestedAt |-> now, readyAt |-> now + latency, chunk |-> c]}
  <2>1. sent' \ sent = {c}
    BY <1>5, <1>8
  <2> QED
    BY <1>1, <2>1
<1>10. \E d \in Buffer!Chunk :
           /\ sent' = sent \cup {d} /\ d \notin sent
           /\ \A e \in sent : e.id <= d.id /\ e.id # d.id
           /\ d.start = now /\ d.len = ChunkSize /\ d.fault = "none"
           /\ d.episode = episodeId /\ d.generation = episodeGeneration
           /\ pending' = {[requestedAt |-> now, readyAt |-> now + latency, chunk |-> d]}
  BY <1>5, <1>6, <1>7, <1>8, <1>9
<1>11. now + latency \in Nat
  BY <1>2
<1>12. /\ phase = "decide" /\ phase' = "repoll" /\ WantsRequest
       /\ lastRequestedAt' = now /\ latencies' = Append(latencies, latency)
       /\ UNCHANGED <<config, controller, measured, acceptedAt, fallbackAt>>
  BY DEF Request
<1>13. UNCHANGED <<episodeId, episodeGeneration, chunk, seenRequests, consumed, now>>
  BY <1>1 DEF Buffer!Predict
<1> QED
  BY <1>10, <1>11, <1>12, <1>13
LEMMA ExecuteCases ==
    ASSUME ClockInv, ChunkInv, ConsumedInv, Execute
    PROVE  /\ phase = "execute" /\ phase' = "advance"
           /\ UNCHANGED <<episodeId, episodeGeneration, seenRequests, now, sent, config,
                          pending, lastRequestedAt, controller, latencies, measured, acceptedAt>>
           /\ \/ /\ \E c \in chunk :
                        /\ now < c.start + Budget
                        /\ consumed' = consumed \cup {<<c.id, Buffer!IndexAt(c, now)>>}
                        /\ chunk' = chunk
                 /\ fallbackAt' = fallbackAt
              \/ /\ \A c \in chunk : ~(now < c.start + Budget)
                 /\ consumed' = consumed /\ chunk' \subseteq chunk
                 /\ fallbackAt' = fallbackAt \cup {now}
<1>1. /\ phase = "execute" /\ phase' = "advance"
      /\ UNCHANGED <<config, pending, lastRequestedAt, controller, latencies, measured,
                     acceptedAt>>
  BY DEF Execute
<1>2. \A c \in chunk : Buffer!Poppable(c) <=> now < c.start + Budget
  BY <1>1, PoppableAtTick
<1>3. CASE (\E c \in chunk : Buffer!Execute(c)) /\ UNCHANGED fallbackAt
  BY <1>1, <1>2, <1>3 DEF Buffer!Execute, Buffer!ConsumedWith
<1>4. CASE Buffer!Fallback /\ fallbackAt' = fallbackAt \cup {now}
  BY <1>1, <1>2, <1>4 DEF Buffer!Fallback
<1> QED
  BY <1>3, <1>4 DEF Execute

LEMMA AdvanceCases ==
    ASSUME ClockInv, Advance
    PROVE  /\ phase = "advance" /\ phase' \in {"poll", "finished"}
           /\ now' = now + Period /\ AtTick(now') /\ now' <= TickCount * Period
           /\ phase' # "finished" => now' < TickCount * Period
           /\ UNCHANGED <<episodeId, episodeGeneration, chunk, seenRequests, consumed, sent,
                          config, pending, lastRequestedAt, controller, latencies, measured,
                          acceptedAt, fallbackAt>>
<1>1. AtTick(now) /\ AtTick(TickCount * Period) /\ now < TickCount * Period
  BY VirtualAssumption DEF ClockInv, Advance, AtTick
<1>2. phase = "advance" /\ now' = now + Period
  BY DEF Advance
<1>3. now' <= TickCount * Period
  BY <1>1, <1>2, TickGap
<1>4. AtTick(now')
  BY <1>1, <1>2, OnePeriod, TickSum
<1>5. phase' = IF now' < TickCount * Period THEN "poll" ELSE "finished"
  BY DEF Advance
<1>6. UNCHANGED <<episodeId, episodeGeneration, chunk, seenRequests, consumed, sent,
                  config, pending, lastRequestedAt, controller, latencies, measured,
                  acceptedAt, fallbackAt>>
  BY DEF Advance, buffer, log
<1> QED
  BY <1>2, <1>3, <1>4, <1>5, <1>6

\* A step that only moves on in the tick.
Wait == NotReady \/ NoRequest

LEMMA WaitCases ==
    ASSUME Wait
    PROVE  /\ \/ NotReady /\ phase = "poll" /\ phase' = "decide"
              \/ NotReady /\ phase = "repoll" /\ phase' = "execute"
              \/ NoRequest /\ phase = "decide" /\ phase' = "execute"
           /\ UNCHANGED <<episodeId, episodeGeneration, chunk, seenRequests, consumed, sent,
                          now, config, pending, lastRequestedAt, controller, latencies,
                          measured, acceptedAt, fallbackAt>>
  BY DEF Wait, NotReady, NoRequest, AfterPolling, buffer, log

LEMMA StutterCases ==
    ASSUME UNCHANGED vars
    PROVE  UNCHANGED <<episodeId, episodeGeneration, chunk, seenRequests, consumed, sent,
                       now, config, phase, pending, lastRequestedAt, controller, latencies,
                       measured, acceptedAt, fallbackAt>>
  BY DEF vars, buffer, log

LEMMA NextCases ==
    ASSUME [Next]_vars
    PROVE  \/ Collect \/ Wait \/ \E latency \in Latencies : Request(latency)
           \/ Execute \/ Advance \/ UNCHANGED vars
  BY DEF Next, Wait
----------------------------------------------------------------------------
(***************************************************************************)
(* The clock, the prediction in flight and the chunk in the buffer.        *)
(***************************************************************************)
LEMMA ClockStep == ASSUME ClockInv, ChunkInv, ConsumedInv, [Next]_vars PROVE ClockInv'
<1>1. CASE Collect
  BY <1>1, CollectKeeps DEF ClockInv
<1>2. CASE Wait
  BY <1>2, WaitCases DEF ClockInv
<1>3. ASSUME NEW latency \in Latencies, Request(latency) PROVE ClockInv'
  BY <1>3, RequestCases DEF ClockInv
<1>4. CASE Execute
  BY <1>4, ExecuteCases DEF ClockInv
<1>5. CASE Advance
  BY <1>5, AdvanceCases DEF ClockInv
<1>6. CASE UNCHANGED vars
  BY <1>6, StutterCases DEF ClockInv
<1> QED
  BY <1>1, <1>2, <1>3, <1>4, <1>5, <1>6, NextCases

LEMMA ChunkStep == ASSUME ClockInv, ChunkInv, ConsumedInv, [Next]_vars PROVE ChunkInv'
<1>0. AtTick(now) /\ now \in Nat /\ Period \in Nat \ {0}
  BY TickType, BudgetType DEF ClockInv
<1>1. CASE Collect
  <2>1. PICK p \in pending :
               /\ pending = {p} /\ pending' = {} /\ AtTick(lastRequestedAt)
               /\ lastRequestedAt <= now
               /\ seenRequests' = seenRequests \cup {p.chunk.id}
               /\ now < lastRequestedAt + Budget =>
                      \E c : /\ chunk' = {c} /\ c.id = p.chunk.id
                             /\ c.start = lastRequestedAt /\ c.len = ExecuteHorizon
               /\ ~(now < lastRequestedAt + Budget) => chunk' = chunk
    BY <1>1, CollectCases
  <2>2. sent' = sent /\ \A n \in seenRequests' : \E c \in sent : n = c.id
    BY <1>1, <2>1, CollectKeeps DEF ChunkInv
  <2>3. /\ \A c, d \in chunk' : c = d
        /\ \A c \in chunk' : /\ AtTick(c.start) /\ c.start <= now
                             /\ c.len = ExecuteHorizon /\ c.id \in seenRequests'
    <3>1. CASE now < lastRequestedAt + Budget
      BY <2>1, <3>1
    <3>2. CASE ~(now < lastRequestedAt + Budget)
      BY <2>1, <3>2 DEF ChunkInv
    <3> QED
      BY <3>1, <3>2
  <2> QED
    BY <1>1, <2>1, <2>2, <2>3, CollectKeeps DEF ChunkInv
<1>2. CASE Wait
  <2>1. phase' # "repoll"
    BY <1>2, WaitCases
  <2> QED
    BY <1>2, <2>1, WaitCases DEF ChunkInv, Buffer!Refused
<1>3. ASSUME NEW latency \in Latencies, Request(latency) PROVE ChunkInv'
  <2>1. PICK c \in Buffer!Chunk :
                  /\ sent' = sent \cup {c} /\ c \notin sent
                  /\ \A d \in sent : d.id <= c.id /\ d.id # c.id
                  /\ c.start = now /\ c.len = ChunkSize /\ c.fault = "none"
                  /\ c.episode = episodeId /\ c.generation = episodeGeneration
                  /\ pending' = {[requestedAt |-> now, readyAt |-> now + latency, chunk |-> c]}
    BY <1>3, RequestCases
  <2>2. /\ now + latency \in Nat /\ lastRequestedAt' = now
        /\ UNCHANGED <<episodeId, episodeGeneration, chunk, seenRequests, now, config>>
    BY <1>3, RequestCases
  <2>3. /\ sent' \in SUBSET Buffer!Chunk
        /\ \E d \in sent' : \A e \in sent' : e.id <= d.id
    <3>1. sent' \in SUBSET Buffer!Chunk /\ c.id <= c.id /\ c \in sent'
      BY <2>1 DEF ChunkInv, Buffer!Chunk
    <3>2. \A e \in sent' : e.id <= c.id
      BY <2>1, <3>1
    <3> QED
      BY <3>1, <3>2
  <2>4. /\ \A p, q \in pending' : p = q
        /\ \A p \in pending' :
           /\ p.chunk \in sent' /\ p.chunk.len = ChunkSize
           /\ p.requestedAt = now /\ p.chunk.start = now
           /\ AtTick(now) /\ p.readyAt \in Nat
        /\ pending' # {}
    BY <1>0, <2>1, <2>2
  <2>5. AtTick(now) /\ now <= now
    BY <1>0
  <2>6. /\ \A p \in pending' : ~Buffer!Refused(p.chunk)'
        /\ \A n \in seenRequests' : \E d \in sent' : n = d.id
    <3>1. c.id \notin seenRequests
      BY <2>1 DEF ChunkInv
    <3>2. ~Buffer!Refused(c)'
      BY <2>1, <2>2, <3>1 DEF Buffer!Refused
    <3> QED
      BY <2>1, <2>2, <3>2 DEF ChunkInv, Buffer!Refused
  <2> QED
    BY <2>2, <2>3, <2>4, <2>5, <2>6 DEF ChunkInv
<1>4. CASE Execute
  <2>1. /\ phase' = "advance" /\ chunk' \subseteq chunk
        /\ UNCHANGED <<episodeId, episodeGeneration, seenRequests, now, sent, config,
                       pending, lastRequestedAt>>
    BY <1>4, ExecuteCases
  <2> QED
    BY <2>1 DEF ChunkInv, Buffer!Refused
<1>5. CASE Advance
  <2>1. /\ phase' # "repoll" /\ now' = now + Period
        /\ UNCHANGED <<episodeId, episodeGeneration, chunk, seenRequests, sent,
                       config, pending, lastRequestedAt>>
    BY <1>5, AdvanceCases
  <2>2. \A t : AtTick(t) /\ t <= now => t <= now'
    BY <1>0, <2>1, TickType
  <2> QED
    BY <2>1, <2>2 DEF ChunkInv, Buffer!Refused
<1>6. CASE UNCHANGED vars
  BY <1>6, StutterCases DEF ChunkInv, Buffer!Refused
<1> QED
  BY <1>1, <1>2, <1>3, <1>4, <1>5, <1>6, NextCases
LEMMA ConsumedStep == ASSUME ClockInv, ChunkInv, ConsumedInv, [Next]_vars PROVE ConsumedInv'
<1>0. ASSUME phase # "advance", UNCHANGED <<seenRequests, consumed, now>>, chunk' \subseteq chunk
      PROVE  ConsumedInv'
  <2>1. ASSUME NEW c \in chunk', NEW k, <<c.id, k>> \in consumed'
        PROVE  k < Buffer!IndexAt(c, now')
    <3>1. c \in chunk /\ <<c.id, k>> \in consumed /\ now' = now
      BY <1>0, <2>1
    <3>2. k < Buffer!IndexAt(c, now)
      BY <1>0, <3>1 DEF ConsumedInv
    <3> QED
      BY <3>1, <3>2
  <2>2. \A u \in consumed' : u[1] \in seenRequests' /\ u[2] \in Nat
    BY <1>0 DEF ConsumedInv
  <2> QED
    BY <2>1, <2>2 DEF ConsumedInv
<1>1. CASE Collect
  <2>1. PICK p \in pending :
               /\ p.chunk.id \notin seenRequests
               /\ seenRequests' = seenRequests \cup {p.chunk.id}
               /\ now < lastRequestedAt + Budget =>
                      \E c : chunk' = {c} /\ c.id = p.chunk.id
               /\ ~(now < lastRequestedAt + Budget) => chunk' = chunk
    BY <1>1, CollectCases
  <2>2. consumed' = consumed /\ now' = now /\ phase # "advance"
    BY <1>1, CollectKeeps
  <2>3. \A u \in consumed' : u[1] \in seenRequests' /\ u[2] \in Nat
    BY <2>1, <2>2 DEF ConsumedInv
  <2>4. ASSUME NEW c \in chunk', NEW k, <<c.id, k>> \in consumed'
        PROVE  k < Buffer!IndexAt(c, now')
    <3>1. <<c.id, k>> \in consumed /\ <<c.id, k>>[1] = c.id
      BY <2>2, <2>4
    <3>2. c.id \in seenRequests
      BY <3>1 DEF ConsumedInv
    <3>3. c \in chunk
      BY <2>1, <3>2
    <3>4. k < Buffer!IndexAt(c, now)
      BY <2>2, <3>1, <3>3 DEF ConsumedInv
    <3> QED
      BY <2>2, <3>4
  <2> QED
    BY <2>3, <2>4 DEF ConsumedInv
<1>2. CASE Wait
  <2>1. phase # "advance" /\ UNCHANGED <<seenRequests, consumed, now, chunk>>
    BY <1>2, WaitCases
  <2> QED
    BY <1>0, <2>1
<1>3. ASSUME NEW latency \in Latencies, Request(latency) PROVE ConsumedInv'
  <2>1. phase # "advance" /\ UNCHANGED <<seenRequests, consumed, now, chunk>>
    BY <1>3, RequestCases
  <2> QED
    BY <1>0, <2>1
<1>4. CASE Execute
  <2>0. phase = "execute" /\ phase' = "advance" /\ UNCHANGED <<seenRequests, now>>
    BY <1>4, ExecuteCases
  <2>1. CASE consumed' = consumed /\ chunk' \subseteq chunk
    BY <1>0, <2>0, <2>1
  <2>2. ASSUME NEW b \in chunk, chunk' = chunk,
               consumed' = consumed \cup {<<b.id, Buffer!IndexAt(b, now)>>}
        PROVE  ConsumedInv'
    <3>1. /\ b.id \in seenRequests /\ Buffer!IndexAt(b, now) \in Nat
          /\ \A c \in chunk : c = b
      <4>1. b.id \in seenRequests /\ AtTick(b.start) /\ b.start <= now /\ \A c \in chunk : c = b
        BY DEF ChunkInv
      <4> QED
        BY <4>1, IndexAtTick DEF ClockInv
    <3>2. \A u \in consumed' : u[1] \in seenRequests' /\ u[2] \in Nat
      BY <2>0, <2>2, <3>1 DEF ConsumedInv
    <3>3. ASSUME NEW c \in chunk', NEW k, <<c.id, k>> \in consumed'
          PROVE  k < Buffer!IndexAt(c, now') \/ k = Buffer!IndexAt(c, now')
      <4>1. c = b /\ c \in chunk /\ now' = now
        BY <2>0, <2>2, <3>1
      <4>2. CASE <<c.id, k>> \in consumed
        BY <2>0, <4>1, <4>2 DEF ConsumedInv
      <4>3. CASE <<c.id, k>> = <<b.id, Buffer!IndexAt(b, now)>>
        BY <4>1, <4>3
      <4> QED
        BY <2>2, <3>3, <4>2, <4>3
    <3> QED
      BY <2>0, <3>2, <3>3 DEF ConsumedInv
  <2> QED
    BY <1>4, <2>1, <2>2, ExecuteCases
<1>5. CASE Advance
  <2>1. now' = now + Period /\ UNCHANGED <<seenRequests, consumed, chunk>>
    BY <1>5, AdvanceCases
  <2>2. ASSUME NEW c \in chunk', NEW k, <<c.id, k>> \in consumed'
        PROVE  k < Buffer!IndexAt(c, now')
    <3>1. c \in chunk /\ AtTick(c.start) /\ c.start <= now
      BY <2>1 DEF ChunkInv
    <3>2. PICK n \in Nat : n = Buffer!IndexAt(c, now) /\ Buffer!IndexAt(c, now + Period) = n + 1
      BY <3>1, IndexAtTick DEF ClockInv
    <3>3. k < n \/ k = n
      BY <2>1, <2>2, <3>1, <3>2 DEF ConsumedInv
    <3>4. k \in Nat
      <4>1. <<c.id, k>>[2] \in Nat
        BY <2>1, <2>2 DEF ConsumedInv
      <4> QED
        BY <4>1
    <3> QED
      BY <2>1, <3>2, <3>3, <3>4
  <2>3. \A u \in consumed' : u[1] \in seenRequests' /\ u[2] \in Nat
    BY <2>1 DEF ConsumedInv
  <2> QED
    BY <2>2, <2>3 DEF ConsumedInv
<1>6. CASE UNCHANGED vars
  BY <1>6, StutterCases DEF ConsumedInv
<1> QED
  BY <1>1, <1>2, <1>3, <1>4, <1>5, <1>6, NextCases

\* A scheduler that asks for nothing has a prediction in flight, an action to
\* execute, or a minimum interval to wait for.
LEMMA NotWanted ==
    ASSUME ClockInv, ChunkInv, threshold \in Nat, ~WantsRequest
    PROVE  \/ \E c \in chunk : now < c.start + Budget
           \/ pending # {}
           \/ Adaptive /\ now - lastRequestedAt < Interval
<1> SUFFICES ASSUME pending = {} PROVE \/ \E c \in chunk : now < c.start + Budget
                                       \/ Adaptive /\ now - lastRequestedAt < Interval
  OBVIOUS
<1>0. config \in Configs
  BY DEF ChunkInv
<1>1. PICK coverage \in Nat :
          /\ coverage = Buffer!Coverage(now)
          /\ coverage # 0 => \E c \in chunk : now < c.start + Budget
  BY CoverageAtTick
<1>2. CASE config.scheduler = "sync"
  BY <1>1, <1>2 DEF WantsRequest
<1>3. CASE config.scheduler = "fixed_async"
  <2>1. ~(coverage <= config.prefetchThreshold)
    BY <1>1, <1>3 DEF WantsRequest, Below
  <2> QED
    BY <1>0, <1>1, <2>1, ConfigType
<1>4. CASE config.scheduler = "adaptive_async"
  <2>1. \/ ~(lastRequestedAt = -1) /\ ~(now - lastRequestedAt >= Interval)
        \/ ~(Scaled(coverage) <= threshold)
    BY <1>1, <1>4 DEF WantsRequest, Below, Interval
  <2>2. CASE ~(lastRequestedAt = -1) /\ ~(now - lastRequestedAt >= Interval)
    <3>1. lastRequestedAt \in Nat /\ now \in Nat
      BY <2>2, TickType DEF ChunkInv, ClockInv
    <3> QED
      BY <1>0, <1>4, <2>2, <3>1, ConfigType DEF Adaptive
  <2>3. CASE ~(Scaled(coverage) <= threshold)
    <3>1. coverage # 0
      <4>1. Scaled(0) = 0
        BY VirtualAssumption DEF Scaled
      <4> QED
        BY <2>3, <4>1
    <3> QED
      BY <1>1, <3>1
  <2> QED
    BY <2>1, <2>2, <2>3
<1> QED
  BY <1>0, <1>2, <1>3, <1>4, ConfigType

LEMMA IdleStep ==
    ASSUME ClockInv, ChunkInv, ConsumedInv, IdleInv, threshold \in Nat, [Next]_vars
    PROVE  IdleInv'
<1>1. CASE Collect
  <2>1. PICK p \in pending : now < lastRequestedAt + Budget =>
                  \E c : chunk' = {c} /\ c.start = lastRequestedAt
    BY <1>1, CollectCases
  <2>2. CASE phase = "repoll"
    <3>1. now < lastRequestedAt + Budget
      BY <2>2, BudgetType, TickType DEF ChunkInv, ClockInv
    <3> QED
      BY <1>1, <2>1, <3>1, CollectKeeps DEF IdleInv
  <2>3. CASE phase = "poll"
    BY <1>1, <2>3, CollectKeeps DEF IdleInv
  <2> QED
    BY <1>1, <2>2, <2>3, CollectKeeps
<1>2. CASE Wait
  <2>1. UNCHANGED <<chunk, now, config, pending, lastRequestedAt>>
    BY <1>2, WaitCases
  <2>2. CASE NoRequest
    <3>1. ~WantsRequest
      BY <2>2 DEF NoRequest
    <3> QED
      BY <2>1, <3>1, NotWanted DEF IdleInv, Adaptive, Interval
  <2>3. CASE phase = "repoll"
    BY <2>1, <2>3 DEF IdleInv, ChunkInv
  <2>4. CASE phase' = "decide"
    BY <2>4 DEF IdleInv
  <2> QED
    BY <1>2, <2>2, <2>3, <2>4, WaitCases
<1>3. ASSUME NEW latency \in Latencies, Request(latency) PROVE IdleInv'
  BY <1>3, RequestCases DEF IdleInv
<1>4. CASE Execute
  BY <1>4, ExecuteCases DEF IdleInv
<1>5. CASE Advance
  BY <1>5, AdvanceCases DEF IdleInv
<1>6. CASE UNCHANGED vars
  BY <1>6, StutterCases DEF IdleInv
<1> QED
  BY <1>1, <1>2, <1>3, <1>4, <1>5, <1>6, NextCases

LEMMA IdleConsequence ==
    ASSUME ClockInv, ChunkInv, ConsumedInv, IdleInv PROVE IdleOnlyWhenAsked
<1>1. ASSUME phase = "execute", NEW c \in chunk, now < c.start + Budget
      PROVE  Buffer!Poppable(c)
  BY <1>1, PoppableAtTick
<1> QED
  BY <1>1 DEF IdleInv, IdleOnlyWhenAsked
----------------------------------------------------------------------------
(***************************************************************************)
(* The controller.                                                         *)
(***************************************************************************)
Seen(latency) == Window(Append(samples, latency))

LEMMA Appended ==
    ASSUME NEW s \in Seq(Nat), NEW e \in Nat
    PROVE  \E n \in Nat, t \in Seq(Nat) :
               /\ n = Len(s)
               /\ t = Append(s, e) /\ Len(t) = n + 1
               /\ t[n + 1] = e
               /\ \A i \in 1 .. n : i \in DOMAIN s /\ t[i] = s[i]
<1>1. Len(s) \in Nat /\ DOMAIN s = 1 .. Len(s)
  BY LenProperties
<1>2. /\ Append(s, e) \in Seq(Nat) /\ Len(Append(s, e)) = Len(s) + 1
      /\ Append(s, e)[Len(s) + 1] = e
      /\ \A i \in 1 .. Len(s) : Append(s, e)[i] = s[i]
  BY AppendProperties
<1> QED
  BY <1>1, <1>2

\* The window after one more latency: the last ones, and not more than it holds.
LastOf(latency, n, m, values, all) ==
    /\ values = Seen(latency) /\ n = Len(values) /\ n \in 1 .. WindowSize
    /\ all = Append(measured, latency) /\ m = Len(all) /\ n <= m
    /\ n < WindowSize => n = m
    /\ \A k \in 1 .. n : m - n + k \in 1 .. m /\ values[k] = all[m - n + k]
    /\ \A i \in 1 .. m : i = m \/ (i \in DOMAIN measured /\ all[i] = measured[i])
    /\ all[m] = latency

LEMMA SeenFacts ==
    ASSUME WindowInv, NEW latency \in Nat
    PROVE  \E n, m \in Nat, values, all \in Seq(Nat) : LastOf(latency, n, m, values, all)
<1>1. samples \in Seq(Nat) /\ measured \in Seq(Nat) /\ WindowSize \in Nat \ {0}
  BY VirtualAssumption DEF WindowInv
<1>2. PICK m \in Nat, all \in Seq(Nat) :
          /\ m = Len(measured)
          /\ all = Append(measured, latency) /\ Len(all) = m + 1
          /\ all[m + 1] = latency
          /\ \A i \in 1 .. m : i \in DOMAIN measured /\ all[i] = measured[i]
  BY <1>1, Appended
<1>3. Len(all) = m + 1
  BY <1>2
<1>4. PICK l \in Nat, longer \in Seq(Nat) :
          /\ l = Len(samples)
          /\ longer = Append(samples, latency) /\ Len(longer) = l + 1
          /\ longer[l + 1] = latency
          /\ \A k \in 1 .. l : k \in DOMAIN samples /\ longer[k] = samples[k]
  BY <1>1, Appended
<1>5. /\ l <= m /\ l <= WindowSize
      /\ l < WindowSize => l = m
      /\ \A k \in 1 .. l : samples[k] = measured[m - l + k]
  BY <1>2, <1>4 DEF WindowInv
<1>6. Len(longer) = l + 1 /\ longer # <<>>
  <2>1. l + 1 # 0
    BY <1>5
  <2> QED
    BY <1>4, <2>1, EmptySeq
<1>7. \A k \in 1 .. l + 1 : longer[k] = all[m - l + k] /\ m - l + k \in 1 .. m + 1
  <2>1. ASSUME NEW k \in 1 .. l PROVE longer[k] = all[m - l + k] /\ m - l + k \in 1 .. m + 1
    <3>1. m - l + k \in 1 .. m /\ m - l + k \in 1 .. m + 1
      BY <1>5
    <3> QED
      BY <1>2, <1>4, <1>5, <3>1
  <2>2. longer[l + 1] = all[m - l + (l + 1)] /\ m - l + (l + 1) \in 1 .. m + 1
    <3>1. m - l + (l + 1) = m + 1 /\ m + 1 \in 1 .. m + 1
      BY <1>5
    <3> QED
      BY <1>2, <1>4, <3>1
  <2>3. \A k \in 1 .. l + 1 : k \in 1 .. l \/ k = l + 1
    BY <1>5
  <2> QED
    BY <2>1, <2>2, <2>3
<1>8. PICK w \in Nat : w = m + 1 /\ w = Len(all)
  BY <1>3
<1>9. \A i \in 1 .. w : i = w \/ (i \in DOMAIN measured /\ all[i] = measured[i])
  <2>1. \A i \in 1 .. w : i = w \/ i \in 1 .. m
    BY <1>8
  <2> QED
    BY <1>2, <2>1
<1>10. all[w] = latency
  BY <1>2, <1>8
<1>11. CASE l + 1 <= WindowSize
  <2>1. PICK n \in Nat : n = l + 1 /\ n = Len(longer) /\ n \in 1 .. WindowSize
                         /\ n <= w /\ (n < WindowSize => n = w)
    BY <1>1, <1>5, <1>6, <1>8, <1>11
  <2>2. longer = Seen(latency)
    BY <1>4, <2>1 DEF Seen, Window
  <2>3. \A k \in 1 .. n : w - n + k \in 1 .. w /\ longer[k] = all[w - n + k]
    <3>1. \A k \in 1 .. n : w - n + k = m - l + k
      BY <1>8, <2>1
    <3> QED
      BY <1>7, <1>8, <2>1, <3>1
  <2>4. LastOf(latency, n, w, longer, all)
    BY <1>2, <1>8, <1>9, <1>10, <2>1, <2>2, <2>3 DEF LastOf
  <2> QED
    BY <2>4
<1>12. CASE ~(l + 1 <= WindowSize)
  <2>1. l = WindowSize /\ l <= w /\ l \in 1 .. WindowSize
    BY <1>1, <1>5, <1>8, <1>12
  <2>2. PICK values \in Seq(Nat) :
            /\ values = Tail(longer) /\ Len(values) = Len(longer) - 1
            /\ \A k \in 1 .. Len(values) : values[k] = longer[k + 1]
    BY <1>6, HeadTailProperties, Zenon
  <2>3. Len(values) = l /\ \A k \in 1 .. l : values[k] = longer[k + 1]
    <3>1. Len(values) = l
      BY <1>5, <1>6, <2>2
    <3> QED
      BY <2>2, <3>1, Zenon
  <2>4. values = Seen(latency)
    BY <1>4, <1>6, <1>12, <2>2 DEF Seen, Window
  <2>5. \A k \in 1 .. l : w - l + k \in 1 .. w /\ values[k] = all[w - l + k]
    <3>1. \A k \in 1 .. l : w - l + k = m - l + (k + 1) /\ k + 1 \in 1 .. l + 1
      BY <1>5, <1>8
    <3> QED
      BY <1>7, <1>8, <2>3, <3>1
  <2>6. l < WindowSize => l = w
    BY <1>1, <2>1
  <2>7. LastOf(latency, l, w, values, all)
    BY <1>2, <1>8, <1>9, <1>10, <2>1, <2>2, <2>3, <2>4, <2>5, <2>6, Zenon DEF LastOf
  <2> QED
    BY <2>7
<1> QED
  BY <1>11, <1>12

LEMMA CandidateFacts ==
    ASSUME NEW s \in Nat, NEW t \in Nat, NEW e \in Int, Scaled(s) <= e, e <= Scaled(t)
    PROVE  /\ Candidate(e) \in 0 .. Scaled(Budget)
           /\ CalledFor(s) \in Nat /\ CalledFor(t) \in Nat
           /\ CalledFor(s) <= Candidate(e) /\ Candidate(e) <= CalledFor(t)
<1>1. Margin \in Nat /\ Budget \in Nat
  BY VirtualAssumption, BudgetType
<1>2. PICK m, b, x, y \in Nat : m = Scaled(Margin) /\ b = Scaled(Budget) /\ x = Scaled(s)
                                /\ y = Scaled(t)
  BY <1>1, ScaledFacts
<1>3. ASSUME NEW v \in Nat
      PROVE  /\ CalledFor(v) = Least(Scaled(v) + m, b) /\ CalledFor(v) \in Nat
  <2>0. v + Margin \in Nat
    BY <1>1
  <2>1. Scaled(v) + m = Scaled(v + Margin) /\ Scaled(v + Margin) \in Nat
    BY <1>1, <1>2, <2>0, ScaledFacts
  <2>2. Scaled(v + Margin) <= b <=> v + Margin <= Budget
    BY <1>1, <1>2, <2>0, ScaledFacts
  <2> QED
    BY <1>1, <1>2, <2>0, <2>1, <2>2 DEF CalledFor, Least
<1>4. CalledFor(s) = Least(x + m, b) /\ CalledFor(t) = Least(y + m, b)
  BY <1>2, <1>3
<1>5. Candidate(e) = Least(e + m, b)
  BY <1>2 DEF Candidate
<1>6. Least(e + m, b) \in 0 .. b
  BY <1>2 DEF Least
<1>7. Least(x + m, b) <= Least(e + m, b) /\ Least(e + m, b) <= Least(y + m, b)
  BY <1>2 DEF Least
<1> QED
  BY <1>2, <1>3, <1>4, <1>5, <1>6, <1>7
\* What a completion makes of the window and the threshold.
LEMMA ObserveCases ==
    ASSUME WindowInv, NEW latency \in Nat, Observe(latency)
    PROVE  /\ samples' = Seen(latency) /\ measured' = Append(measured, latency)
           /\ \E e \in Int, s, t \in Recent' :
                  /\ e = Estimate(Seen(latency)) /\ s \in Nat /\ t \in Nat
                  /\ Scaled(s) <= e /\ e <= Scaled(t)
                  /\ threshold' = Candidate(e) \/
                     (/\ samples # <<>> /\ threshold' = threshold
                      /\ ~(Most(Candidate(e) - threshold, threshold - Candidate(e))
                             > Scaled(Hysteresis)))
                  /\ limited' = (Shortfall(e) > 0)
<1>0. PICK n, m \in Nat, values, all \in Seq(Nat) : LastOf(latency, n, m, values, all)
  BY SeenFacts
<1>1. /\ values = Seen(latency) /\ n = Len(values) /\ n \in 1 .. WindowSize
      /\ all = Append(measured, latency) /\ m = Len(all) /\ n <= m
      /\ n < WindowSize => n = m
      /\ \A k \in 1 .. n : m - n + k \in 1 .. m /\ values[k] = all[m - n + k]
      /\ \A i \in 1 .. m : i = m \/ (i \in DOMAIN measured /\ all[i] = measured[i])
      /\ all[m] = latency
  BY <1>0 DEF LastOf
<1>2. samples' = Seen(latency) /\ measured' = all
  BY <1>1 DEF Observe, Seen
<1>3. DOMAIN values = 1 .. n /\ values # <<>> /\ DOMAIN all = 1 .. m
  <2>1. n # 0
    BY <1>1
  <2> QED
    BY <1>1, <2>1, EmptySeq
<1>4. PICK i, j \in DOMAIN values :
           /\ Estimate(values) \in Int /\ values[i] \in Nat /\ values[j] \in Nat
           /\ Scaled(values[i]) <= Estimate(values) /\ Estimate(values) <= Scaled(values[j])
  BY <1>3, EstimateBetween
<1>5. \A k \in DOMAIN values : values[k] \in Recent'
  <2>1. ASSUME NEW k \in 1 .. n PROVE values[k] \in Recent'
    <3>1. PICK q \in 1 .. m : q = m - n + k /\ values[k] = all[q]
      BY <1>1
    <3>2. q > m - WindowSize
      BY <1>1, <3>1, VirtualAssumption
    <3>3. q \in DOMAIN measured' /\ Len(measured') = m /\ values[k] = measured'[q]
      BY <1>1, <1>2, <1>3, <3>1
    <3> QED
      BY <3>2, <3>3 DEF Recent
  <2> QED
    BY <1>3, <2>1
<1>6. PICK e \in Int : e = Estimate(values)
  BY <1>4
<1>7. /\ threshold' = Candidate(e) \/
                     (/\ samples # <<>> /\ threshold' = threshold
                      /\ ~(Most(Candidate(e) - threshold, threshold - Candidate(e))
                             > Scaled(Hysteresis)))
      /\ limited' = (Shortfall(e) > 0)
  BY <1>1, <1>6, Zenon DEF Observe, Seen
<1> QED
  BY <1>1, <1>2, <1>4, <1>5, <1>6, <1>7

LEMMA WindowObserve ==
    ASSUME WindowInv, NEW latency \in Nat, Observe(latency)
    PROVE  WindowInv' /\ ThresholdTracks'
<1>0. PICK n, m \in Nat, values, all \in Seq(Nat) : LastOf(latency, n, m, values, all)
  BY SeenFacts
<1>1. /\ values = Seen(latency) /\ n = Len(values) /\ n \in 1 .. WindowSize
      /\ all = Append(measured, latency) /\ m = Len(all) /\ n <= m
      /\ n < WindowSize => n = m
      /\ \A k \in 1 .. n : m - n + k \in 1 .. m /\ values[k] = all[m - n + k]
      /\ \A i \in 1 .. m : i = m \/ (i \in DOMAIN measured /\ all[i] = measured[i])
      /\ all[m] = latency
  BY <1>0 DEF LastOf
<1>2. samples' = values /\ measured' = all
  BY <1>1, ObserveCases
<1>3. PICK e \in Int, s, t \in Recent' :
                  /\ e = Estimate(Seen(latency)) /\ s \in Nat /\ t \in Nat
                  /\ Scaled(s) <= e /\ e <= Scaled(t)
                  /\ threshold' = Candidate(e) \/
                     (/\ samples # <<>> /\ threshold' = threshold
                      /\ ~(Most(Candidate(e) - threshold, threshold - Candidate(e))
                             > Scaled(Hysteresis)))
                  /\ limited' = (Shortfall(e) > 0)
  BY ObserveCases
<1>4. PICK c \in Nat, low \in Nat, high \in Nat :
          /\ c = Candidate(e) /\ c \in 0 .. Scaled(Budget)
          /\ low = CalledFor(s) /\ high = CalledFor(t) /\ low <= c /\ c <= high
  BY <1>3, CandidateFacts
<1>5. threshold \in 0 .. Scaled(Budget) /\ Scaled(Budget) \in Nat
  <2>1. Scaled(Budget) \in Nat
    BY BudgetType, ScaledFacts
  <2> QED
    BY <2>1 DEF WindowInv
<1>6. PICK h \in Nat : h = Scaled(Hysteresis)
  BY VirtualAssumption, ScaledFacts
<1>7. threshold' \in 0 .. Scaled(Budget) /\ threshold' <= high + h /\ threshold' >= low - h
  <2>1. CASE threshold' = c
    BY <1>4, <1>6, <2>1
  <2>2. CASE threshold' = threshold /\ ~(Most(c - threshold, threshold - c) > h)
    BY <1>4, <1>5, <1>6, <2>2 DEF Most
  <2> QED
    BY <1>3, <1>4, <1>6, <2>1, <2>2
<1>8. ThresholdTracks'
  <2>1. measured' # <<>>
    <3>1. m # 0
      BY <1>1
    <3> QED
      BY <1>1, <1>2, <3>1, EmptySeq
  <2>2. /\ threshold' <= CalledFor(t) + Scaled(Hysteresis)
        /\ threshold' >= CalledFor(s) - Scaled(Hysteresis)
    BY <1>4, <1>6, <1>7
  <2> QED
    BY <1>3, <2>1, <2>2 DEF ThresholdTracks, CalledFor
<1>9. limited' \in BOOLEAN
  BY <1>3
<1>10. /\ n <= WindowSize
       /\ \A k \in 1 .. n : values[k] = all[m - n + k]
  <2>1. n <= WindowSize
    BY <1>1, VirtualAssumption
  <2>2. ASSUME NEW k \in 1 .. n PROVE values[k] = all[m - n + k]
    BY <1>1
  <2> QED
    BY <2>1, <2>2
<1>11. WindowInv'
  BY <1>1, <1>2, <1>7, <1>9, <1>10 DEF WindowInv
<1> QED
  BY <1>8, <1>11

LEMMA ElapsedType ==
    ASSUME ClockInv, ChunkInv, AtTick(lastRequestedAt)
    PROVE  now - lastRequestedAt \in Nat /\ AtTick(now - lastRequestedAt)
<1>1. lastRequestedAt \in Nat /\ now \in Nat /\ AtTick(now)
  BY TickType DEF ClockInv
<1>2. lastRequestedAt <= now
  BY <1>1 DEF ChunkInv
<1>3. AtTick(now - lastRequestedAt)
  BY <1>1, <1>2, TickDifference
<1> QED
  BY <1>3, TickType

LEMMA WindowStep ==
    ASSUME ClockInv, ChunkInv, ConsumedInv, WindowInv, ThresholdTracks, [Next]_vars
    PROVE  WindowInv' /\ ThresholdTracks'
<1>0. ASSUME UNCHANGED <<samples, threshold, limited, measured, config>>
      PROVE  WindowInv' /\ ThresholdTracks'
  BY <1>0 DEF WindowInv, ThresholdTracks, Recent, CalledFor
<1>1. CASE Collect
  <2>1. /\ AtTick(lastRequestedAt)
        /\ IF config.scheduler = "adaptive_async"
           THEN Observe(now - lastRequestedAt)
           ELSE UNCHANGED <<controller, measured>>
    BY <1>1, CollectCases
  <2>2. CASE config.scheduler = "adaptive_async"
    <3>1. Observe(now - lastRequestedAt) /\ now - lastRequestedAt \in Nat
      BY <2>1, <2>2, ElapsedType
    <3> QED
      BY <3>1, WindowObserve
  <2>3. CASE config.scheduler # "adaptive_async"
    <3>1. UNCHANGED <<samples, threshold, limited, measured, config>>
      BY <1>1, <2>1, <2>3, CollectKeeps DEF controller
    <3> QED
      BY <1>0, <3>1
  <2> QED
    BY <2>2, <2>3
<1>2. CASE Wait
  BY <1>0, <1>2, WaitCases DEF controller
<1>3. ASSUME NEW latency \in Latencies, Request(latency) PROVE WindowInv' /\ ThresholdTracks'
  BY <1>0, <1>3, RequestCases DEF controller
<1>4. CASE Execute
  BY <1>0, <1>4, ExecuteCases DEF controller
<1>5. CASE Advance
  BY <1>0, <1>5, AdvanceCases DEF controller
<1>6. CASE UNCHANGED vars
  BY <1>0, <1>6, StutterCases DEF controller
<1> QED
  BY <1>1, <1>2, <1>3, <1>4, <1>5, <1>6, NextCases
----------------------------------------------------------------------------
(***************************************************************************)
(* The log.                                                                *)
(***************************************************************************)
LEMMA LogStep ==
    ASSUME ClockInv, ChunkInv, ConsumedInv, LogInv, [Next]_vars PROVE LogInv'
<1>0. now \in Nat /\ Period \in Nat \ {0}
  BY TickType, BudgetType DEF ClockInv
<1>a. ASSUME UNCHANGED <<latencies, acceptedAt, now>>, phase # "advance",
             fallbackAt' \subseteq fallbackAt \/
                 (fallbackAt' = fallbackAt \cup {now} /\ phase' = "advance")
      PROVE  LogInv'
  BY <1>0, <1>a DEF LogInv, Done
<1>1. CASE Collect
  <2>0. latencies' = latencies /\ fallbackAt' = fallbackAt /\ now' = now /\ phase # "advance"
    BY <1>1, CollectKeeps
  <2>1. acceptedAt' = acceptedAt \/ acceptedAt' = Append(acceptedAt, now)
    BY <1>1, CollectCases
  <2>2. CASE acceptedAt' = acceptedAt
    BY <1>a, <2>0, <2>2
  <2>3. CASE acceptedAt' = Append(acceptedAt, now)
    <3>0. acceptedAt \in Seq(Nat)
      BY DEF LogInv
    <3>1. PICK n \in Nat, all \in Seq(Nat) :
               /\ n = Len(acceptedAt)
               /\ all = Append(acceptedAt, now) /\ Len(all) = n + 1
               /\ all[n + 1] = now
               /\ \A i \in 1 .. n : i \in DOMAIN acceptedAt /\ all[i] = acceptedAt[i]
      BY <1>0, <3>0, Appended
    <3>2. DOMAIN all = 1 .. n + 1 /\ acceptedAt' = all
      BY <2>3, <3>1
    <3>3. \A i \in 1 .. n + 1 : i \in 1 .. n \/ i = n + 1
      BY <3>1
    <3>4. \A i \in 1 .. n + 1 : all[i] <= now
      BY <1>0, <3>1, <3>3 DEF LogInv
    <3>5. ASSUME NEW i \in 1 .. n + 1, NEW j \in 1 .. n + 1, i < j PROVE all[i] <= all[j]
      <4>1. i \in 1 .. n
        BY <3>1, <3>5
      <4>2. CASE j = n + 1
        BY <3>1, <3>4, <4>2
      <4>3. CASE j \in 1 .. n
        BY <3>1, <3>5, <4>1, <4>3 DEF LogInv
      <4> QED
        BY <3>3, <4>2, <4>3
    <3>6. \A t \in fallbackAt' : t \in Nat /\ Done(t)'
      BY <2>0 DEF LogInv, Done
    <3>7. latencies' \in Seq(Latencies)
      BY <2>0 DEF LogInv
    <3> QED
      BY <2>0, <3>2, <3>4, <3>5, <3>6, <3>7 DEF LogInv
  <2> QED
    BY <2>1, <2>2, <2>3
<1>2. CASE Wait
  <2>1. UNCHANGED <<latencies, acceptedAt, now, fallbackAt>> /\ phase # "advance"
    BY <1>2, WaitCases
  <2> QED
    BY <1>a, <2>1
<1>3. ASSUME NEW latency \in Latencies, Request(latency) PROVE LogInv'
  <2>1. /\ UNCHANGED <<acceptedAt, now, fallbackAt>> /\ phase # "advance"
        /\ latencies' = Append(latencies, latency)
    BY <1>3, RequestCases
  <2>2. latencies' \in Seq(Latencies)
    BY <2>1, AppendProperties DEF LogInv
  <2> QED
    BY <2>1, <2>2 DEF LogInv, Done
<1>4. CASE Execute
  <2>1. /\ UNCHANGED <<latencies, acceptedAt, now>> /\ phase # "advance"
        /\ fallbackAt' = fallbackAt \/ (fallbackAt' = fallbackAt \cup {now} /\ phase' = "advance")
    BY <1>4, ExecuteCases
  <2> QED
    BY <1>a, <2>1
<1>5. CASE Advance
  <2>1. UNCHANGED <<latencies, acceptedAt, fallbackAt>> /\ now' = now + Period
    BY <1>5, AdvanceCases
  <2>2. \A t \in fallbackAt : t < now'
    BY <1>0, <2>1 DEF LogInv, Done
  <2>3. \A i \in DOMAIN acceptedAt : acceptedAt[i] <= now'
    <3>1. \A i \in DOMAIN acceptedAt : acceptedAt[i] \in Nat /\ acceptedAt[i] <= now
      BY DEF LogInv
    <3> QED
      BY <1>0, <2>1, <3>1
  <2> QED
    BY <2>1, <2>2, <2>3 DEF LogInv, Done
<1>6. CASE UNCHANGED vars
  BY <1>6, StutterCases DEF LogInv, Done
<1> QED
  BY <1>1, <1>2, <1>3, <1>4, <1>5, <1>6, NextCases

\* The log of latencies only grows: what was unsteady stays so.
LEMMA SteadyRequest ==
    ASSUME LogInv, NEW latency \in Latencies, latencies' = Append(latencies, latency), Steady'
    PROVE  /\ Steady /\ latencies' # <<>> /\ latencies'[1] = latency
           /\ latencies # <<>> => latencies'[1] = latencies[1]
<1>0. latencies \in Seq(Nat) /\ latency \in Nat
  BY VirtualAssumption, SeqMonotonic DEF LogInv
<1>1. PICK n \in Nat, all \in Seq(Nat) :
               /\ n = Len(latencies)
               /\ all = Append(latencies, latency) /\ Len(all) = n + 1
               /\ all[n + 1] = latency
               /\ \A i \in 1 .. n : i \in DOMAIN latencies /\ all[i] = latencies[i]
  BY <1>0, Appended
<1>2. DOMAIN all = 1 .. n + 1 /\ latencies' = all /\ DOMAIN latencies = 1 .. n
  BY <1>0, <1>1, LenProperties
<1>3. n + 1 # 0 /\ 1 \in 1 .. n + 1 /\ n + 1 \in 1 .. n + 1 /\ 1 .. n \subseteq 1 .. n + 1
  BY <1>1
<1>4. \A i, j \in 1 .. n + 1 : all[i] = all[j]
  BY <1>2 DEF Steady
<1>5. Steady
  BY <1>1, <1>2, <1>3, <1>4 DEF Steady
<1>6. all # <<>> /\ all[1] = latency
  BY <1>1, <1>3, <1>4, EmptySeq
<1>7. latencies # <<>> => all[1] = latencies[1]
  <2>1. latencies # <<>> => 1 \in 1 .. n
    BY <1>0, <1>1, EmptySeq
  <2> QED
    BY <1>1, <2>1
<1> QED
  BY <1>2, <1>5, <1>6, <1>7

LEMMA ScaledAffine ==
    ASSUME NEW d \in Nat, NEW i \in Nat
    PROVE  /\ Candidate(Scaled(d)) = CalledFor(d)
           /\ Scaled(d) + Most(Scaled(d), Scaled(i)) - Scaled(Budget) > 0
                  <=> d + Most(d, i) > Budget
<1>1. Candidate(Scaled(d)) = CalledFor(d)
  <2>1. PICK c \in Nat, b \in Nat : c = CalledFor(d) /\ b = Candidate(Scaled(d))
                                    /\ c <= b /\ b <= c
    <3>1. PICK e \in Nat : e = Scaled(d)
      BY ScaledFacts
    <3> QED
      BY <3>1, CandidateFacts
  <2> QED
    BY <2>1
<1>2. PICK h \in Nat : h = Most(d, i) /\ Scaled(h) = Most(Scaled(d), Scaled(i))
  BY ScaledFacts DEF Most
<1>3. Scaled(d) + Scaled(h) = Scaled(d + h) /\ Scaled(d) \in Nat /\ Scaled(h) \in Nat
  BY <1>2, ScaledFacts
<1>4. d + h \in Nat /\ Budget \in Nat
  BY <1>2, BudgetType
<1>5. Scaled(d + h) \in Nat /\ Scaled(Budget) \in Nat
      /\ (Scaled(d + h) <= Scaled(Budget) <=> d + h <= Budget)
  BY <1>4, ScaledFacts
<1>6. Scaled(d) + Scaled(h) - Scaled(Budget) > 0 <=> d + h > Budget
  BY <1>3, <1>4, <1>5
<1> QED
  BY <1>1, <1>2, <1>6

(***************************************************************************)
(* A latency that is always the same is the estimate, the threshold is     *)
(* what it calls for, and the supply verdict is about it.                  *)
(***************************************************************************)
LEMMA ObserveEqual ==
    ASSUME config \in Configs, WindowInv, NEW d \in Nat, Observe(d),
           \A i \in DOMAIN measured : measured[i] = d,
           measured # <<>> => threshold = CalledFor(d)
    PROVE  /\ threshold' = CalledFor(d)
           /\ limited' <=> d + Most(d, Interval) > Budget
           /\ measured' # <<>> /\ \A i \in DOMAIN measured' : measured'[i] = d
           /\ measured'[1] = d
<1>1. measured \in Seq(Nat)
  BY DEF WindowInv
<1>2. PICK m \in Nat, all \in Seq(Nat) :
          /\ m = Len(measured)
          /\ all = Append(measured, d) /\ Len(all) = m + 1
          /\ all[m + 1] = d
          /\ \A i \in 1 .. m : i \in DOMAIN measured /\ all[i] = measured[i]
  BY <1>1, Appended
<1>3. measured' = all /\ DOMAIN all = 1 .. m + 1
  BY <1>2, ObserveCases
<1>4. \A i \in 1 .. m + 1 : all[i] = d
  <2>1. \A i \in 1 .. m + 1 : i \in 1 .. m \/ i = m + 1
    BY <1>2
  <2> QED
    BY <1>2, <2>1
<1>5. measured' # <<>> /\ 1 \in 1 .. m + 1
  <2>1. m + 1 # 0
    BY <1>2
  <2> QED
    BY <1>2, <1>3, <2>1, EmptySeq
<1>6. PICK e \in Int, s, t \in Recent' :
                  /\ e = Estimate(Seen(d)) /\ s \in Nat /\ t \in Nat
                  /\ Scaled(s) <= e /\ e <= Scaled(t)
                  /\ threshold' = Candidate(e) \/
                     (/\ samples # <<>> /\ threshold' = threshold
                      /\ ~(Most(Candidate(e) - threshold, threshold - Candidate(e))
                             > Scaled(Hysteresis)))
                  /\ limited' = (Shortfall(e) > 0)
  BY ObserveCases
<1>7. s = d /\ t = d
  BY <1>3, <1>4 DEF Recent
<1>8. e = Scaled(d)
  <2>1. Scaled(d) \in Nat /\ Scaled(d) <= e /\ e <= Scaled(d)
    BY <1>6, <1>7, ScaledFacts
  <2> QED
    BY <1>6, <2>1
<1>9. threshold' = CalledFor(d)
  <2>1. samples # <<>> => measured # <<>>
    <3>1. samples \in Seq(Nat) /\ measured \in Seq(Nat) /\ Len(samples) <= Len(measured)
      BY DEF WindowInv
    <3>2. samples # <<>> => Len(samples) \in Nat \ {0}
      BY <3>1, EmptySeq
    <3>3. measured = <<>> => Len(measured) = 0
      BY EmptySeq
    <3> QED
      BY <3>1, <3>2, <3>3
  <2> QED
    BY <1>6, <1>8, <2>1, ScaledAffine
<1>10. limited' <=> d + Most(d, Interval) > Budget
  <2>1. Interval \in Nat
    BY ConfigType
  <2>2. Shortfall(e) = Scaled(d) + Most(Scaled(d), Scaled(Interval)) - Scaled(Budget)
    BY <1>8 DEF Shortfall, Interval
  <2>3. Shortfall(e) > 0 <=> d + Most(d, Interval) > Budget
    BY <2>1, <2>2, ScaledAffine
  <2> QED
    BY <1>6, <2>3, Zenon
<1> QED
  BY <1>3, <1>4, <1>5, <1>9, <1>10
----------------------------------------------------------------------------
(***************************************************************************)
(* A steady latency.                                                       *)
(***************************************************************************)
\* Two numbers of whole ticks that round up the same latency are the same.
LEMMA RoundedUp ==
    ASSUME NEW l \in Nat, NEW s, NEW t, AtTick(s), AtTick(t),
           l <= s, s < l + Period, l <= t, t < l + Period
    PROVE  s = t
<1>1. s \in Nat /\ t \in Nat /\ Period \in Nat
  BY TickType, BudgetType
<1>2. s < t => s + Period <= t
  BY TickGap
<1>3. t < s => t + Period <= s
  BY TickGap
<1> QED
  BY <1>1, <1>2, <1>3

LEMMA SteadyTook ==
    ASSUME LogInv, WindowInv, SteadyInv, Adaptive, Steady, measured # <<>>
    PROVE  /\ AtTick(Took) /\ Took \in Nat /\ latencies # <<>> /\ latencies[1] \in Nat
           /\ latencies[1] <= Took /\ Took < latencies[1] + Period
           /\ \A i \in DOMAIN measured : measured[i] = Took
           /\ threshold = CalledFor(Took)
           /\ limited <=> Took + Most(Took, Interval) > Budget
<1>1. 1 \in DOMAIN measured
  <2>1. measured \in Seq(Nat)
    BY DEF WindowInv
  <2> QED
    BY <2>1, EmptySeq, LenProperties
<1>2. latencies # <<>> /\ \A i \in DOMAIN measured :
               /\ AtTick(measured[i])
               /\ latencies[1] <= measured[i] /\ measured[i] < latencies[1] + Period
  BY <1>1 DEF SteadyInv
<1>3. latencies[1] \in Nat
  <2>1. latencies \in Seq(Nat)
    BY VirtualAssumption, SeqMonotonic DEF LogInv
  <2> QED
    BY <1>2, <2>1, EmptySeq, ElementOfSeq
<1>4. AtTick(Took) /\ latencies[1] <= Took /\ Took < latencies[1] + Period
  BY <1>1, <1>2 DEF Took
<1>5. \A i \in DOMAIN measured : measured[i] = Took
  BY <1>2, <1>3, <1>4, RoundedUp
<1> QED
  BY <1>2, <1>3, <1>4, <1>5, TickType DEF SteadyInv, CalledFor

\* A prediction that is collected took as many ticks as those before.
LEMMA CollectSteady ==
    ASSUME ClockInv, ChunkInv, WindowInv, LogInv, SteadyInv, Adaptive, Steady, Collect
    PROVE  \E d \in Nat :
               /\ d = now - lastRequestedAt /\ AtTick(d) /\ AtTick(lastRequestedAt)
               /\ lastRequestedAt \in Nat /\ now \in Nat
               /\ latencies # <<>> /\ latencies[1] <= d /\ d < latencies[1] + Period
               /\ \A i \in DOMAIN measured : measured[i] = d
               /\ measured # <<>> => Took = d
               /\ threshold' = CalledFor(d)
               /\ limited' <=> d + Most(d, Interval) > Budget
               /\ measured' # <<>> /\ (\A i \in DOMAIN measured' : measured'[i] = d)
               /\ Took' = d
<1>1. PICK p \in pending :
               /\ now >= p.readyAt /\ p.requestedAt = lastRequestedAt
               /\ AtTick(lastRequestedAt)
               /\ IF config.scheduler = "adaptive_async"
                  THEN Observe(now - lastRequestedAt)
                  ELSE UNCHANGED <<controller, measured>>
  BY CollectCases
<1>2. PICK d \in Nat : d = now - lastRequestedAt /\ AtTick(d) /\ Observe(d)
  BY <1>1, ElapsedType DEF Adaptive
<1>3. /\ latencies # <<>> /\ p.readyAt = lastRequestedAt + latencies[1]
      /\ now < p.readyAt + Period
  BY <1>1 DEF SteadyInv
<1>4. latencies[1] \in Nat
  <2>1. latencies \in Seq(Nat)
    BY VirtualAssumption, SeqMonotonic DEF LogInv
  <2> QED
    BY <1>3, <2>1, EmptySeq, ElementOfSeq
<1>5. lastRequestedAt \in Nat /\ now \in Nat
  BY <1>1, TickType DEF ClockInv
<1>6. latencies[1] <= d /\ d < latencies[1] + Period
  BY <1>1, <1>2, <1>3, <1>4, <1>5, BudgetType
<1>7. ASSUME measured # <<>> PROVE Took = d /\ threshold = CalledFor(d)
  <2>1. /\ AtTick(Took) /\ latencies[1] <= Took /\ Took < latencies[1] + Period
        /\ threshold = CalledFor(Took)
    BY <1>7, SteadyTook
  <2>2. Took = d
    BY <1>2, <1>4, <1>6, <2>1, RoundedUp
  <2> QED
    BY <2>1, <2>2
<1>8. \A i \in DOMAIN measured : measured[i] = d
  <2>1. CASE measured = <<>>
    BY <2>1
  <2>2. CASE measured # <<>>
    BY <1>7, <2>2, SteadyTook
  <2> QED
    BY <2>1, <2>2
<1>9. config \in Configs
  BY DEF ChunkInv
<1>10. /\ threshold' = CalledFor(d)
       /\ limited' <=> d + Most(d, Interval) > Budget
       /\ measured' # <<>> /\ (\A i \in DOMAIN measured' : measured'[i] = d)
       /\ measured'[1] = d
  BY <1>2, <1>7, <1>8, <1>9, ObserveEqual
<1> QED
  BY <1>1, <1>2, <1>3, <1>5, <1>6, <1>7, <1>8, <1>10 DEF Took

LEMMA SteadyStep ==
    ASSUME ClockInv, ChunkInv, ConsumedInv, WindowInv, LogInv, SteadyInv, [Next]_vars
    PROVE  SteadyInv'
<1>0. now \in Nat /\ Period \in Nat \ {0} /\ AtTick(now)
  BY TickType, BudgetType DEF ClockInv
<1>1. CASE Collect
  <2> SUFFICES ASSUME Adaptive', Steady' PROVE SteadyInv'
    BY DEF SteadyInv
  <2>1. Adaptive /\ Steady
    BY <1>1, CollectKeeps DEF Adaptive, Steady
  <2>2. PICK d \in Nat :
               /\ AtTick(d) /\ latencies # <<>> /\ latencies[1] <= d /\ d < latencies[1] + Period
               /\ threshold' = CalledFor(d)
               /\ limited' <=> d + Most(d, Interval) > Budget
               /\ \A i \in DOMAIN measured' : measured'[i] = d
               /\ Took' = d
    BY <1>1, <2>1, CollectSteady
  <2>3. latencies' = latencies /\ Interval' = Interval
    BY <1>1, CollectKeeps DEF Interval
  <2>4. pending' = {}
    BY <1>1 DEF Collect
  <2>5. threshold' = Scaled(Least(Took' + Margin, Budget))
    BY <2>2 DEF CalledFor
  <2>6. limited' <=> Took' + Most(Took', Interval') > Budget
    BY <2>2, <2>3
  <2>7. \A i \in DOMAIN measured' :
               /\ AtTick(measured'[i]) /\ latencies' # <<>>
               /\ latencies'[1] <= measured'[i] /\ measured'[i] < latencies'[1] + Period
    BY <2>2, <2>3
  <2> QED
    BY <2>4, <2>5, <2>6, <2>7 DEF SteadyInv
<1>2. CASE Wait
  <2> SUFFICES ASSUME Adaptive', Steady' PROVE SteadyInv'
    BY DEF SteadyInv
  <2>1. UNCHANGED <<now, config, pending, samples, threshold, limited, latencies, measured>>
    BY <1>2, WaitCases DEF controller
  <2>2. Adaptive /\ Steady
    BY <2>1 DEF Adaptive, Steady
  <2>3. ASSUME NEW p \in pending PROVE now < p.readyAt
    <3>1. CASE NotReady
      <4>1. ~(now >= p.readyAt)
        BY <3>1 DEF NotReady, Ready
      <4> QED
        BY <1>0, <4>1 DEF ChunkInv
    <3>2. CASE phase = "decide"
      BY <2>2, <3>2 DEF SteadyInv
    <3> QED
      BY <1>2, <3>1, <3>2, WaitCases
  <2> QED
    BY <2>1, <2>2, <2>3 DEF SteadyInv, Took, Interval
<1>3. ASSUME NEW latency \in Latencies, Request(latency) PROVE SteadyInv'
  <2> SUFFICES ASSUME Adaptive', Steady' PROVE SteadyInv'
    BY DEF SteadyInv
  <2>1. /\ UNCHANGED <<now, config, samples, threshold, limited, measured>> /\ phase' = "repoll"
        /\ latencies' = Append(latencies, latency)
        /\ \A p \in pending' : p.requestedAt = now /\ p.readyAt = now + latency
    BY <1>3, RequestCases DEF controller
  <2>2. /\ Steady /\ latencies' # <<>> /\ latencies'[1] = latency
        /\ latencies # <<>> => latencies'[1] = latencies[1]
    BY <2>1, SteadyRequest
  <2>3. Adaptive /\ latency \in Nat
    BY <2>1, VirtualAssumption DEF Adaptive
  <2>4. \A p \in pending' :
               /\ latencies' # <<>> /\ p.readyAt = p.requestedAt + latencies'[1]
               /\ now < p.readyAt + Period
    BY <1>0, <2>1, <2>2, <2>3
  <2>5. \A i \in DOMAIN measured' :
               /\ AtTick(measured'[i]) /\ latencies' # <<>>
               /\ latencies'[1] <= measured'[i] /\ measured'[i] < latencies'[1] + Period
    BY <2>1, <2>2, <2>3 DEF SteadyInv
  <2>6. measured' # <<>> =>
               /\ threshold' = Scaled(Least(Took' + Margin, Budget))
               /\ limited' <=> Took' + Most(Took', Interval') > Budget
    BY <2>1, <2>2, <2>3 DEF SteadyInv, Took, Interval
  <2> QED
    BY <2>1, <2>4, <2>5, <2>6 DEF SteadyInv
<1>4. CASE Execute
  BY <1>4, ExecuteCases DEF SteadyInv, Adaptive, Steady, Took, Interval, controller
<1>5. CASE Advance
  <2> SUFFICES ASSUME Adaptive', Steady' PROVE SteadyInv'
    BY DEF SteadyInv
  <2>1. /\ UNCHANGED <<config, pending, samples, threshold, limited, latencies, measured>>
        /\ now' = now + Period /\ phase = "advance" /\ phase' \in {"poll", "finished"}
    BY <1>5, AdvanceCases DEF controller
  <2>2. Adaptive /\ Steady
    BY <2>1 DEF Adaptive, Steady
  <2>3. ASSUME NEW p \in pending PROVE now' < p.readyAt + Period
    <3>1. now < p.readyAt /\ p.readyAt \in Nat
      BY <2>1, <2>2 DEF SteadyInv, ChunkInv
    <3> QED
      BY <1>0, <2>1, <3>1
  <2> QED
    BY <2>1, <2>2, <2>3 DEF SteadyInv, Took, Interval
<1>6. CASE UNCHANGED vars
  BY <1>6, StutterCases DEF SteadyInv, Adaptive, Steady, Took, Interval, controller
<1> QED
  BY <1>1, <1>2, <1>3, <1>4, <1>5, <1>6, NextCases
----------------------------------------------------------------------------
(***************************************************************************)
(* The pace of chunks under a steady latency.                              *)
(***************************************************************************)
LEMMA PaceFacts ==
    ASSUME ClockInv, ChunkInv, WindowInv, LogInv, SteadyInv, PaceInv, Adaptive, Steady,
           acceptedAt # <<>>
    PROVE  /\ measured # <<>> /\ AtTick(Took) /\ Took \in Nat /\ Took < Budget
           /\ AtTick(Began) /\ Began \in Nat /\ Last \in Nat /\ Last <= now
           /\ Last = Began + Took /\ AtTick(ItsEnd) /\ ItsEnd \in Nat
           /\ ItsEnd = Began + Budget /\ Last < ItsEnd /\ Budget \in Nat
           /\ Interval \in Nat \ {0} /\ now \in Nat
<1>1. measured # <<>> /\ Took < Budget /\ AtTick(Began)
  BY DEF PaceInv
<1>2. AtTick(Took) /\ Took \in Nat
  BY <1>1, SteadyTook
<1>3. Began \in Nat /\ Budget \in Nat /\ AtTick(Budget) /\ now \in Nat
  BY <1>1, TickType, BudgetType DEF ClockInv
<1>4. Last \in Nat /\ Last <= now
  <2>1. acceptedAt \in Seq(Nat) /\ \A i \in DOMAIN acceptedAt : acceptedAt[i] <= now
    BY DEF LogInv
  <2>2. Len(acceptedAt) \in DOMAIN acceptedAt
    BY <2>1, EmptySeq, LenProperties
  <2> QED
    BY <2>1, <2>2 DEF Last
<1>5. Last = Began + Took
  BY <1>2, <1>3, <1>4 DEF Began
<1>6. AtTick(ItsEnd) /\ ItsEnd = Began + Budget
  BY <1>1, <1>3, TickSum DEF ItsEnd
<1>7. Interval \in Nat \ {0}
  BY ConfigType DEF ChunkInv
<1> QED
  BY <1>1, <1>2, <1>3, <1>4, <1>5, <1>6, <1>7, TickType

\* A chunk that is accepted lasts on, and the next request is still to come.
LEMMA PaceAccept ==
    ASSUME ClockInv, ChunkInv, WindowInv, LogInv, SteadyInv, Adaptive, Steady, Collect,
           now < lastRequestedAt + Budget
    PROVE  PaceInv'
<1>1. PICK p \in pending :
               /\ pending' = {}
               /\ \E c : chunk' = {c} /\ c.start = lastRequestedAt
               /\ acceptedAt' = IF lastRequestedAt + Budget <= now THEN acceptedAt
                                ELSE Append(acceptedAt, now)
  BY CollectCases
<1>2. PICK d \in Nat :
               /\ d = now - lastRequestedAt /\ AtTick(d) /\ AtTick(lastRequestedAt)
               /\ lastRequestedAt \in Nat /\ now \in Nat
               /\ limited' <=> d + Most(d, Interval) > Budget
               /\ measured' # <<>> /\ Took' = d
  BY CollectSteady
<1>3. /\ now' = now /\ config' = config /\ lastRequestedAt' = lastRequestedAt
      /\ fallbackAt' = fallbackAt /\ phase \in {"poll", "repoll"}
      /\ phase = "poll" => phase' = "decide"
      /\ phase = "repoll" => phase' = "execute"
  BY CollectKeeps
<1>4. Budget \in Nat \ {0} /\ Interval \in Nat \ {0}
  BY BudgetType, ConfigType DEF ChunkInv
<1>5. acceptedAt' # <<>> /\ Last' = now
  <2>1. acceptedAt' = Append(acceptedAt, now) /\ acceptedAt \in Seq(Nat)
    BY <1>1, <1>2, <1>4 DEF LogInv
  <2>2. PICK n \in Nat, all \in Seq(Nat) :
               /\ n = Len(acceptedAt)
               /\ all = Append(acceptedAt, now) /\ Len(all) = n + 1
               /\ all[n + 1] = now
               /\ \A i \in 1 .. n : i \in DOMAIN acceptedAt /\ all[i] = acceptedAt[i]
    BY <1>2, <2>1, Appended
  <2>3. n + 1 # 0 /\ acceptedAt' = all
    BY <2>1, <2>2
  <2> QED
    BY <2>2, <2>3, EmptySeq DEF Last
<1>6. Began' = lastRequestedAt /\ ItsEnd' = lastRequestedAt + Budget
  BY <1>2, <1>4, <1>5 DEF Began, ItsEnd
<1>7. Took' < Budget /\ AtTick(Began')
  BY <1>2, <1>4, <1>6
<1>8. (\A c \in chunk' : c.start = Began') /\ chunk' # {}
  BY <1>1, <1>6
<1>9. (\E t \in fallbackAt' : Last' <= t) <=> Done(ItsEnd)'
  <2>1. ~Done(ItsEnd)'
    BY <1>2, <1>3, <1>4, <1>6 DEF Done
  <2>2. \A t \in fallbackAt : t \in Nat /\ t < now
    BY <1>3 DEF LogInv, Done
  <2>3. ~ \E t \in fallbackAt' : Last' <= t
    BY <1>2, <1>3, <1>5, <2>2
  <2> QED
    BY <2>1, <2>3
<1>10. \/ limited'
       \/ now' + Took' < ItsEnd'
       \/ phase' \in {"poll", "decide", "finished"} /\ now' + Took' = ItsEnd'
  <2>1. CASE d + Most(d, Interval) > Budget
    BY <1>2, <2>1
  <2>2. CASE ~(d + Most(d, Interval) > Budget)
    <3>1. d + d <= Budget
      BY <1>2, <1>4, <2>2 DEF Most
    <3>2. now + d <= lastRequestedAt + Budget /\ now = lastRequestedAt + d
      BY <1>2, <1>4, <3>1
    <3>3. CASE phase = "poll"
      BY <1>2, <1>3, <1>4, <1>6, <3>2, <3>3
    <3>4. CASE phase = "repoll"
      <4>1. lastRequestedAt = now
        BY <3>4 DEF ChunkInv
      <4>2. d = 0 /\ now + d < lastRequestedAt + Budget
        BY <1>2, <1>4, <4>1
      <4> QED
        BY <1>2, <1>3, <1>6, <4>2
    <3> QED
      BY <1>3, <3>3, <3>4
  <2> QED
    BY <2>1, <2>2
<1> QED
  BY <1>1, <1>2, <1>3, <1>5, <1>6, <1>7, <1>8, <1>9, <1>10 DEF PaceInv
\* Under a steady latency no chunk expires on its way once one was accepted.
LEMMA NoneExpires ==
    ASSUME ClockInv, ChunkInv, WindowInv, LogInv, SteadyInv, PaceInv, Adaptive, Steady,
           Collect, acceptedAt # <<>>
    PROVE  now < lastRequestedAt + Budget
<1>1. PICK d \in Nat : /\ d = now - lastRequestedAt /\ lastRequestedAt \in Nat /\ now \in Nat
                       /\ measured # <<>> => Took = d
  BY CollectSteady
<1>2. measured # <<>> /\ Took < Budget /\ Budget \in Nat
  BY PaceFacts
<1> QED
  BY <1>1, <1>2

\* The threshold lets a request start early enough for its chunk to take over.
LEMMA WantsInTime ==
    ASSUME ClockInv, ChunkInv, WindowInv, LogInv, SteadyInv, PaceInv, Adaptive, Steady,
           acceptedAt # <<>>, pending = {}, ~limited, now + Took = ItsEnd
    PROVE  WantsRequest
<1>1. /\ measured # <<>> /\ Took \in Nat /\ Took < Budget /\ Began \in Nat
      /\ ItsEnd = Began + Budget /\ Budget \in Nat /\ Interval \in Nat \ {0} /\ now \in Nat
  BY PaceFacts
<1>2. lastRequestedAt = Began
  BY DEF PaceInv
<1>3. ~(Took + Most(Took, Interval) > Budget) /\ threshold = CalledFor(Took)
  BY <1>1, SteadyTook
<1>4. Took + Interval <= Budget
  BY <1>1, <1>3 DEF Most
<1>5. now - lastRequestedAt >= Interval
  BY <1>1, <1>2, <1>4
<1>6. Buffer!Coverage(now) = Took
  <2>1. CASE Took = 0
    <3>1. ~ \E c \in chunk : now < c.start + Budget
      BY <1>1, <2>1 DEF PaceInv
    <3> QED
      BY <2>1, <3>1, CoverageAtTick
  <2>2. CASE Took # 0
    <3>1. now < ItsEnd
      BY <1>1, <2>2
    <3>2. PICK c \in chunk : c.start = Began
      BY <3>1 DEF PaceInv
    <3>3. now < c.start + Budget
      BY <1>1, <3>1, <3>2
    <3>4. Buffer!Coverage(now) = c.start + Budget - now
      BY <3>3, CoverageAtTick
    <3> QED
      BY <1>1, <3>2, <3>4
  <2> QED
    BY <2>1, <2>2
<1>7. Scaled(Took) <= threshold
  <2>1. Margin \in Nat /\ Least(Took + Margin, Budget) \in Nat
        /\ Took <= Least(Took + Margin, Budget)
    BY <1>1, VirtualAssumption DEF Least
  <2> QED
    BY <1>1, <1>3, <2>1, ScaledFacts DEF CalledFor
<1>8. Below(Scaled(Buffer!Coverage(now)), threshold)
  BY <1>6, <1>7 DEF Below
<1> QED
  BY <1>5, <1>8 DEF WantsRequest, Adaptive, Interval

\* The next request is in time exactly when supply is not limited.
LEMMA PaceRequest ==
    ASSUME ClockInv, ChunkInv, WindowInv, LogInv, SteadyInv, PaceInv, Adaptive, Steady,
           acceptedAt # <<>>, phase = "decide", WantsRequest
    PROVE  now >= Last /\ (limited <=> now + Took > ItsEnd)
<1>1. /\ measured # <<>> /\ Took \in Nat /\ Began \in Nat /\ Last \in Nat /\ Last <= now
      /\ Last = Began + Took
      /\ ItsEnd = Began + Budget /\ Budget \in Nat /\ Interval \in Nat \ {0} /\ now \in Nat
  BY PaceFacts
<1>2. pending = {} /\ lastRequestedAt = Began
  BY DEF WantsRequest, PaceInv
<1>3. now - lastRequestedAt >= Interval
  <2>1. lastRequestedAt # -1
    BY <1>1, <1>2
  <2> QED
    BY <2>1 DEF WantsRequest, Adaptive, Interval
<1>4. ASSUME limited PROVE now + Took > ItsEnd
  <2>1. Took + Most(Took, Interval) > Budget
    BY <1>1, <1>4, SteadyTook
  <2>2. now >= Began + Interval /\ now >= Began + Took
    BY <1>1, <1>2, <1>3
  <2>3. now >= Began + Most(Took, Interval) /\ Most(Took, Interval) \in Nat
    BY <1>1, <2>2 DEF Most
  <2> QED
    BY <1>1, <2>1, <2>3
<1>5. ASSUME ~limited PROVE ~(now + Took > ItsEnd)
  <2>1. now + Took < ItsEnd \/ now + Took = ItsEnd
    BY <1>2, <1>5 DEF PaceInv
  <2> QED
    BY <1>1, <2>1
<1> QED
  BY <1>1, <1>4, <1>5

LEMMA PaceStep ==
    ASSUME ClockInv, ChunkInv, ConsumedInv, WindowInv, LogInv, SteadyInv, PaceInv, [Next]_vars
    PROVE  PaceInv'
<1> SUFFICES ASSUME Adaptive', Steady', acceptedAt' # <<>> PROVE PaceInv'
  BY DEF PaceInv
<1>1. CASE Collect
  <2>1. Adaptive /\ Steady
    BY <1>1, CollectKeeps DEF Adaptive, Steady
  <2>2. now < lastRequestedAt + Budget
    <3>1. CASE acceptedAt = <<>>
      <4>1. /\ AtTick(lastRequestedAt)
            /\ acceptedAt' = IF lastRequestedAt + Budget <= now THEN acceptedAt
                             ELSE Append(acceptedAt, now)
        BY <1>1, CollectCases
      <4>2. ~(lastRequestedAt + Budget <= now)
        BY <3>1, <4>1
      <4>3. lastRequestedAt \in Nat /\ now \in Nat /\ Budget \in Nat
        BY <4>1, TickType, BudgetType DEF ClockInv
      <4> QED
        BY <4>2, <4>3
    <3>2. CASE acceptedAt # <<>>
      BY <1>1, <2>1, <3>2, NoneExpires
    <3> QED
      BY <3>1, <3>2
  <2> QED
    BY <1>1, <2>1, <2>2, PaceAccept
<1>2. CASE Wait
  <2>1. UNCHANGED <<chunk, now, config, pending, lastRequestedAt, samples, threshold, limited,
                    latencies, measured, acceptedAt, fallbackAt>>
    BY <1>2, WaitCases DEF controller
  <2>2. Adaptive /\ Steady /\ acceptedAt # <<>>
    BY <2>1 DEF Adaptive, Steady
  <2>3. \/ phase = "poll" /\ phase' = "decide"
        \/ phase = "repoll" /\ phase' = "execute"
        \/ NoRequest /\ phase = "decide" /\ phase' = "execute"
    BY <1>2, WaitCases
  <2>4. Last' = Last /\ Began' = Began /\ Took' = Took /\ ItsEnd' = ItsEnd
    BY <2>1 DEF Last, Began, Took, ItsEnd
  <2>5. Done(ItsEnd)' <=> Done(ItsEnd)
    BY <2>1, <2>3, <2>4 DEF Done
  <2>6. ASSUME pending = {}
        PROVE  \/ limited
               \/ now + Took < ItsEnd
               \/ phase' \in {"poll", "decide", "finished"} /\ now + Took = ItsEnd
    <3>1. CASE phase = "poll" /\ phase' = "decide"
      BY <2>2, <2>6, <3>1 DEF PaceInv
    <3>2. CASE phase = "repoll"
      BY <2>6, <3>2 DEF ChunkInv
    <3>3. CASE NoRequest /\ phase = "decide"
      <4>1. ~WantsRequest
        BY <3>3 DEF NoRequest
      <4>2. ~limited => now + Took # ItsEnd
        BY <2>2, <2>6, <4>1, WantsInTime
      <4> QED
        BY <2>2, <2>6, <4>2 DEF PaceInv
    <3> QED
      BY <2>3, <3>1, <3>2, <3>3
  <2>7. /\ measured # <<>> /\ Took < Budget /\ AtTick(Began)
        /\ \A c \in chunk : c.start = Began
        /\ now < ItsEnd => chunk # {}
        /\ (\E t \in fallbackAt : Last <= t) <=> Done(ItsEnd)
        /\ pending = {} => lastRequestedAt = Began
        /\ pending # {} =>
               /\ lastRequestedAt >= Last
               /\ limited <=> lastRequestedAt + Took > ItsEnd
    BY <2>2 DEF PaceInv
  <2> QED
    BY <2>1, <2>4, <2>5, <2>6, <2>7 DEF PaceInv
<1>3. ASSUME NEW latency \in Latencies, Request(latency) PROVE PaceInv'
  <2>1. /\ UNCHANGED <<chunk, now, config, samples, threshold, limited,
                       measured, acceptedAt, fallbackAt>>
        /\ phase = "decide" /\ phase' = "repoll" /\ WantsRequest /\ lastRequestedAt' = now
        /\ latencies' = Append(latencies, latency) /\ pending' # {}
    BY <1>3, RequestCases DEF controller
  <2>2. Adaptive /\ Steady /\ acceptedAt # <<>>
    BY <2>1, SteadyRequest DEF Adaptive
  <2>3. now >= Last /\ (limited <=> now + Took > ItsEnd)
    BY <2>1, <2>2, PaceRequest
  <2>4. Last' = Last /\ Began' = Began /\ Took' = Took /\ ItsEnd' = ItsEnd
    BY <2>1 DEF Last, Began, Took, ItsEnd
  <2>5. Done(ItsEnd)' <=> Done(ItsEnd)
    BY <2>1, <2>4 DEF Done
  <2>6. /\ measured # <<>> /\ Took < Budget /\ AtTick(Began)
        /\ \A c \in chunk : c.start = Began
        /\ now < ItsEnd => chunk # {}
        /\ (\E t \in fallbackAt : Last <= t) <=> Done(ItsEnd)
    BY <2>2 DEF PaceInv
  <2> QED
    BY <2>1, <2>3, <2>4, <2>5, <2>6 DEF PaceInv
<1>4. CASE Execute
  <2>1. /\ UNCHANGED <<now, config, pending, lastRequestedAt, samples, threshold, limited,
                       latencies, measured, acceptedAt>>
        /\ phase = "execute" /\ phase' = "advance" /\ chunk' \subseteq chunk
        /\ \/ fallbackAt' = fallbackAt /\ chunk' = chunk /\ \E c \in chunk : now < c.start + Budget
           \/ fallbackAt' = fallbackAt \cup {now} /\ \A c \in chunk : ~(now < c.start + Budget)
    BY <1>4, ExecuteCases DEF controller
  <2>2. Adaptive /\ Steady /\ acceptedAt # <<>>
    BY <2>1 DEF Adaptive, Steady
  <2>3. Last' = Last /\ Began' = Began /\ Took' = Took /\ ItsEnd' = ItsEnd
    BY <2>1 DEF Last, Began, Took, ItsEnd
  <2>4. /\ measured # <<>> /\ Took < Budget /\ AtTick(Began)
        /\ \A c \in chunk : c.start = Began
        /\ now < ItsEnd => chunk # {}
        /\ (\E t \in fallbackAt : Last <= t) <=> Done(ItsEnd)
        /\ pending = {} =>
               /\ lastRequestedAt = Began
               /\ limited \/ now + Took < ItsEnd
        /\ pending # {} =>
               /\ lastRequestedAt >= Last
               /\ limited <=> lastRequestedAt + Took > ItsEnd
    BY <2>1, <2>2 DEF PaceInv
  <2>5. now \in Nat /\ ItsEnd \in Nat /\ ItsEnd = Began + Budget /\ Last <= now
    BY <2>2, PaceFacts
  <2>6. CASE fallbackAt' = fallbackAt /\ chunk' = chunk /\ \E c \in chunk : now < c.start + Budget
    <3>1. now < ItsEnd
      BY <2>4, <2>5, <2>6
    <3>2. ~Done(ItsEnd) /\ ~Done(ItsEnd)'
      BY <2>1, <2>3, <2>5, <3>1 DEF Done
    <3> QED
      BY <2>1, <2>3, <2>4, <2>6, <3>2 DEF PaceInv
  <2>7. CASE fallbackAt' = fallbackAt \cup {now} /\ \A c \in chunk : ~(now < c.start + Budget)
    <3>1. ~(now < ItsEnd)
      BY <2>4, <2>5, <2>7
    <3>2. Done(ItsEnd)' /\ \E t \in fallbackAt' : Last <= t
      BY <2>1, <2>3, <2>5, <2>7, <3>1 DEF Done
    <3> QED
      BY <2>1, <2>3, <2>4, <3>1, <3>2 DEF PaceInv
  <2> QED
    BY <2>1, <2>6, <2>7
<1>5. CASE Advance
  <2>1. /\ UNCHANGED <<chunk, config, pending, lastRequestedAt, samples, threshold, limited,
                       latencies, measured, acceptedAt, fallbackAt>>
        /\ phase = "advance" /\ phase' \in {"poll", "finished"} /\ now' = now + Period
    BY <1>5, AdvanceCases DEF controller
  <2>2. Adaptive /\ Steady /\ acceptedAt # <<>>
    BY <2>1 DEF Adaptive, Steady
  <2>3. Last' = Last /\ Began' = Began /\ Took' = Took /\ ItsEnd' = ItsEnd
    BY <2>1 DEF Last, Began, Took, ItsEnd
  <2>4. /\ measured # <<>> /\ Took < Budget /\ AtTick(Began)
        /\ \A c \in chunk : c.start = Began
        /\ now < ItsEnd => chunk # {}
        /\ (\E t \in fallbackAt : Last <= t) <=> Done(ItsEnd)
        /\ pending = {} =>
               /\ lastRequestedAt = Began
               /\ limited \/ now + Took < ItsEnd
        /\ pending # {} =>
               /\ lastRequestedAt >= Last
               /\ limited <=> lastRequestedAt + Took > ItsEnd
    BY <2>1, <2>2 DEF PaceInv
  <2>5. /\ now \in Nat /\ ItsEnd \in Nat /\ Took \in Nat /\ Period \in Nat \ {0}
        /\ AtTick(now) /\ AtTick(ItsEnd) /\ AtTick(Took)
    BY <2>2, PaceFacts, BudgetType DEF ClockInv
  <2>6. Done(ItsEnd)' <=> Done(ItsEnd)
    <3>1. now < ItsEnd => now + Period <= ItsEnd
      BY <2>5, TickGap
    <3> QED
      BY <2>1, <2>3, <2>5, <3>1 DEF Done
  <2>7. now' < ItsEnd => chunk # {}
    BY <2>1, <2>4, <2>5
  <2>8. now + Took < ItsEnd => now' + Took <= ItsEnd
    <3>1. AtTick(now + Took)
      BY <2>5, TickSum
    <3>2. now + Took < ItsEnd => now + Took + Period <= ItsEnd
      BY <2>5, <3>1, TickGap
    <3> QED
      BY <2>1, <2>5, <3>2
  <2>9. pending = {} => \/ limited
                        \/ now' + Took < ItsEnd
                        \/ phase' \in {"poll", "decide", "finished"} /\ now' + Took = ItsEnd
    BY <2>1, <2>4, <2>5, <2>8
  <2> QED
    BY <2>1, <2>3, <2>4, <2>6, <2>7, <2>9 DEF PaceInv
<1>6. CASE UNCHANGED vars
  BY <1>6, StutterCases
     DEF PaceInv, Adaptive, Steady, Took, Last, Began, ItsEnd, Done, controller
<1> QED
  BY <1>1, <1>2, <1>3, <1>4, <1>5, <1>6, NextCases
\* The supply criterion from one accepted chunk to the next.
LEMMA SupplyStep ==
    ASSUME ClockInv, ChunkInv, ConsumedInv, WindowInv, LogInv, SteadyInv, PaceInv,
           SupplyCriterion, [Next]_vars
    PROVE  SupplyCriterion'
<1> SUFFICES ASSUME Adaptive', Steady', NEW i \in 1 .. Len(acceptedAt') - 1
             PROVE  GapAfter(i)' <=> limited'
  BY DEF SupplyCriterion, Adaptive
<1>0. /\ acceptedAt \in Seq(Nat) /\ \A k \in DOMAIN acceptedAt : acceptedAt[k] <= now
      /\ now \in Nat
  BY TickType DEF LogInv, ClockInv
<1>1. PICK n \in Nat : n = Len(acceptedAt) /\ DOMAIN acceptedAt = 1 .. n
  BY <1>0, LenProperties
<1>2. ASSUME UNCHANGED <<acceptedAt, limited, config>>, Steady,
             fallbackAt' = fallbackAt \/ fallbackAt' = fallbackAt \cup {now}
      PROVE  GapAfter(i)' <=> limited'
  <2>1. i \in 1 .. n - 1
    BY <1>1, <1>2
  <2>2. GapAfter(i) <=> limited
    BY <1>1, <1>2, <2>1 DEF SupplyCriterion, Adaptive
  <2>3. ~(now < acceptedAt[i + 1])
    <3>1. i + 1 \in 1 .. n
      BY <1>1, <2>1
    <3>2. acceptedAt[i + 1] \in Nat /\ acceptedAt[i + 1] <= now
      BY <1>0, <1>1, <3>1
    <3> QED
      BY <1>0, <3>2
  <2>4. GapAfter(i)' <=> GapAfter(i)
    BY <1>2, <2>3 DEF GapAfter
  <2> QED
    BY <1>2, <2>2, <2>4
<1>3. CASE Collect
  <2>1. Adaptive /\ Steady /\ fallbackAt' = fallbackAt /\ phase # "advance"
    BY <1>3, CollectKeeps DEF Adaptive, Steady
  <2>2. acceptedAt' = IF lastRequestedAt + Budget <= now THEN acceptedAt
                      ELSE Append(acceptedAt, now)
    BY <1>3, CollectCases
  <2>3. acceptedAt # <<>>
    <3>1. ASSUME acceptedAt = <<>> PROVE FALSE
      <4>1. acceptedAt' = <<>> \/ acceptedAt' = <<now>>
        BY <2>2, <3>1
      <4>2. PICK k \in {0, 1} : k = Len(acceptedAt')
        BY <4>1
      <4>3. i \in 1 .. k - 1
        BY <4>2
      <4> QED
        BY <4>2, <4>3
    <3> QED
      BY <3>1
  <2>4. now < lastRequestedAt + Budget
    BY <1>3, <2>1, <2>3, NoneExpires
  <2>5. PICK d \in Nat : /\ d = now - lastRequestedAt /\ lastRequestedAt \in Nat
                         /\ measured # <<>> => Took = d
                         /\ limited' <=> d + Most(d, Interval) > Budget
    BY <1>3, <2>1, CollectSteady
  <2>6. /\ measured # <<>> /\ Took \in Nat /\ ItsEnd \in Nat /\ Last \in Nat
        /\ Budget \in Nat /\ Interval \in Nat
    BY <2>1, <2>3, PaceFacts
  <2>7. limited' <=> limited
    <3>1. limited <=> Took + Most(Took, Interval) > Budget
      BY <2>1, <2>6, SteadyTook
    <3> QED
      BY <2>5, <2>6, <3>1
  <2>8. PICK m \in Nat, all \in Seq(Nat) :
               /\ m = Len(acceptedAt)
               /\ all = Append(acceptedAt, now) /\ Len(all) = m + 1
               /\ all[m + 1] = now
               /\ \A k \in 1 .. m : k \in DOMAIN acceptedAt /\ all[k] = acceptedAt[k]
    BY <1>0, Appended
  <2>9. acceptedAt' = all /\ m = n
    BY <1>0, <1>1, <2>2, <2>4, <2>5, <2>6, <2>8
  <2>10. i \in 1 .. n
    BY <1>1, <2>8, <2>9
  <2>11. CASE i = n
    <3>1. acceptedAt'[i] = Last /\ acceptedAt'[i + 1] = now
      BY <1>1, <2>8, <2>9, <2>10, <2>11 DEF Last
    <3>2. \A t \in fallbackAt : t \in Nat /\ t < now
      BY <2>1 DEF LogInv, Done
    <3>3. GapAfter(i)' <=> \E t \in fallbackAt : Last <= t
      BY <2>1, <3>1, <3>2 DEF GapAfter
    <3>4. (\E t \in fallbackAt : Last <= t) <=> Done(ItsEnd)
      BY <2>1, <2>3 DEF PaceInv
    <3>5. Done(ItsEnd) <=> ItsEnd < now
      BY <2>1 DEF Done
    <3>6. limited <=> lastRequestedAt + Took > ItsEnd
      BY <1>3, <2>1, <2>3 DEF PaceInv, Collect, Ready
    <3>7. lastRequestedAt + Took = now
      BY <1>0, <2>5, <2>6
    <3>8. now > ItsEnd <=> ItsEnd < now
      BY <1>0, <2>6
    <3> QED
      BY <2>7, <3>3, <3>4, <3>5, <3>6, <3>7, <3>8
  <2>12. CASE i # n
    <3>1. i \in 1 .. n - 1 /\ i \in 1 .. n /\ i + 1 \in 1 .. n
      BY <1>1, <2>10, <2>12
    <3>2. acceptedAt'[i] = acceptedAt[i] /\ acceptedAt'[i + 1] = acceptedAt[i + 1]
      BY <2>8, <2>9, <3>1
    <3>3. GapAfter(i)' <=> GapAfter(i)
      BY <2>1, <3>2 DEF GapAfter
    <3>4. GapAfter(i) <=> limited
      BY <1>1, <2>1, <3>1 DEF SupplyCriterion, Adaptive
    <3> QED
      BY <2>7, <3>3, <3>4
  <2> QED
    BY <2>11, <2>12
<1>4. CASE Wait
  <2>1. UNCHANGED <<acceptedAt, limited, config, latencies, fallbackAt>>
    BY <1>4, WaitCases DEF controller
  <2> QED
    BY <1>2, <2>1 DEF Steady
<1>5. ASSUME NEW latency \in Latencies, Request(latency) PROVE GapAfter(i)' <=> limited'
  <2>1. /\ UNCHANGED <<acceptedAt, limited, config, fallbackAt>>
        /\ latencies' = Append(latencies, latency)
    BY <1>5, RequestCases DEF controller
  <2>2. Steady
    BY <2>1, SteadyRequest
  <2> QED
    BY <1>2, <2>1, <2>2
<1>6. CASE Execute
  <2>1. /\ UNCHANGED <<acceptedAt, limited, config, latencies>>
        /\ fallbackAt' = fallbackAt \/ fallbackAt' = fallbackAt \cup {now}
    BY <1>6, ExecuteCases DEF controller
  <2> QED
    BY <1>2, <2>1 DEF Steady
<1>7. CASE Advance
  <2>1. UNCHANGED <<acceptedAt, limited, config, latencies, fallbackAt>>
    BY <1>7, AdvanceCases DEF controller
  <2> QED
    BY <1>2, <2>1 DEF Steady
<1>8. CASE UNCHANGED vars
  <2>1. UNCHANGED <<acceptedAt, limited, config, latencies, fallbackAt>>
    BY <1>8, StutterCases DEF controller
  <2> QED
    BY <1>2, <2>1 DEF Steady
<1> QED
  BY <1>3, <1>4, <1>5, <1>6, <1>7, <1>8, NextCases
----------------------------------------------------------------------------
LEMMA VirtualInit == Init => VirtualInv
<1> SUFFICES ASSUME Init PROVE VirtualInv
  OBVIOUS
<1>1. ClockInv
  <2>1. now = 0 /\ AtTick(0) /\ phase = IF TickCount > 0 THEN "poll" ELSE "finished"
    BY OnePeriod DEF Init
  <2>2. 0 <= TickCount * Period /\ (TickCount > 0 => 0 < TickCount * Period)
    <3>1. PICK d \in Nat \ {0}, c \in Nat : d = Period /\ c = TickCount
      BY VirtualAssumption
    <3>2. c > 0 => c * d >= d
      BY <3>1
    <3>3. c * d \in Nat
      BY <3>1
    <3> QED
      BY <3>1, <3>2, <3>3
  <2> QED
    BY <2>1, <2>2 DEF ClockInv
<1>2. ChunkInv
  BY DEF Init, ChunkInv
<1>3. ConsumedInv /\ IdleInv
  BY DEF Init, ConsumedInv, IdleInv
<1>4. threshold \in 0 .. Scaled(Budget)
  <2>1. PICK p \in Nat, b \in Nat : p = config.prefetchThreshold /\ b = Budget
    BY ConfigType, BudgetType DEF Init
  <2>2. Least(p, b) \in Nat /\ Least(p, b) <= b
    BY <2>1 DEF Least
  <2>3. Scaled(Least(p, b)) \in Nat /\ Scaled(Least(p, b)) <= Scaled(b) /\ Scaled(b) \in Nat
    BY <2>1, <2>2, ScaledFacts
  <2>4. threshold = Scaled(Least(p, b))
    BY <2>1 DEF Init
  <2> QED
    BY <2>1, <2>3, <2>4
<1>5. WindowInv
  <2>1. samples = <<>> /\ measured = <<>> /\ limited = FALSE /\ WindowSize \in Nat
    BY VirtualAssumption DEF Init
  <2>2. Len(samples) = 0 /\ Len(measured) = 0 /\ samples \in Seq(Nat) /\ measured \in Seq(Nat)
    BY <2>1, EmptySeq
  <2>3. \A k \in 1 .. Len(samples) : samples[k] = measured[Len(measured) - Len(samples) + k]
    <3>1. 1 .. Len(samples) = {}
      BY <2>2
    <3> QED
      BY <3>1, Zenon
  <2>4. Len(samples) <= WindowSize /\ Len(samples) <= Len(measured)
    BY <2>1, <2>2
  <2>5. limited \in BOOLEAN
    BY <2>1
  <2>6. Len(samples) = Len(measured)
    BY <2>2
  <2> QED
    BY <1>4, <2>2, <2>3, <2>4, <2>5, <2>6, Zenon DEF WindowInv
<1>6. ThresholdTracks
  BY DEF Init, ThresholdTracks
<1>7. LogInv
  <2>1. latencies = <<>> /\ acceptedAt = <<>> /\ fallbackAt = {}
    BY DEF Init
  <2> QED
    BY <2>1, EmptySeq DEF LogInv
<1>8. SteadyInv /\ PaceInv /\ SupplyCriterion
  <2>1. measured = <<>> /\ acceptedAt = <<>> /\ pending = {} /\ Len(acceptedAt) = 0
    BY EmptySeq DEF Init
  <2> QED
    BY <2>1 DEF SteadyInv, PaceInv, SupplyCriterion
<1> QED
  BY <1>1, <1>2, <1>3, <1>5, <1>6, <1>7, <1>8 DEF VirtualInv

LEMMA VirtualStep == VirtualInv /\ [Next]_vars => VirtualInv'
<1> SUFFICES ASSUME VirtualInv, [Next]_vars PROVE VirtualInv'
  OBVIOUS
<1>1. /\ ClockInv /\ ChunkInv /\ ConsumedInv /\ IdleInv /\ WindowInv /\ LogInv
      /\ ThresholdTracks /\ SteadyInv /\ PaceInv /\ SupplyCriterion
  BY DEF VirtualInv
<1>2. threshold \in Nat
  <2>1. Scaled(Budget) \in Nat
    BY BudgetType, ScaledFacts
  <2> QED
    BY <1>1, <2>1 DEF WindowInv
<1>3. ClockInv' /\ ChunkInv' /\ ConsumedInv'
  BY <1>1, ClockStep, ChunkStep, ConsumedStep
<1>4. IdleInv'
  BY <1>1, <1>2, IdleStep
<1>5. WindowInv' /\ ThresholdTracks'
  BY <1>1, WindowStep
<1>6. LogInv'
  BY <1>1, LogStep
<1>7. SteadyInv'
  BY <1>1, SteadyStep
<1>8. PaceInv'
  BY <1>1, PaceStep
<1>9. SupplyCriterion'
  BY <1>1, SupplyStep
<1> QED
  BY <1>3, <1>4, <1>5, <1>6, <1>7, <1>8, <1>9 DEF VirtualInv

LEMMA VirtualInvariance == Spec => []VirtualInv
  BY VirtualInit, VirtualStep, PTL DEF Spec

(***************************************************************************)
(* The state of the loop, of the scheduler and of the controller is well   *)
(* formed (runtime.py:36-93, adaptive.py:27-92).                           *)
(***************************************************************************)
THEOREM VirtualTypes == Spec => []VirtualTypeOK
<1>1. VirtualInv => VirtualTypeOK
  <2> SUFFICES ASSUME VirtualInv PROVE VirtualTypeOK
    OBVIOUS
  <2>1. ClockInv /\ ChunkInv /\ WindowInv
    BY DEF VirtualInv
  <2>2. now \in Nat /\ TickCount * Period \in Nat
    BY <2>1, TickType, VirtualAssumption DEF ClockInv
  <2>3. lastRequestedAt \in -1 .. now
    BY <2>1, <2>2, TickType DEF ChunkInv
  <2>4. config.scheduler \in Schedulers
    BY <2>1, ConfigType DEF ChunkInv
  <2> QED
    BY <2>1, <2>2, <2>3, <2>4 DEF VirtualTypeOK, ClockInv, ChunkInv, WindowInv
<1> QED
  BY <1>1, VirtualInvariance, PTL

(***************************************************************************)
(* Whatever the scheduler, nobody idles unasked: without an action to      *)
(* execute there is a prediction in flight, or a minimum interval to wait  *)
(* for (adaptive.py:156-163, fixed_async.py, sync.py:20-23).               *)
(***************************************************************************)
THEOREM NobodyIdlesUnasked == Spec => []IdleOnlyWhenAsked
<1>1. VirtualInv => IdleOnlyWhenAsked
  BY IdleConsequence DEF VirtualInv
<1> QED
  BY <1>1, VirtualInvariance, PTL

(***************************************************************************)
(* The threshold keeps within the deadband of what the last WindowSize     *)
(* latencies call for, for every window, quantile and margin               *)
(* (adaptive.py:76-92).                                                    *)
(***************************************************************************)
THEOREM ThresholdKeepsUp == Spec => []ThresholdTracks
<1>1. VirtualInv => ThresholdTracks
  BY DEF VirtualInv
<1> QED
  BY <1>1, VirtualInvariance, PTL

(***************************************************************************)
(* docs/ADAPTIVE_PREFETCH.md's supply criterion is exact: under a latency  *)
(* that stays the same each chunk takes over from the last without a       *)
(* fallback if and only if supply is not limited (adaptive.py:94-107).     *)
(***************************************************************************)
THEOREM SupplyIsExact == Spec => []SupplyCriterion
<1>1. VirtualInv => SupplyCriterion
  BY DEF VirtualInv
<1> QED
  BY <1>1, VirtualInvariance, PTL
============================================================================
