----------------------- MODULE WorkerSchedulerProofs -----------------------
(***************************************************************************)
(* What WorkerScheduler guarantees for every number of requests, batch and *)
(* history size and both modes, whatever the backend returns.  One         *)
(* inductive invariant, SchedulerInv.                                      *)
(***************************************************************************)
EXTENDS WorkerScheduler, FiniteSetTheorems, SequenceTheorems, TLAPS

Entry == [id : RequestId, reason : Reasons]

TypeInv ==
    /\ adaptive \in Modes
    /\ requests \in SUBSET RequestId
    /\ adaptive => \A a, b \in requests : a = b
    /\ retired \in Seq(Entry) /\ Len(retired) <= HistorySize
    /\ latestAccepted \in RequestId \cup {-1}
    /\ now \in Nat /\ clock \in Nat /\ submitted \in 0 .. MaxRequests
    /\ stage \in {"out", "ticking", "polling", "polled"}
    /\ batch \in Seq(Result)
    /\ accepted \in Seq(RequestId) /\ sampled \in Seq(RequestId)
    /\ cancelledBelow \in 0 .. MaxRequests /\ polledAt \in Nat

(***************************************************************************)
(* A request has no fate while it is live.  Then it has one reason, or a   *)
(* timeout and what became of its late result.                             *)
(***************************************************************************)
LateOutcomes == {"late_completion", "failed", "invalid_timestamp", "identity_mismatch"}

FateInv ==
    /\ fate \in [RequestId -> Seq(Reasons)]
    /\ \A id \in requests : id < submitted /\ fate[id] = <<>>
    /\ \A id \in RequestId : id >= submitted => fate[id] = <<>>
    /\ \A id \in RequestId \ requests :
           id < submitted => \/ \E r \in Reasons : fate[id] = <<r>>
                             \/ \E r \in LateOutcomes : fate[id] = <<"request_timeout", r>>

(***************************************************************************)
(* The history is a table with one entry per request.  An entry that may   *)
(* still be claimed is that of a request whose whole fate is its timeout,  *)
(* and no request of a cancelled episode has one.                          *)
(***************************************************************************)
RetiredInv ==
    /\ \A i, j \in DOMAIN retired : retired[i].id = retired[j].id => i = j
    /\ \A i \in DOMAIN retired :
           /\ retired[i].id < submitted /\ retired[i].id \notin requests
           /\ retired[i].reason = "request_timeout" =>
                  fate[retired[i].id] = <<"request_timeout">> /\ retired[i].id >= cancelledBelow

CancelInv ==
    /\ cancelledBelow <= submitted
    /\ \A id \in requests : id >= cancelledBelow

(***************************************************************************)
(* Accepted and sampled requests have the fates that brought them there,   *)
(* and such a fate never changes.                                          *)
(***************************************************************************)
AcceptInv ==
    /\ \A i, j \in DOMAIN accepted : i < j => accepted[i] < accepted[j]
    /\ \A i \in DOMAIN accepted : /\ accepted[i] <= latestAccepted
                                  /\ fate[accepted[i]] = <<"completed">>

Measured == {<<"completed">>, <<"request_timeout", "late_completion">>}
SampleInv ==
    /\ \A i, j \in DOMAIN sampled : sampled[i] = sampled[j] => i = j
    /\ \A i \in DOMAIN sampled : fate[sampled[i]] \in Measured

\* The local now of poll() was read after the backend's poll() returned.
ClockInv == stage = "polling" => now = polledAt

SchedulerInv == TypeInv /\ FateInv /\ RetiredInv /\ CancelInv /\ AcceptInv /\ SampleInv /\ ClockInv

----------------------------------------------------------------------------
(***************************************************************************)
(* The history as a sequence.                                              *)
(***************************************************************************)
\* How many of the oldest entries go.
Dropped(s) == IF Len(s) <= HistorySize THEN 0 ELSE Len(s) - HistorySize

LEMMA Sized == ASSUME NEW S, NEW s \in Seq(S)
               PROVE  Len(s) \in Nat /\ DOMAIN s = 1 .. Len(s) /\ \A i \in 1 .. Len(s) : s[i] \in S
  OBVIOUS

LEMMA TrimmedProperties ==
    ASSUME NEW S, NEW s \in Seq(S)
    PROVE  /\ Trimmed(s) \in Seq(S) /\ Len(Trimmed(s)) <= HistorySize
           /\ Dropped(s) \in Nat
           /\ \A i \in DOMAIN Trimmed(s) : /\ i + Dropped(s) \in DOMAIN s
                                           /\ Trimmed(s)[i] = s[i + Dropped(s)]
<1>1. PICK n \in Nat : n = Len(s) /\ DOMAIN s = 1 .. n /\ \A i \in 1 .. n : s[i] \in S
  BY Sized
<1>2. PICK h \in Nat : h = HistorySize
  BY SchedulerAssumption
<1>3. CASE n <= h
  <2>1. Trimmed(s) = s /\ Dropped(s) = 0
    BY <1>1, <1>2, <1>3 DEF Trimmed, Dropped
  <2> QED
    BY <1>1, <1>2, <1>3, <2>1
<1>4. CASE n > h
  <2>1. PICK d \in Nat : d = n - h
    BY <1>4
  <2>2. Trimmed(s) = SubSeq(s, d + 1, n) /\ Dropped(s) = d
    BY <1>1, <1>2, <1>4, <2>1 DEF Trimmed, Dropped
  <2>3. /\ SubSeq(s, d + 1, n) \in Seq(S)
        /\ Len(SubSeq(s, d + 1, n)) = IF d + 1 <= n THEN n - (d + 1) + 1 ELSE 0
        /\ \A i \in 1 .. n - (d + 1) + 1 : SubSeq(s, d + 1, n)[i] = s[(d + 1) + i - 1]
    <3>1. \A i \in d + 1 .. n : s[i] \in S
      BY <1>1
    <3>2. d + 1 \in Int /\ n \in Int
      OBVIOUS
    <3> QED
      BY <3>1, <3>2, SubSeqProperties
  <2>4. Len(Trimmed(s)) = h /\ Trimmed(s) \in Seq(S)
    BY <1>4, <2>1, <2>2, <2>3
  <2>5. DOMAIN Trimmed(s) = 1 .. h
    BY <2>4
  <2>6. ASSUME NEW i \in 1 .. h
        PROVE  i + d \in 1 .. n /\ Trimmed(s)[i] = s[i + d]
    <3>1. i \in 1 .. n - (d + 1) + 1 /\ (d + 1) + i - 1 = i + d /\ i + d \in 1 .. n
      BY <1>4, <2>1
    <3> QED
      BY <2>2, <2>3, <3>1
  <2>7. ASSUME NEW i \in DOMAIN Trimmed(s)
        PROVE  i + Dropped(s) \in DOMAIN s /\ Trimmed(s)[i] = s[i + Dropped(s)]
    BY <1>1, <2>2, <2>5, <2>6
  <2>8. Len(Trimmed(s)) <= HistorySize /\ Dropped(s) \in Nat
    BY <1>2, <2>2, <2>4
  <2> QED
    BY <2>4, <2>7, <2>8
<1> QED
  BY <1>3, <1>4

LEMMA WithoutOne ==
    ASSUME NEW S, NEW s \in Seq(S), NEW n \in Nat, n = Len(s), NEW k \in 1 .. n
    PROVE  /\ RemoveAt(s, k) \in Seq(S) /\ DOMAIN RemoveAt(s, k) = 1 .. n - 1
           /\ \A i \in 1 .. n - 1 : RemoveAt(s, k)[i] = IF i < k THEN s[i] ELSE s[i + 1]
<1>1. \A i \in 1 .. n : s[i] \in S
  BY Sized
<1>2. PICK a : a = SubSeq(s, 1, k - 1)
  OBVIOUS
<1>3. PICK b : b = SubSeq(s, k + 1, n)
  OBVIOUS
<1>4. a \in Seq(S) /\ Len(a) = k - 1 /\ \A i \in 1 .. k - 1 : a[i] = s[i]
  <2>1. /\ a \in Seq(S) /\ Len(a) = IF 1 <= k - 1 THEN (k - 1) - 1 + 1 ELSE 0
        /\ \A i \in 1 .. (k - 1) - 1 + 1 : a[i] = s[1 + i - 1]
    <3>1. \A i \in 1 .. k - 1 : s[i] \in S
      BY <1>1
    <3>2. 1 \in Int /\ k - 1 \in Int
      OBVIOUS
    <3> QED
      BY <1>2, <3>1, <3>2, SubSeqProperties
  <2>2. Len(a) = k - 1
    BY <2>1
  <2>3. ASSUME NEW i \in 1 .. k - 1 PROVE a[i] = s[i]
    <3>1. i \in 1 .. (k - 1) - 1 + 1 /\ 1 + i - 1 = i
      OBVIOUS
    <3> QED
      BY <2>1, <3>1
  <2> QED
    BY <2>1, <2>2, <2>3
<1>5. b \in Seq(S) /\ Len(b) = n - k /\ \A i \in 1 .. n - k : b[i] = s[k + i]
  <2>1. /\ b \in Seq(S) /\ Len(b) = IF k + 1 <= n THEN n - (k + 1) + 1 ELSE 0
        /\ \A i \in 1 .. n - (k + 1) + 1 : b[i] = s[(k + 1) + i - 1]
    <3>1. \A i \in k + 1 .. n : s[i] \in S
      BY <1>1
    <3>2. k + 1 \in Int /\ n \in Int
      OBVIOUS
    <3> QED
      BY <1>3, <3>1, <3>2, SubSeqProperties
  <2>2. Len(b) = n - k
    BY <2>1
  <2>3. ASSUME NEW i \in 1 .. n - k PROVE b[i] = s[k + i]
    <3>1. i \in 1 .. n - (k + 1) + 1 /\ (k + 1) + i - 1 = k + i
      OBVIOUS
    <3> QED
      BY <2>1, <3>1
  <2> QED
    BY <2>1, <2>2, <2>3
<1>6. RemoveAt(s, k) = a \o b
  BY <1>2, <1>3 DEF RemoveAt
<1>7. /\ a \o b \in Seq(S) /\ Len(a \o b) = Len(a) + Len(b)
      /\ \A i \in 1 .. Len(a) + Len(b) : (a \o b)[i] = IF i <= Len(a) THEN a[i] ELSE b[i - Len(a)]
  BY <1>4, <1>5, ConcatProperties
<1>8. Len(a) + Len(b) = n - 1
  BY <1>4, <1>5
<1>9. ASSUME NEW i \in 1 .. n - 1
      PROVE  (a \o b)[i] = IF i < k THEN s[i] ELSE s[i + 1]
  <2>1. CASE i < k
    <3>1. i <= Len(a) /\ i \in 1 .. k - 1
      BY <1>4, <2>1
    <3> QED
      BY <1>4, <1>7, <1>8, <2>1, <3>1
  <2>2. CASE ~(i < k)
    <3>1. ~(i <= Len(a)) /\ i - Len(a) = i - (k - 1) /\ i - (k - 1) \in 1 .. n - k
          /\ k + (i - (k - 1)) = i + 1
      BY <1>4, <2>2
    <3>2. (a \o b)[i] = b[i - (k - 1)]
      BY <1>7, <1>8, <3>1
    <3> QED
      BY <1>5, <2>2, <3>1, <3>2
  <2> QED
    BY <2>1, <2>2
<1>10. DOMAIN (a \o b) = 1 .. n - 1
  BY <1>7, <1>8
<1> QED
  BY <1>6, <1>7, <1>9, <1>10

LEMMA OthersProperties ==
    ASSUME retired \in Seq(Entry), NEW id,
           \A i, j \in DOMAIN retired : retired[i].id = retired[j].id => i = j
    PROVE  /\ Others(id) \in Seq(Entry)
           /\ \A i \in DOMAIN Others(id) :
                  \E k \in DOMAIN retired : Others(id)[i] = retired[k] /\ retired[k].id # id
           /\ \A i, j \in DOMAIN Others(id) : Others(id)[i].id = Others(id)[j].id => i = j
<1>1. CASE RetiredAs(id) = {}
  <2>1. \A i \in DOMAIN retired : retired[i].id # id
    BY <1>1 DEF RetiredAs
  <2> QED
    BY <1>1, <2>1 DEF Others
<1>2. CASE RetiredAs(id) # {}
  <2>1. \E i \in DOMAIN retired : retired[i].id = id
    BY <1>2 DEF RetiredAs
  <2>2. PICK k \in DOMAIN retired : retired[k].id = id /\ Others(id) = RemoveAt(retired, k)
    BY <1>2, <2>1 DEF Others
  <2>3. PICK n \in Nat : n = Len(retired) /\ DOMAIN retired = 1 .. n
    BY Sized
  <2>4. /\ Others(id) \in Seq(Entry) /\ DOMAIN Others(id) = 1 .. n - 1
        /\ \A i \in 1 .. n - 1 : Others(id)[i] = IF i < k THEN retired[i] ELSE retired[i + 1]
    <3>1. PICK s \in Seq(Entry) : s = retired
      OBVIOUS
    <3>2. k \in 1 .. n /\ n \in Nat /\ n = Len(s)
      BY <2>2, <2>3, <3>1
    <3>4. Others(id) = RemoveAt(s, k)
      BY <2>2, <3>1
    <3>3. /\ RemoveAt(s, k) \in Seq(Entry) /\ DOMAIN RemoveAt(s, k) = 1 .. n - 1
          /\ \A i \in 1 .. n - 1 : RemoveAt(s, k)[i] = IF i < k THEN s[i] ELSE s[i + 1]
      BY ONLY <3>1, <3>2, WithoutOne, SMTT(30)
    <3> QED
      BY ONLY <3>1, <3>3, <3>4, Zenon
  <2>5. ASSUME NEW i \in 1 .. n - 1
        PROVE  \E j \in 1 .. n : /\ Others(id)[i] = retired[j] /\ j # k
                                 /\ i < k => j = i
                                 /\ ~(i < k) => j = i + 1
    <3>1. k \in Nat /\ i \in 1 .. n /\ i + 1 \in 1 .. n
      BY <2>3
    <3>2. CASE i < k
      BY <2>4, <3>1, <3>2
    <3>3. CASE ~(i < k)
      <4>1. i + 1 # k
        BY <3>1, <3>3
      <4> QED
        BY <2>4, <3>1, <3>3, <4>1
    <3> QED
      BY <3>2, <3>3
  <2>6. ASSUME NEW i \in 1 .. n - 1
        PROVE  \E j \in DOMAIN retired : Others(id)[i] = retired[j] /\ retired[j].id # id
    BY <2>2, <2>3, <2>5
  <2>7. ASSUME NEW i \in 1 .. n - 1, NEW j \in 1 .. n - 1, Others(id)[i].id = Others(id)[j].id
        PROVE  i = j
    <3>1. PICK a \in 1 .. n : Others(id)[i] = retired[a] /\ (i < k => a = i) /\ (~(i < k) => a = i + 1)
      BY <2>5
    <3>2. PICK b \in 1 .. n : Others(id)[j] = retired[b] /\ (j < k => b = j) /\ (~(j < k) => b = j + 1)
      BY <2>5
    <3>3. a = b
      BY <2>3, <2>7, <3>1, <3>2
    <3>4. k \in Nat
      BY <2>3
    <3> QED
      BY <3>1, <3>2, <3>3, <3>4
  <2>8. \A i \in DOMAIN Others(id) :
            \E j \in DOMAIN retired : Others(id)[i] = retired[j] /\ retired[j].id # id
    BY <2>4, <2>6
  <2>9. \A i, j \in DOMAIN Others(id) : Others(id)[i].id = Others(id)[j].id => i = j
    BY <2>4, <2>7
  <2> QED
    BY <2>4, <2>8, <2>9
<1> QED
  BY <1>1, <1>2
----------------------------------------------------------------------------
(***************************************************************************)
(* A finite set of numbers has an increasing enumeration: the inverse of   *)
(* counting for each element how many are not above it.                    *)
(***************************************************************************)
LEMMA IncreasingExists ==
    ASSUME NEW S \in SUBSET Nat, IsFiniteSet(S)
    PROVE  \E s \in [1 .. Cardinality(S) -> S] : \A i, j \in DOMAIN s : i < j => s[i] < s[j]
<1>1. PICK n \in Nat : n = Cardinality(S)
  BY FS_CardinalityType
<1>0. \A x \in S : x \in Nat
  OBVIOUS
<1> DEFINE Below(x) == {y \in S : y <= x}
<1>2. ASSUME NEW x \in S
      PROVE  IsFiniteSet(Below(x)) /\ Cardinality(Below(x)) \in 1 .. n
  <2>1. Below(x) \in SUBSET S /\ x \in Below(x)
    OBVIOUS
  <2>2. IsFiniteSet(Below(x)) /\ Cardinality(Below(x)) <= n
    BY <1>1, <2>1, FS_Subset
  <2>3. Cardinality(Below(x)) \in Nat
    BY <2>2, FS_CardinalityType
  <2>4. Cardinality(Below(x)) # 0
    BY <2>1, <2>2, FS_EmptySet
  <2> HIDE DEF Below
  <2> QED
    BY <2>2, <2>3, <2>4
<1>3. ASSUME NEW x \in S, NEW y \in S, x < y
      PROVE  Cardinality(Below(x)) < Cardinality(Below(y))
  <2>0. \A z \in S : z <= x => z <= y
    BY <1>0, <1>3
  <2>1. Below(x) \in SUBSET Below(y) /\ y \in Below(y) /\ y \notin Below(x)
    <3>1. y <= y /\ ~(y <= x)
      BY <1>0, <1>3
    <3>2. Below(x) \in SUBSET Below(y)
      BY <2>0
    <3> QED
      BY <3>1, <3>2
  <2>2. IsFiniteSet(Below(y)) /\ Cardinality(Below(x)) \in Nat /\ Cardinality(Below(y)) \in Nat
    BY <1>2
  <2> HIDE DEF Below
  <2>3. /\ Cardinality(Below(x)) <= Cardinality(Below(y))
        /\ Cardinality(Below(y)) = Cardinality(Below(x)) => Below(y) = Below(x)
    BY <2>1, <2>2, FS_Subset
  <2> QED
    BY <2>1, <2>2, <2>3
<1> HIDE DEF Below
<1>4. PICK r : r = [x \in S |-> Cardinality(Below(x))]
  OBVIOUS
<1>5. r \in [S -> 1 .. n] /\ \A x, y \in S : x < y => r[x] < r[y]
  BY <1>2, <1>3, <1>4
<1>6. \A x, y \in S : r[x] = r[y] => x = y
  <2> SUFFICES ASSUME NEW x \in S, NEW y \in S, r[x] = r[y], x # y PROVE FALSE
    OBVIOUS
  <2>1. r[x] \in Nat /\ r[y] \in Nat
    BY <1>5
  <2>2. x < y \/ y < x
    OBVIOUS
  <2> QED
    BY <1>5, <2>1, <2>2
<1>7. \A i \in 1 .. n : \E x \in S : r[x] = i
  <2>1. r \in Injection(S, 1 .. n)
    BY <1>5, <1>6 DEF Injection, IsInjective
  <2>2. IsFiniteSet(1 .. n) /\ Cardinality(1 .. n) = n
    <3>1. 1 \in Int /\ n \in Int
      OBVIOUS
    <3>2. IsFiniteSet(1 .. n) /\ Cardinality(1 .. n) = IF 1 > n THEN 0 ELSE n - 1 + 1
      BY <3>1, FS_Interval
    <3> QED
      BY <3>2
  <2>3. r \in Surjection(S, 1 .. n)
    BY <1>1, <2>1, <2>2, FS_Injection
  <2> QED
    BY <2>3 DEF Surjection
<1>8. PICK s : s = [i \in 1 .. n |-> CHOOSE x \in S : r[x] = i]
  OBVIOUS
<1>9. ASSUME NEW i \in 1 .. n
      PROVE  s[i] \in S /\ r[s[i]] = i
  BY <1>7, <1>8
<1>10. s \in [1 .. n -> S]
  BY <1>8, <1>9
<1>11. ASSUME NEW i \in 1 .. n, NEW j \in 1 .. n, i < j
       PROVE  s[i] < s[j]
  <2>0. i \in Nat /\ j \in Nat /\ i # j
    BY <1>11
  <2>1. s[i] \in Nat /\ s[j] \in Nat /\ s[i] # s[j]
    BY <1>0, <1>9, <2>0
  <2>2. ~(s[j] < s[i])
    <3> SUFFICES ASSUME s[j] < s[i] PROVE FALSE
      OBVIOUS
    <3>1. r[s[j]] < r[s[i]]
      BY <1>5, <1>9
    <3>2. j < i
      BY <1>9, <3>1
    <3> QED
      BY <1>11, <2>0, <3>2
  <2> QED
    BY <2>1, <2>2
<1> QED
  BY <1>1, <1>10, <1>11

LEMMA InOrderProperties ==
    ASSUME NEW S \in SUBSET RequestId
    PROVE  /\ IsFiniteSet(S) /\ Cardinality(S) \in Nat
           /\ InOrder(S) \in [1 .. Cardinality(S) -> S]
           /\ \A i, j \in 1 .. Cardinality(S) : i < j => InOrder(S)[i] < InOrder(S)[j]
<1>1. S \in SUBSET Nat /\ RequestId \in SUBSET Nat
  BY SchedulerAssumption DEF RequestId
<1>2. IsFiniteSet(RequestId)
  BY SchedulerAssumption, FS_Interval DEF RequestId
<1>3. IsFiniteSet(S) /\ Cardinality(S) \in Nat
  BY <1>2, FS_Subset, FS_CardinalityType
<1>4. \E s \in [1 .. Cardinality(S) -> S] : \A i, j \in DOMAIN s : i < j => s[i] < s[j]
  BY <1>1, <1>3, IncreasingExists
<1>5. PICK s : s = InOrder(S)
  OBVIOUS
<1>6. s \in [1 .. Cardinality(S) -> S] /\ \A i, j \in DOMAIN s : i < j => s[i] < s[j]
  BY <1>4, <1>5 DEF InOrder
<1> QED
  BY <1>3, <1>5, <1>6
----------------------------------------------------------------------------
(***************************************************************************)
(* Retiring a request, with what may come beside it: a new one (_submit).  *)
(***************************************************************************)
Legal(id, reasons) ==
    /\ id \in RequestId /\ id < submitted
    /\ \/ /\ id \in requests
          /\ \/ \E r \in Reasons : reasons = <<r>>
             \/ \E r \in LateOutcomes : reasons = <<"request_timeout", r>>
       \/ /\ fate[id] = <<"request_timeout">>
          /\ \E r \in LateOutcomes : reasons = <<r>>

LEMMA LateReasons == /\ LateOutcomes \subseteq Reasons /\ "request_timeout" \in Reasons
                     /\ "request_timeout" \notin LateOutcomes
  BY DEF LateOutcomes, Reasons

LEMMA Pair == ASSUME NEW x \in Reasons, NEW y \in Reasons
              PROVE  <<x>> \o <<y>> = <<x, y>>
<1>1. PICK s : s = <<x>> \o <<y>>
  OBVIOUS
<1>2. PICK t : t = <<x, y>>
  OBVIOUS
<1>3. <<x>> \in Seq(Reasons) /\ <<y>> \in Seq(Reasons) /\ t \in Seq(Reasons)
  BY <1>2
<1>4. s \in Seq(Reasons) /\ Len(s) = 2 /\ s[1] = x /\ s[2] = y
  BY <1>1, <1>3, ConcatProperties
<1>5. Len(t) = 2 /\ t[1] = x /\ t[2] = y
  BY <1>2
<1>6. \A i \in 1 .. 2 : s[i] = t[i]
  BY <1>4, <1>5
<1> QED
  BY <1>1, <1>2, <1>3, <1>4, <1>5, <1>6, SeqEqual

\* The fate a legal retirement leads to.
Follows(id, reasons, after, last) ==
    /\ after \in Seq(Reasons) /\ last \in Reasons
    /\ \/ \E r \in Reasons : after = <<r>>
       \/ \E r \in LateOutcomes : after = <<"request_timeout", r>>
    /\ last = "request_timeout" => id \in requests /\ after = <<"request_timeout">>
    /\ fate[id] \notin Measured
    /\ id \in requests => after = reasons
    /\ id \notin requests => after = <<"request_timeout", last>>

LEMMA FateAfter ==
    ASSUME FateInv, NEW id, NEW reasons, Legal(id, reasons)
    PROVE  Follows(id, reasons, fate[id] \o reasons, reasons[Len(reasons)])
<1> SUFFICES ASSUME NEW after, after = fate[id] \o reasons,
                    NEW last, last = reasons[Len(reasons)]
             PROVE  Follows(id, reasons, after, last)
  OBVIOUS
<1>1. CASE id \in requests
  <2>1. fate[id] = <<>>
    BY <1>1 DEF FateInv
  <2>2. ASSUME NEW r \in Reasons, reasons = <<r>>
        PROVE  after = <<r>> /\ after \in Seq(Reasons) /\ last = r
    BY <2>1, <2>2
  <2>3. ASSUME NEW r \in LateOutcomes, reasons = <<"request_timeout", r>>
        PROVE  after = <<"request_timeout", r>> /\ after \in Seq(Reasons) /\ last = r
    BY <2>1, <2>3, LateReasons
  <2>4. fate[id] \notin Measured
    BY <2>1 DEF Measured
  <2>5. ~(fate[id] = <<"request_timeout">>)
    BY <2>1
  <2> QED
    BY <1>1, <2>2, <2>3, <2>4, <2>5, LateReasons DEF Legal, Follows
<1>2. CASE id \notin requests
  <2>1. fate[id] = <<"request_timeout">>
    BY <1>2 DEF Legal
  <2>2. PICK r \in LateOutcomes : reasons = <<r>>
    BY <1>2 DEF Legal
  <2>3. r \in Reasons /\ "request_timeout" \in Reasons
    BY LateReasons
  <2>4. reasons = <<r>> /\ last = r
    BY <2>2
  <2>5. after = <<"request_timeout", r>>
    BY <2>1, <2>3, <2>4, Pair
  <2>6. <<"request_timeout", r>> \in Seq(Reasons)
    BY <2>3
  <2>7. fate[id] \notin Measured
    BY <2>1 DEF Measured
  <2> QED
    BY <1>2, <2>3, <2>4, <2>5, <2>6, <2>7, LateReasons DEF Follows
<1> QED
  BY <1>1, <1>2

LEMMA HistoryAfter ==
    ASSUME TypeInv, RetiredInv, NEW id \in RequestId, NEW reasons, Retire(id, reasons),
           NEW last \in Reasons, last = reasons[Len(reasons)]
    PROVE  /\ retired' \in Seq(Entry) /\ Len(retired') <= HistorySize
           /\ \A i, j \in DOMAIN retired' : retired'[i].id = retired'[j].id => i = j
           /\ \A i \in DOMAIN retired' :
                  \/ retired'[i] = [id |-> id, reason |-> last]
                  \/ \E k \in DOMAIN retired : retired'[i] = retired[k] /\ retired[k].id # id
<1>1. PICK e \in Entry : e = [id |-> id, reason |-> last]
  BY DEF Entry
<1>2. PICK o : o = Others(id)
  OBVIOUS
<1>3. /\ o \in Seq(Entry)
      /\ \A i \in DOMAIN o : \E k \in DOMAIN retired : o[i] = retired[k] /\ retired[k].id # id
      /\ \A i, j \in DOMAIN o : o[i].id = o[j].id => i = j
  BY <1>2, OthersProperties DEF TypeInv, RetiredInv
<1>4. PICK n \in Nat : n = Len(o) /\ DOMAIN o = 1 .. n
  BY <1>3, Sized
<1>5. PICK a : a = Append(o, e)
  OBVIOUS
<1>6. /\ a \in Seq(Entry) /\ DOMAIN a = 1 .. n + 1 /\ a[n + 1] = e
      /\ \A i \in 1 .. n : a[i] = o[i]
  BY <1>3, <1>4, <1>5
<1>7. \A i \in 1 .. n + 1 :
          \/ i = n + 1 /\ a[i] = e
          \/ i \in 1 .. n /\ \E k \in DOMAIN retired : a[i] = retired[k] /\ retired[k].id # id
  BY <1>3, <1>4, <1>6
<1>8. ASSUME NEW i \in 1 .. n + 1, NEW j \in 1 .. n + 1, a[i].id = a[j].id
      PROVE  i = j
  <2>1. CASE i = n + 1 \/ j = n + 1
    BY <1>1, <1>7, <1>8, <2>1
  <2>2. CASE i \in 1 .. n /\ j \in 1 .. n
    BY <1>3, <1>4, <1>6, <1>8, <2>2
  <2> QED
    BY <2>1, <2>2
<1>9. retired' = Trimmed(a)
  BY <1>1, <1>2, <1>5 DEF Retire
<1>10. PICK d \in Nat : d = Dropped(a)
  BY <1>6, TrimmedProperties
<1>11. /\ retired' \in Seq(Entry) /\ Len(retired') <= HistorySize
       /\ \A i \in DOMAIN retired' : i + d \in 1 .. n + 1 /\ retired'[i] = a[i + d]
  BY <1>6, <1>9, <1>10, TrimmedProperties
<1>12. ASSUME NEW i \in DOMAIN retired', NEW j \in DOMAIN retired', retired'[i].id = retired'[j].id
       PROVE  i = j
  <2>1. i \in Nat /\ j \in Nat
    BY <1>11, Sized
  <2>2. PICK u \in 1 .. n + 1 : u = i + d /\ retired'[i] = a[u]
    BY <1>11
  <2>3. PICK v \in 1 .. n + 1 : v = j + d /\ retired'[j] = a[v]
    BY <1>11
  <2>4. u = v
    BY <1>8, <1>12, <2>2, <2>3
  <2> QED
    BY <2>1, <2>2, <2>3, <2>4
<1> QED
  BY <1>1, <1>7, <1>11, <1>12
LEMMA RetireKeeps ==
    ASSUME TypeInv, FateInv, RetiredInv, CancelInv,
           NEW id, NEW reasons, Legal(id, reasons), Retire(id, reasons), NEW fresh,
           \/ fresh = {} /\ submitted' = submitted
           \/ fresh = {submitted} /\ submitted < MaxRequests /\ submitted' = submitted + 1,
           requests' = (requests \ {id}) \cup fresh, cancelledBelow' = cancelledBelow
    PROVE  /\ retired' \in Seq(Entry) /\ Len(retired') <= HistorySize
           /\ FateInv' /\ RetiredInv' /\ CancelInv'
           /\ \A x \in RequestId : fate[x] \in Measured => fate'[x] = fate[x]
           /\ Follows(id, reasons, fate'[id], reasons[Len(reasons)])
<1>1. PICK after : after = fate[id] \o reasons
  OBVIOUS
<1>2. PICK last : last = reasons[Len(reasons)]
  OBVIOUS
<1>3. /\ after \in Seq(Reasons) /\ last \in Reasons
      /\ \/ \E r \in Reasons : after = <<r>>
         \/ \E r \in LateOutcomes : after = <<"request_timeout", r>>
      /\ last = "request_timeout" => id \in requests /\ after = <<"request_timeout">>
      /\ fate[id] \notin Measured
  <2>1. Follows(id, reasons, fate[id] \o reasons, reasons[Len(reasons)])
    BY FateAfter
  <2>2. Follows(id, reasons, after, last)
    BY <1>1, <1>2, <2>1
  <2> QED
    BY <2>2 DEF Follows
<1>4. /\ id \in RequestId /\ id \in Nat /\ submitted \in Nat /\ submitted' \in Nat
      /\ cancelledBelow \in Nat /\ id < submitted /\ submitted' >= submitted
  <2>1. id \in RequestId /\ id < submitted
    BY DEF Legal
  <2>2. submitted \in Nat /\ cancelledBelow \in Nat /\ id \in Nat
    BY <2>1, SchedulerAssumption DEF TypeInv, RequestId
  <2>3. submitted' \in Nat /\ submitted' >= submitted
    BY <2>2
  <2> QED
    BY <2>1, <2>2, <2>3
<1>5. \A x \in RequestId : x \in Nat
  BY SchedulerAssumption DEF RequestId
<1>6. fate' = [fate EXCEPT ![id] = after] /\ fate \in [RequestId -> Seq(Reasons)]
  BY <1>1 DEF Retire, FateInv
<1>7. /\ fate' \in [RequestId -> Seq(Reasons)] /\ fate'[id] = after
      /\ \A x \in RequestId : x # id => fate'[x] = fate[x]
  BY <1>3, <1>4, <1>6
<1>8. \A x \in fresh : x = submitted /\ x \in RequestId /\ x < submitted'
  BY <1>4, SchedulerAssumption DEF RequestId
<1>9. FateInv'
  <2>1. ASSUME NEW x \in requests' PROVE x < submitted' /\ fate'[x] = <<>>
    <3>1. CASE x \in requests /\ x # id
      BY <1>4, <1>5, <1>7, <3>1 DEF FateInv, TypeInv
    <3>2. CASE x \in fresh
      BY <1>4, <1>7, <1>8, <3>2 DEF FateInv
    <3> QED
      BY <2>1, <3>1, <3>2
  <2>2. ASSUME NEW x \in RequestId, x >= submitted' PROVE fate'[x] = <<>>
    BY <1>4, <1>5, <1>7, <2>2 DEF FateInv
  <2>3. ASSUME NEW x \in RequestId, x \notin requests', x < submitted'
        PROVE  \/ \E r \in Reasons : fate'[x] = <<r>>
               \/ \E r \in LateOutcomes : fate'[x] = <<"request_timeout", r>>
    <3>1. CASE x = id
      BY <1>3, <1>7, <3>1
    <3>2. CASE x # id
      <4>1. x \notin requests /\ x < submitted
        BY <1>4, <1>5, <2>3, <3>2
      <4> QED
        BY <1>7, <3>2, <4>1 DEF FateInv
    <3> QED
      BY <3>1, <3>2
  <2> QED
    BY <1>7, <2>1, <2>2, <2>3 DEF FateInv
<1>10. /\ retired' \in Seq(Entry) /\ Len(retired') <= HistorySize
       /\ \A i, j \in DOMAIN retired' : retired'[i].id = retired'[j].id => i = j
       /\ \A i \in DOMAIN retired' :
              \/ retired'[i] = [id |-> id, reason |-> last]
              \/ \E k \in DOMAIN retired : retired'[i] = retired[k] /\ retired[k].id # id
  BY <1>2, <1>3, <1>4, HistoryAfter
<1>11. RetiredInv'
  <2>1. ASSUME NEW i \in DOMAIN retired'
        PROVE  /\ retired'[i].id < submitted' /\ retired'[i].id \notin requests'
               /\ retired'[i].reason = "request_timeout" =>
                      fate'[retired'[i].id] = <<"request_timeout">>
                      /\ retired'[i].id >= cancelledBelow'
    <3>1. CASE retired'[i] = [id |-> id, reason |-> last]
      <4>1. retired'[i].id = id /\ retired'[i].reason = last
        BY <3>1
      <4>2. id < submitted' /\ id \notin requests'
        BY <1>4, <1>8
      <4>3. last = "request_timeout" => fate'[id] = <<"request_timeout">> /\ id >= cancelledBelow'
        BY <1>3, <1>7 DEF CancelInv
      <4> QED
        BY <4>1, <4>2, <4>3
    <3>2. CASE \E k \in DOMAIN retired : retired'[i] = retired[k] /\ retired[k].id # id
      <4>1. PICK k \in DOMAIN retired : retired'[i] = retired[k] /\ retired[k].id # id
        BY <3>2
      <4>2. PICK x : x = retired[k].id
        OBVIOUS
      <4>3. x \in RequestId /\ x \in Nat
        <5>1. retired[k] \in Entry
          BY <4>1, Sized DEF TypeInv
        <5> QED
          BY <1>5, <4>2, <5>1 DEF Entry
      <4>4. x < submitted /\ x \notin requests /\ x # id
        BY <4>1, <4>2 DEF RetiredInv
      <4>5. x < submitted' /\ x \notin requests' /\ fate'[x] = fate[x]
        BY <1>4, <1>7, <1>8, <4>3, <4>4
      <4> QED
        BY <4>1, <4>2, <4>5 DEF RetiredInv
    <3> QED
      BY <1>10, <3>1, <3>2
  <2> QED
    BY <1>10, <2>1 DEF RetiredInv
<1>12. CancelInv'
  <2>1. cancelledBelow' <= submitted'
    BY <1>4 DEF CancelInv
  <2>2. \A x \in requests' : x >= cancelledBelow'
    BY <1>4, <1>8 DEF CancelInv
  <2> QED
    BY <2>1, <2>2 DEF CancelInv
<1>13. \A x \in RequestId : fate[x] \in Measured => fate'[x] = fate[x]
  BY <1>3, <1>7
<1>14. Follows(id, reasons, fate'[id], reasons[Len(reasons)])
  <2>1. Follows(id, reasons, fate[id] \o reasons, reasons[Len(reasons)])
    BY FateAfter
  <2> QED
    BY <1>1, <1>7, <2>1
<1> QED
  BY <1>9, <1>10, <1>11, <1>12, <1>13, <1>14
(***************************************************************************)
(* What the log loses or gains beside a retirement.                        *)
(***************************************************************************)
MeasuredKept == \A x \in RequestId : fate[x] \in Measured => fate'[x] = fate[x]

LEMMA AcceptedKept ==
    ASSUME TypeInv, AcceptInv, MeasuredKept, UNCHANGED <<latestAccepted, accepted>>
    PROVE  AcceptInv'
<1>1. \A i \in DOMAIN accepted : accepted[i] \in RequestId
  BY Sized DEF TypeInv
<1>2. ASSUME NEW i \in DOMAIN accepted
      PROVE  fate'[accepted[i]] = <<"completed">>
  <2>1. PICK x \in RequestId : x = accepted[i]
    BY <1>1
  <2>2. fate[x] = <<"completed">>
    BY <2>1 DEF AcceptInv
  <2>3. fate[x] \in Measured
    BY <2>2 DEF Measured
  <2> QED
    BY <2>1, <2>2, <2>3 DEF MeasuredKept
<1> QED
  BY <1>2 DEF AcceptInv

LEMMA SampledKept ==
    ASSUME TypeInv, SampleInv, MeasuredKept, UNCHANGED sampled
    PROVE  SampleInv'
<1>1. \A i \in DOMAIN sampled : sampled[i] \in RequestId
  BY Sized DEF TypeInv
<1>2. \A i \in DOMAIN sampled : fate'[sampled[i]] \in Measured'
  BY <1>1 DEF SampleInv, MeasuredKept, Measured
<1> QED
  BY <1>2 DEF SampleInv

LEMMA SampleKeeps ==
    ASSUME TypeInv, SampleInv, MeasuredKept, NEW id \in RequestId, Sample(id),
           fate[id] \notin Measured, fate'[id] \in Measured
    PROVE  /\ SampleInv' /\ sampled' \in Seq(RequestId)
           /\ \A i \in DOMAIN sampled' \ DOMAIN sampled : sampled'[i] = id
<1>1. CASE adaptive
  <2>1. PICK n \in Nat : n = Len(sampled) /\ DOMAIN sampled = 1 .. n
                         /\ \A i \in 1 .. n : sampled[i] \in RequestId
    BY Sized DEF TypeInv
  <2>2. /\ sampled' \in Seq(RequestId) /\ DOMAIN sampled' = 1 .. n + 1 /\ sampled'[n + 1] = id
        /\ \A i \in 1 .. n : sampled'[i] = sampled[i]
    BY <1>1, <2>1 DEF Sample, TypeInv
  <2>3. \A i \in 1 .. n : sampled[i] # id
    BY <2>1 DEF SampleInv
  <2>4. ASSUME NEW i \in 1 .. n + 1, NEW j \in 1 .. n + 1, sampled'[i] = sampled'[j]
        PROVE  i = j
    <3>1. \A k \in 1 .. n + 1 : k \in 1 .. n \/ k = n + 1
      OBVIOUS
    <3>2. CASE i \in 1 .. n /\ j \in 1 .. n
      BY <2>1, <2>2, <2>4, <3>2 DEF SampleInv
    <3>3. CASE i \in 1 .. n /\ j = n + 1
      BY <2>2, <2>3, <2>4, <3>3
    <3>4. CASE i = n + 1 /\ j \in 1 .. n
      BY <2>2, <2>3, <2>4, <3>4
    <3> QED
      BY <3>1, <3>2, <3>3, <3>4
  <2>5. ASSUME NEW i \in 1 .. n + 1 PROVE fate'[sampled'[i]] \in Measured'
    <3>1. Measured' = Measured
      BY DEF Measured
    <3>2. CASE i \in 1 .. n
      <4>1. sampled[i] \in RequestId /\ fate[sampled[i]] \in Measured
        BY <2>1, <3>2 DEF SampleInv
      <4> QED
        BY <2>2, <3>1, <3>2, <4>1 DEF MeasuredKept
    <3>3. CASE i = n + 1
      BY <2>2, <3>1, <3>3
    <3> QED
      BY <3>2, <3>3
  <2>6. \A i \in DOMAIN sampled' \ DOMAIN sampled : sampled'[i] = id
    BY <2>1, <2>2
  <2> QED
    BY <2>2, <2>4, <2>5, <2>6 DEF SampleInv
<1>2. CASE ~adaptive
  <2>1. sampled' = sampled
    BY <1>2 DEF Sample
  <2> QED
    BY <2>1, SampledKept DEF TypeInv
<1> QED
  BY <1>1, <1>2

LEMMA AcceptKeeps ==
    ASSUME TypeInv, AcceptInv, MeasuredKept, NEW id \in RequestId, id > latestAccepted,
           latestAccepted' = id, accepted' = Append(accepted, id), fate'[id] = <<"completed">>
    PROVE  /\ AcceptInv' /\ accepted' \in Seq(RequestId)
           /\ \A i \in DOMAIN accepted' \ DOMAIN accepted : accepted'[i] = id
<1>1. PICK n \in Nat : n = Len(accepted) /\ DOMAIN accepted = 1 .. n
                       /\ \A i \in 1 .. n : accepted[i] \in RequestId
  BY Sized DEF TypeInv
<1>2. /\ accepted' \in Seq(RequestId) /\ DOMAIN accepted' = 1 .. n + 1 /\ accepted'[n + 1] = id
      /\ \A i \in 1 .. n : accepted'[i] = accepted[i]
  <2>1. PICK s \in Seq(RequestId) : s = accepted
    BY DEF TypeInv
  <2>2. /\ Append(s, id) \in Seq(RequestId) /\ Len(Append(s, id)) = n + 1
        /\ Append(s, id)[n + 1] = id /\ \A i \in 1 .. n : Append(s, id)[i] = s[i]
    BY <1>1, <2>1
  <2> QED
    BY <2>1, <2>2
<1>3. /\ id \in Int /\ latestAccepted \in Int
      /\ \A x \in RequestId : x \in Int
  BY SchedulerAssumption DEF TypeInv, RequestId
<1>4. ASSUME NEW i \in 1 .. n PROVE accepted[i] < id
  <2>1. PICK x \in RequestId : x = accepted[i]
    BY <1>1
  <2>2. x \in Int /\ x <= latestAccepted
    BY <1>1, <1>3, <2>1 DEF AcceptInv
  <2> QED
    BY <1>3, <2>1, <2>2
<1>0. \A i \in 1 .. n + 1 : i \in 1 .. n \/ i = n + 1
  OBVIOUS
<1>5. ASSUME NEW i \in 1 .. n + 1, NEW j \in 1 .. n + 1, i < j
      PROVE  accepted'[i] < accepted'[j]
  <2>1. i \in 1 .. n
    BY <1>5
  <2>2. CASE j \in 1 .. n
    <3>1. accepted[i] < accepted[j]
      BY <1>1, <1>5, <2>1, <2>2 DEF AcceptInv
    <3> QED
      BY <1>2, <2>1, <2>2, <3>1
  <2>3. CASE j = n + 1
    BY <1>2, <1>4, <2>1, <2>3
  <2> QED
    BY <1>0, <2>2, <2>3
<1>6. ASSUME NEW i \in 1 .. n + 1
      PROVE  accepted'[i] <= latestAccepted' /\ fate'[accepted'[i]] = <<"completed">>
  <2>1. CASE i \in 1 .. n
    <3>1. PICK x \in RequestId : x = accepted[i]
      BY <1>1, <2>1
    <3>2. fate[x] = <<"completed">>
      BY <1>1, <2>1, <3>1 DEF AcceptInv
    <3>3. fate[x] \in Measured
      BY <3>2 DEF Measured
    <3>4. fate'[x] = <<"completed">>
      BY <3>2, <3>3 DEF MeasuredKept
    <3>5. x <= id
      <4>1. accepted[i] < id
        BY <1>4, <2>1
      <4>2. x < id
        BY <3>1, <4>1
      <4>3. x \in Int
        BY <1>3
      <4> QED
        BY <1>3, <4>2, <4>3
    <3> QED
      BY <1>2, <2>1, <3>1, <3>4, <3>5
  <2>2. CASE i = n + 1
    <3>1. accepted'[i] = id /\ latestAccepted' = id /\ id <= id
      BY <1>2, <1>3, <2>2
    <3> QED
      BY <3>1
  <2> QED
    BY <1>0, <2>1, <2>2
<1>7. \A i \in DOMAIN accepted' \ DOMAIN accepted : accepted'[i] = id
  BY <1>1, <1>2
<1> QED
  BY <1>2, <1>5, <1>6, <1>7 DEF AcceptInv
----------------------------------------------------------------------------
(***************************************************************************)
(* One lemma for what Known, Timeout and Handling say, then one per action.*)
(***************************************************************************)
LEMMA HandlingGives ==
    ASSUME TypeInv, NEW kinds, Handling(kinds)
    PROVE  /\ Id \in RequestId /\ Head(batch).kind \in kinds /\ batch' \in Seq(Result)
           /\ stage = "polling"
           /\ UNCHANGED <<now, stage, adaptive, clock, submitted, cancelledBelow, polledAt>>
<1>1. batch \in Seq(Result) /\ batch # <<>>
  BY DEF TypeInv, Handling
<1>2. Head(batch) \in Result /\ Tail(batch) \in Seq(Result)
  BY <1>1, HeadTailProperties
<1>3. Head(batch).id \in RequestId
  BY <1>2 DEF Result
<1> QED
  BY <1>2, <1>3 DEF Handling, Id, world

\* A result that counts belongs to a request of this episode.
LEMMA KnownGives ==
    ASSUME TypeInv, FateInv, RetiredInv, CancelInv, NEW id \in RequestId, Known(id)
    PROVE  /\ id < submitted /\ id >= cancelledBelow
           /\ id \in requests \/ fate[id] = <<"request_timeout">>
<1>1. CASE id \in requests
  BY <1>1 DEF FateInv, CancelInv
<1>2. CASE id \notin requests
  <2>1. PICK i \in DOMAIN retired : retired[i].id = id /\ retired[i].reason = "request_timeout"
    BY <1>2 DEF Known, RetiredAs
  <2>2. /\ retired[i].id < submitted
        /\ fate[retired[i].id] = <<"request_timeout">> /\ retired[i].id >= cancelledBelow
    BY <2>1 DEF RetiredInv
  <2> QED
    BY <2>1, <2>2
<1> QED
  BY <1>1, <1>2

LEMMA TimeoutThen ==
    ASSUME TypeInv, FateInv, RetiredInv, CancelInv, NEW id \in RequestId, Known(id),
           NEW r \in LateOutcomes
    PROVE  /\ Legal(id, Timeout(id) \o <<r>>)
           /\ id \in requests /\ Late(id) =>
                  Timeout(id) \o <<r>> = <<"request_timeout", r>>
           /\ ~(id \in requests /\ Late(id)) => Timeout(id) \o <<r>> = <<r>>
<1>1. r \in Reasons /\ "request_timeout" \in Reasons
  BY LateReasons
<1>2. id < submitted /\ (id \in requests \/ fate[id] = <<"request_timeout">>)
  BY KnownGives
<1>3. CASE id \in requests /\ Late(id)
  <2>1. Timeout(id) \o <<r>> = <<"request_timeout">> \o <<r>>
    BY <1>3 DEF Timeout
  <2>2. Timeout(id) \o <<r>> = <<"request_timeout", r>>
    BY <1>1, <2>1, Pair
  <2> QED
    BY <1>2, <1>3, <2>2 DEF Legal
<1>4. CASE ~(id \in requests /\ Late(id))
  <2>1. Timeout(id) = <<>>
    BY <1>4 DEF Timeout
  <2>2. <<>> \o <<r>> = <<r>>
    OBVIOUS
  <2>3. Timeout(id) \o <<r>> = <<r>>
    BY <2>1, <2>2
  <2> QED
    BY <1>1, <1>2, <1>4, <2>3 DEF Legal
<1> QED
  BY <1>3, <1>4

\* What a result that retires its request changes, whatever became of it.
LEMMA Collected ==
    ASSUME SchedulerInv, NEW kinds, Handling(kinds), NEW reasons, Legal(Id, reasons),
           Retire(Id, reasons), requests' = requests \ {Id},
           latestAccepted' \in RequestId \cup {-1},
           accepted' \in Seq(RequestId), sampled' \in Seq(RequestId)
    PROVE  /\ TypeInv' /\ FateInv' /\ RetiredInv' /\ CancelInv' /\ ClockInv'
           /\ MeasuredKept /\ Follows(Id, reasons, fate'[Id], reasons[Len(reasons)])
<1>1. /\ Id \in RequestId /\ batch' \in Seq(Result) /\ stage = "polling"
      /\ UNCHANGED <<now, stage, adaptive, clock, submitted, cancelledBelow, polledAt>>
  BY HandlingGives DEF SchedulerInv
<1>2. PICK id : id = Id
  OBVIOUS
<1>3. Legal(id, reasons) /\ Retire(id, reasons) /\ requests' = (requests \ {id}) \cup {}
      /\ submitted' = submitted /\ cancelledBelow' = cancelledBelow
  BY <1>1, <1>2
<1>4. /\ retired' \in Seq(Entry) /\ Len(retired') <= HistorySize
      /\ FateInv' /\ RetiredInv' /\ CancelInv'
      /\ \A x \in RequestId : fate[x] \in Measured => fate'[x] = fate[x]
      /\ Follows(id, reasons, fate'[id], reasons[Len(reasons)])
  BY <1>3, RetireKeeps DEF SchedulerInv
<1>5. TypeInv'
  <2>1. requests' \in SUBSET RequestId /\ (adaptive' => \A a, b \in requests' : a = b)
    BY <1>1 DEF SchedulerInv, TypeInv
  <2> QED
    BY <1>1, <1>4, <2>1 DEF SchedulerInv, TypeInv
<1>6. ClockInv'
  BY <1>1 DEF SchedulerInv, ClockInv
<1> QED
  BY <1>2, <1>4, <1>5, <1>6 DEF MeasuredKept
OnTime == \A i \in DOMAIN accepted' \ DOMAIN accepted : polledAt <= DeadlineOf(accepted'[i])
Silent == /\ \A i \in DOMAIN accepted' \ DOMAIN accepted : accepted'[i] >= cancelledBelow
          /\ \A i \in DOMAIN sampled' \ DOMAIN sampled : sampled'[i] >= cancelledBelow
Kept   == SchedulerInv' /\ OnTime /\ Silent

LEMMA DiscardUnknownKeeps ==
    ASSUME SchedulerInv, DiscardUnknown PROVE Kept
<1>1. /\ batch' \in Seq(Result)
      /\ UNCHANGED <<now, stage, adaptive, clock, submitted, cancelledBelow, polledAt>>
  BY HandlingGives DEF SchedulerInv, DiscardUnknown
<1>2. UNCHANGED <<requests, retired, latestAccepted, fate, accepted, sampled>>
  BY DEF DiscardUnknown, tables
<1>3. TypeInv' /\ FateInv' /\ RetiredInv' /\ CancelInv'
  BY <1>1, <1>2 DEF SchedulerInv, TypeInv, FateInv, RetiredInv, CancelInv
<1>4. AcceptInv' /\ SampleInv' /\ ClockInv'
  BY <1>1, <1>2 DEF SchedulerInv, AcceptInv, SampleInv, Measured, ClockInv
<1> QED
  BY <1>2, <1>3, <1>4 DEF Kept, SchedulerInv, OnTime, Silent

LEMMA DiscardInvalidKeeps ==
    ASSUME SchedulerInv, DiscardInvalid PROVE Kept
<1>1. PICK kinds : kinds = {"invalid_timestamp", "identity_mismatch"}
  OBVIOUS
<1>2. /\ Handling(kinds) /\ Known(Id) /\ Retire(Id, <<Head(batch).kind>>)
      /\ requests' = requests \ {Id} /\ UNCHANGED <<latestAccepted, accepted, sampled>>
  BY <1>1 DEF DiscardInvalid
<1>3. Id \in RequestId /\ Head(batch).kind \in kinds
  BY <1>2, HandlingGives DEF SchedulerInv
<1>4. Id < submitted /\ (Id \in requests \/ fate[Id] = <<"request_timeout">>)
  BY <1>2, <1>3, KnownGives DEF SchedulerInv
<1>5. Legal(Id, <<Head(batch).kind>>)
  <2>1. Head(batch).kind \in LateOutcomes /\ LateOutcomes \subseteq Reasons
    BY <1>1, <1>3, LateReasons DEF LateOutcomes
  <2> QED
    BY <1>3, <1>4, <2>1 DEF Legal
<1>6. /\ TypeInv' /\ FateInv' /\ RetiredInv' /\ CancelInv' /\ ClockInv' /\ MeasuredKept
  BY <1>2, <1>5, Collected DEF SchedulerInv, TypeInv
<1>7. AcceptInv' /\ SampleInv'
  BY <1>2, <1>6, AcceptedKept, SampledKept DEF SchedulerInv
<1> QED
  BY <1>2, <1>6, <1>7 DEF Kept, SchedulerInv, OnTime, Silent

LEMMA CollectFailureKeeps ==
    ASSUME SchedulerInv, CollectFailure PROVE Kept
<1>1. PICK kinds : kinds = {"failure"}
  OBVIOUS
<1>2. /\ Handling(kinds) /\ Known(Id) /\ Retire(Id, Timeout(Id) \o <<"failed">>)
      /\ requests' = requests \ {Id} /\ UNCHANGED <<latestAccepted, accepted, sampled>>
  BY <1>1 DEF CollectFailure
<1>3. Id \in RequestId
  BY <1>2, HandlingGives DEF SchedulerInv
<1>4. Legal(Id, Timeout(Id) \o <<"failed">>)
  <2>1. "failed" \in LateOutcomes
    BY DEF LateOutcomes
  <2> QED
    BY <1>2, <1>3, <2>1, TimeoutThen DEF SchedulerInv
<1>5. /\ TypeInv' /\ FateInv' /\ RetiredInv' /\ CancelInv' /\ ClockInv' /\ MeasuredKept
  BY <1>2, <1>4, Collected DEF SchedulerInv, TypeInv
<1>6. AcceptInv' /\ SampleInv'
  BY <1>2, <1>5, AcceptedKept, SampledKept DEF SchedulerInv
<1> QED
  BY <1>2, <1>5, <1>6 DEF Kept, SchedulerInv, OnTime, Silent

LEMMA CollectLateKeeps ==
    ASSUME SchedulerInv, CollectLate PROVE Kept
<1>1. PICK kinds : kinds = {"prediction"}
  OBVIOUS
<1>2. /\ Handling(kinds) /\ Known(Id) /\ Late(Id)
      /\ Retire(Id, Timeout(Id) \o <<"late_completion">>) /\ Sample(Id)
      /\ requests' = requests \ {Id} /\ UNCHANGED <<latestAccepted, accepted>>
  BY <1>1 DEF CollectLate
<1>3. PICK id \in RequestId : id = Id
  BY <1>2, HandlingGives DEF SchedulerInv
<1>4. id >= cancelledBelow
  BY <1>2, <1>3, KnownGives DEF SchedulerInv
<1>5. PICK reasons : reasons = Timeout(id) \o <<"late_completion">>
  OBVIOUS
<1>6. /\ Legal(id, reasons) /\ (id \in requests => reasons = <<"request_timeout", "late_completion">>)
      /\ (id \notin requests => reasons = <<"late_completion">>)
  <2>1. "late_completion" \in LateOutcomes
    BY DEF LateOutcomes
  <2>2. Known(id) /\ Late(id)
    BY <1>2, <1>3
  <2> QED
    BY <1>5, <2>1, <2>2, TimeoutThen DEF SchedulerInv
<1>7. sampled' \in Seq(RequestId)
  BY <1>2, <1>3 DEF Sample, SchedulerInv, TypeInv
<1>8. /\ TypeInv' /\ FateInv' /\ RetiredInv' /\ CancelInv' /\ ClockInv' /\ MeasuredKept
      /\ Follows(id, reasons, fate'[id], reasons[Len(reasons)])
  <2>1. Legal(Id, reasons) /\ Retire(Id, reasons)
    BY <1>2, <1>3, <1>5, <1>6
  <2> QED
    BY <1>2, <1>3, <1>7, <2>1, Collected DEF SchedulerInv, TypeInv
<1>9. fate[id] \notin Measured /\ fate'[id] = <<"request_timeout", "late_completion">>
  <2>1. CASE id \in requests
    BY <1>6, <1>8, <2>1 DEF Follows
  <2>2. CASE id \notin requests
    <3>1. reasons = <<"late_completion">>
      BY <1>6, <2>2
    <3>2. Len(reasons) = 1 /\ reasons[1] = "late_completion"
      BY <3>1
    <3>3. Follows(id, reasons, fate'[id], "late_completion")
      BY <1>8, <3>2
    <3> QED
      BY <2>2, <3>3 DEF Follows
  <2> QED
    BY <2>1, <2>2
<1>10. /\ SampleInv' /\ \A i \in DOMAIN sampled' \ DOMAIN sampled : sampled'[i] = id
  <2>1. fate'[id] \in Measured /\ Sample(id)
    BY <1>2, <1>3, <1>9 DEF Measured
  <2> QED
    BY <1>8, <1>9, <2>1, SampleKeeps DEF SchedulerInv
<1>11. AcceptInv'
  BY <1>2, <1>8, AcceptedKept DEF SchedulerInv
<1>12. OnTime /\ Silent
  BY <1>2, <1>4, <1>10 DEF OnTime, Silent
<1> QED
  BY <1>8, <1>10, <1>11, <1>12 DEF Kept, SchedulerInv

LEMMA CollectSupersededKeeps ==
    ASSUME SchedulerInv, CollectSuperseded PROVE Kept
<1>1. PICK kinds : kinds = {"prediction"}
  OBVIOUS
<1>2. /\ Handling(kinds) /\ Known(Id) /\ ~Late(Id) /\ Retire(Id, <<"completed">>)
      /\ requests' = requests \ {Id} /\ UNCHANGED <<latestAccepted, accepted, sampled>>
  BY <1>1 DEF CollectSuperseded
<1>3. Id \in RequestId
  BY <1>2, HandlingGives DEF SchedulerInv
<1>4. Legal(Id, <<"completed">>)
  <2>1. Id \in requests /\ Id < submitted
    BY <1>2, <1>3, KnownGives DEF SchedulerInv, Late
  <2>2. "completed" \in Reasons
    BY DEF Reasons
  <2> QED
    BY <1>3, <2>1, <2>2 DEF Legal
<1>5. /\ TypeInv' /\ FateInv' /\ RetiredInv' /\ CancelInv' /\ ClockInv' /\ MeasuredKept
  BY <1>2, <1>4, Collected DEF SchedulerInv, TypeInv
<1>6. AcceptInv' /\ SampleInv'
  BY <1>2, <1>5, AcceptedKept, SampledKept DEF SchedulerInv
<1> QED
  BY <1>2, <1>5, <1>6 DEF Kept, SchedulerInv, OnTime, Silent

LEMMA CollectCompletedKeeps ==
    ASSUME SchedulerInv, NEW taken \in BOOLEAN, CollectCompleted(taken) PROVE Kept
<1>1. PICK kinds : kinds = {"prediction"}
  OBVIOUS
<1>2. /\ Handling(kinds) /\ Known(Id) /\ ~Late(Id) /\ ~Superseded(Id)
      /\ Retire(Id, <<"completed">>) /\ Sample(Id) /\ requests' = requests \ {Id}
      /\ latestAccepted' = (IF taken THEN Id ELSE latestAccepted)
      /\ accepted' = (IF taken THEN Append(accepted, Id) ELSE accepted)
  BY <1>1 DEF CollectCompleted
<1>3. PICK id \in RequestId : id = Id /\ stage = "polling"
  BY <1>2, HandlingGives DEF SchedulerInv
<1>4. id >= cancelledBelow /\ id < submitted /\ id \in requests /\ ~(now > DeadlineOf(id))
      /\ ~(id <= latestAccepted)
  BY <1>2, <1>3, KnownGives DEF SchedulerInv, Late, Superseded
<1>5. /\ id \in Int /\ latestAccepted \in Int /\ now \in Int /\ DeadlineOf(id) \in Int
  BY <1>3, SchedulerAssumption DEF SchedulerInv, TypeInv, RequestId, DeadlineOf
<1>6. Legal(id, <<"completed">>)
  <2>1. "completed" \in Reasons
    BY DEF Reasons
  <2> QED
    BY <1>4, <2>1 DEF Legal
<1>7. sampled' \in Seq(RequestId) /\ accepted' \in Seq(RequestId)
      /\ latestAccepted' \in RequestId \cup {-1}
  BY <1>2, <1>3 DEF Sample, SchedulerInv, TypeInv
<1>8. /\ TypeInv' /\ FateInv' /\ RetiredInv' /\ CancelInv' /\ ClockInv' /\ MeasuredKept
      /\ Follows(id, <<"completed">>, fate'[id], <<"completed">>[Len(<<"completed">>)])
  BY <1>2, <1>3, <1>6, <1>7, Collected
<1>9. fate[id] \notin Measured /\ fate'[id] = <<"completed">>
  BY <1>4, <1>8 DEF Follows
<1>10. SampleInv' /\ \A i \in DOMAIN sampled' \ DOMAIN sampled : sampled'[i] = id
  <2>1. fate'[id] \in Measured /\ Sample(id)
    BY <1>2, <1>3, <1>9 DEF Measured
  <2> QED
    BY <1>8, <1>9, <2>1, SampleKeeps DEF SchedulerInv
<1>11. AcceptInv' /\ \A i \in DOMAIN accepted' \ DOMAIN accepted : accepted'[i] = id
  <2>1. CASE taken
    <3>1. latestAccepted' = id /\ accepted' = Append(accepted, id) /\ id > latestAccepted
      BY <1>2, <1>3, <1>4, <1>5, <2>1
    <3> QED
      BY <1>8, <1>9, <3>1, AcceptKeeps DEF SchedulerInv
  <2>2. CASE ~taken
    BY <1>2, <1>8, <2>2, AcceptedKept DEF SchedulerInv
  <2> QED
    BY <2>1, <2>2
<1>12. polledAt <= DeadlineOf(id)
  BY <1>3, <1>4, <1>5 DEF SchedulerInv, ClockInv
<1>13. OnTime /\ Silent
  BY <1>4, <1>10, <1>11, <1>12 DEF OnTime, Silent
<1> QED
  BY <1>8, <1>10, <1>11, <1>13 DEF Kept, SchedulerInv
\* Steps that touch neither the tables nor the log.
LEMMA OtherStepsKeep ==
    ASSUME SchedulerInv,
           \/ BeginTick \/ (\E results \in Batches : Poll(results)) \/ EndPoll \/ Skip
           \/ TimePasses \/ UNCHANGED vars
    PROVE  Kept
<1>1. UNCHANGED <<requests, retired, latestAccepted, adaptive, submitted, fate, accepted,
                  sampled, cancelledBelow>>
  BY DEF BeginTick, Poll, EndPoll, Skip, TimePasses, vars, tables, position, world, log
<1>2. now \in Nat /\ clock \in Nat /\ polledAt \in Nat
  BY DEF SchedulerInv, TypeInv
<1>3. /\ now' \in Nat /\ clock' \in Nat /\ polledAt' \in Nat
      /\ stage' \in {"out", "ticking", "polling", "polled"} /\ batch' \in Seq(Result) /\ ClockInv'
  <2>1. CASE BeginTick
    BY <1>2, <2>1 DEF BeginTick, tables, world, log, SchedulerInv, TypeInv, ClockInv
  <2>2. CASE \E results \in Batches : Poll(results)
    <3>1. PICK results \in Batches : Poll(results)
      BY <2>2
    <3>2. PICK n \in Nat : results \in [1 .. n -> Result]
      BY <3>1, SchedulerAssumption DEF Batches
    <3>3. results \in Seq(Result)
      BY <3>2, SeqDef
    <3> QED
      BY <1>2, <3>1, <3>3 DEF Poll, Refreshed, tables, world, ClockInv
  <2>3. CASE EndPoll
    BY <1>2, <2>3 DEF EndPoll, tables, world, SchedulerInv, TypeInv, ClockInv
  <2>4. CASE Skip
    BY <1>2, <2>4 DEF Skip, tables, world, log, SchedulerInv, TypeInv, ClockInv
  <2>5. CASE TimePasses
    BY <1>2, <2>5 DEF TimePasses, tables, position, log, SchedulerInv, TypeInv, ClockInv
  <2>6. CASE UNCHANGED vars
    BY <1>2, <2>6 DEF vars, tables, position, world, log, SchedulerInv, TypeInv, ClockInv
  <2> QED
    BY <2>1, <2>2, <2>3, <2>4, <2>5, <2>6
<1>4. TypeInv' /\ FateInv' /\ RetiredInv' /\ CancelInv'
  BY <1>1, <1>3 DEF SchedulerInv, TypeInv, FateInv, RetiredInv, CancelInv
<1>5. AcceptInv' /\ SampleInv'
  BY <1>1 DEF SchedulerInv, AcceptInv, SampleInv, Measured
<1> QED
  BY <1>1, <1>3, <1>4, <1>5 DEF Kept, SchedulerInv, OnTime, Silent

LEMMA ExpireKeeps ==
    ASSUME SchedulerInv, NEW id \in requests, Expire(id) PROVE Kept
<1>1. /\ Retire(id, <<"request_timeout">>) /\ requests' = (requests \ {id}) \cup {}
      /\ UNCHANGED <<latestAccepted, now, stage, batch, adaptive, clock, submitted, accepted,
                     sampled, cancelledBelow, polledAt>>
  BY DEF Expire, position, world
<1>2. Legal(id, <<"request_timeout">>)
  BY LateReasons DEF Legal, SchedulerInv, TypeInv, FateInv
<1>3. /\ retired' \in Seq(Entry) /\ Len(retired') <= HistorySize
      /\ FateInv' /\ RetiredInv' /\ CancelInv'
      /\ \A x \in RequestId : fate[x] \in Measured => fate'[x] = fate[x]
  BY <1>1, <1>2, RetireKeeps DEF SchedulerInv
<1>4. TypeInv' /\ ClockInv'
  BY <1>1, <1>3 DEF SchedulerInv, TypeInv, ClockInv
<1>5. AcceptInv' /\ SampleInv'
  BY <1>1, <1>3, AcceptedKept, SampledKept DEF SchedulerInv, MeasuredKept
<1> QED
  BY <1>1, <1>3, <1>4, <1>5 DEF Kept, SchedulerInv, OnTime, Silent

LEMMA SubmitKeeps ==
    ASSUME SchedulerInv, NEW replaced,
           replaced = {} \/ \E id \in 0 .. submitted - 1 : replaced = {id}, Submit(replaced)
    PROVE  Kept
<1>1. /\ submitted < MaxRequests /\ submitted' = submitted + 1 /\ stage' = "out"
      /\ adaptive => requests = {}
      /\ requests' = (requests \cup {submitted}) \ replaced
      /\ UNCHANGED <<latestAccepted, now, batch, adaptive, clock, accepted, sampled,
                     cancelledBelow, polledAt>>
  BY DEF Submit, MaySubmit
<1>2. submitted \in Nat /\ submitted' \in 0 .. MaxRequests /\ cancelledBelow \in Nat
      /\ submitted \in RequestId
  <2>1. submitted \in Nat /\ cancelledBelow \in Nat
    BY SchedulerAssumption DEF SchedulerInv, TypeInv
  <2> QED
    BY <1>1, <2>1, SchedulerAssumption DEF RequestId
<1>3. \A x \in RequestId : x \in Nat
  BY SchedulerAssumption DEF RequestId
<1>4. /\ retired' \in Seq(Entry) /\ Len(retired') <= HistorySize
      /\ FateInv' /\ RetiredInv' /\ CancelInv' /\ MeasuredKept
  <2>1. CASE replaced \cap requests = {}
    <3>1. UNCHANGED <<retired, fate>>
      BY <2>1 DEF Submit
    <3>2. requests' = requests \cup {submitted}
      <4>1. submitted \notin replaced
        BY <1>2
      <4> QED
        BY <1>1, <2>1, <4>1
    <3>3. retired' \in Seq(Entry) /\ Len(retired') <= HistorySize /\ MeasuredKept
      BY <3>1 DEF SchedulerInv, TypeInv, MeasuredKept
    <3>4. FateInv'
      <4>1. ASSUME NEW x \in requests' PROVE x < submitted' /\ fate'[x] = <<>>
        <5>1. CASE x \in requests
          BY <1>1, <1>2, <1>3, <3>1, <5>1 DEF SchedulerInv, TypeInv, FateInv
        <5>2. CASE x = submitted
          BY <1>1, <1>2, <3>1, <5>2 DEF SchedulerInv, FateInv
        <5> QED
          BY <3>2, <5>1, <5>2
      <4>2. ASSUME NEW x \in RequestId, x >= submitted' PROVE fate'[x] = <<>>
        BY <1>1, <1>2, <1>3, <3>1, <4>2 DEF SchedulerInv, FateInv
      <4>3. ASSUME NEW x \in RequestId, x \notin requests', x < submitted'
            PROVE  \/ \E r \in Reasons : fate'[x] = <<r>>
                   \/ \E r \in LateOutcomes : fate'[x] = <<"request_timeout", r>>
        <5>1. x \notin requests /\ x < submitted
          BY <1>1, <1>2, <1>3, <3>2, <4>3
        <5> QED
          BY <3>1, <5>1 DEF SchedulerInv, FateInv
      <4> QED
        BY <3>1, <4>1, <4>2, <4>3 DEF SchedulerInv, FateInv
    <3>5. RetiredInv'
      <4>1. ASSUME NEW i \in DOMAIN retired
            PROVE  retired[i].id < submitted' /\ retired[i].id \notin requests'
        <5>1. retired[i] \in Entry
          BY Sized DEF SchedulerInv, TypeInv
        <5>2. PICK x \in RequestId : x = retired[i].id
          BY <5>1 DEF Entry
        <5>3. x \in Nat /\ x < submitted /\ x \notin requests
          BY <1>3, <5>2 DEF SchedulerInv, RetiredInv
        <5> QED
          BY <1>1, <1>2, <3>2, <5>2, <5>3
      <4> QED
        BY <1>1, <3>1, <4>1 DEF SchedulerInv, RetiredInv
    <3>6. CancelInv'
      BY <1>1, <1>2, <3>2 DEF SchedulerInv, CancelInv
    <3> QED
      BY <3>3, <3>4, <3>5, <3>6
  <2>2. CASE replaced \cap requests # {}
    <3>1. PICK id \in requests : replaced = {id} /\ id # submitted /\ id < submitted
      <4>1. PICK id \in 0 .. submitted - 1 : replaced = {id}
        BY <2>2
      <4>2. id \in requests /\ id # submitted /\ id < submitted
        BY <1>2, <2>2, <4>1
      <4> QED
        BY <4>1, <4>2
    <3>2. Retire(id, <<"mailbox_replaced">>)
      BY <2>2, <3>1 DEF Submit
    <3>3. requests' = (requests \ {id}) \cup {submitted}
      BY <1>1, <3>1
    <3>4. Legal(id, <<"mailbox_replaced">>)
      <4>1. "mailbox_replaced" \in Reasons
        BY DEF Reasons
      <4> QED
        BY <3>1, <4>1 DEF Legal, SchedulerInv, TypeInv
    <3> QED
      BY <1>1, <3>2, <3>3, <3>4, RetireKeeps DEF SchedulerInv, MeasuredKept
  <2> QED
    BY <2>1, <2>2
<1>5. TypeInv'
  <2>1. requests' \in SUBSET RequestId
    BY <1>1, <1>2 DEF SchedulerInv, TypeInv
  <2>2. adaptive' => \A a, b \in requests' : a = b
    BY <1>1
  <2> QED
    BY <1>1, <1>2, <1>4, <2>1, <2>2 DEF SchedulerInv, TypeInv
<1>6. AcceptInv' /\ SampleInv' /\ ClockInv'
  BY <1>1, <1>4, AcceptedKept, SampledKept DEF SchedulerInv, ClockInv
<1> QED
  BY <1>1, <1>4, <1>5, <1>6 DEF Kept, SchedulerInv, OnTime, Silent
\* The history cancel_episode() leaves: nothing in it can be claimed.
LEMMA HistoryCancelled ==
    ASSUME SchedulerInv, CancelEpisode
    PROVE  /\ retired' \in Seq(Entry) /\ Len(retired') <= HistorySize
           /\ \A i, j \in DOMAIN retired' : retired'[i].id = retired'[j].id => i = j
           /\ \A i \in DOMAIN retired' :
                  retired'[i].id < submitted /\ retired'[i].reason # "request_timeout"
<1>1. PICK c \in Nat : c = Cardinality(requests)
  BY InOrderProperties DEF SchedulerInv, TypeInv
<1>2. PICK order : order = InOrder(requests)
  OBVIOUS
<1>3. /\ order \in [1 .. c -> requests]
      /\ \A i, j \in 1 .. c : i < j => order[i] < order[j]
  BY <1>1, <1>2, InOrderProperties DEF SchedulerInv, TypeInv
<1>4. \A x \in requests : x \in RequestId /\ x \in Nat /\ x < submitted
  BY SchedulerAssumption DEF SchedulerInv, TypeInv, FateInv, RequestId
<1>5. ASSUME NEW i \in 1 .. c, NEW j \in 1 .. c, order[i] = order[j]
      PROVE  i = j
  <2>1. order[i] \in Nat /\ order[j] \in Nat
    BY <1>3, <1>4
  <2>2. ~(order[i] < order[j]) /\ ~(order[j] < order[i])
    BY <1>5, <2>1
  <2> QED
    BY <1>3, <2>2
<1>6. PICK entries : entries = [i \in 1 .. c |-> [id |-> order[i], reason |-> "episode_cancelled"]]
  OBVIOUS
<1>7. /\ entries \in Seq(Entry) /\ Len(entries) = c
      /\ \A i \in 1 .. c : entries[i].id = order[i] /\ entries[i].reason = "episode_cancelled"
  <2>1. \A i \in 1 .. c : [id |-> order[i], reason |-> "episode_cancelled"] \in Entry
    BY <1>3, <1>4 DEF Entry, Reasons
  <2>2. entries \in [1 .. c -> Entry]
    BY <1>6, <2>1
  <2>3. entries \in Seq(Entry) /\ Len(entries) = c
    BY <2>2, SeqDef
  <2> QED
    BY <1>6, <2>3
<1>8. PICK all : all = retired \o entries
  OBVIOUS
<1>9. PICK n \in Nat : n = Len(retired) /\ DOMAIN retired = 1 .. n
                       /\ \A i \in 1 .. n : retired[i] \in Entry
  BY Sized DEF SchedulerInv, TypeInv
<1>10. /\ all \in Seq(Entry) /\ DOMAIN all = 1 .. n + c
       /\ \A i \in 1 .. n + c : all[i] = IF i <= n THEN retired[i] ELSE entries[i - n]
  <2>1. retired \in Seq(Entry) /\ entries \in Seq(Entry)
    BY <1>7 DEF SchedulerInv, TypeInv
  <2>2. /\ all \in Seq(Entry) /\ Len(all) = Len(retired) + Len(entries)
        /\ \A i \in 1 .. Len(retired) + Len(entries) :
               all[i] = IF i <= Len(retired) THEN retired[i] ELSE entries[i - Len(retired)]
    BY <1>8, <2>1, ConcatProperties
  <2> QED
    BY <1>7, <1>9, <2>2
<1>11. ASSUME NEW i \in 1 .. n + c
       PROVE  \/ i \in 1 .. n /\ all[i] = retired[i]
              \/ \E k \in 1 .. c : i = k + n /\ all[i] = entries[k]
  <2>1. CASE i <= n
    BY <1>10, <2>1
  <2>2. CASE ~(i <= n)
    <3>1. PICK k \in 1 .. c : k = i - n /\ i = k + n
      BY <2>2
    <3> QED
      BY <1>10, <2>2, <3>1
  <2> QED
    BY <2>1, <2>2
<1>12. ASSUME NEW i \in 1 .. n PROVE retired[i].id \notin requests /\ retired[i].id < submitted
  BY <1>9 DEF SchedulerInv, RetiredInv
<1>13. ASSUME NEW i \in 1 .. n + c PROVE all[i] \in Entry /\ all[i].id < submitted
  BY <1>3, <1>4, <1>7, <1>10, <1>11, <1>12, Sized
<1>14. ASSUME NEW i \in 1 .. n + c, NEW j \in 1 .. n + c, all[i].id = all[j].id
       PROVE  i = j
  <2>1. CASE i \in 1 .. n /\ all[i] = retired[i] /\ j \in 1 .. n /\ all[j] = retired[j]
    BY <1>9, <1>14, <2>1 DEF SchedulerInv, RetiredInv
  <2>2. CASE i \in 1 .. n /\ all[i] = retired[i] /\ \E k \in 1 .. c : j = k + n /\ all[j] = entries[k]
    BY <1>3, <1>7, <1>12, <1>14, <2>2
  <2>3. CASE j \in 1 .. n /\ all[j] = retired[j] /\ \E k \in 1 .. c : i = k + n /\ all[i] = entries[k]
    BY <1>3, <1>7, <1>12, <1>14, <2>3
  <2>4. CASE /\ \E k \in 1 .. c : i = k + n /\ all[i] = entries[k]
             /\ \E k \in 1 .. c : j = k + n /\ all[j] = entries[k]
    BY <1>5, <1>7, <1>14, <2>4
  <2> QED
    BY <1>11, <2>1, <2>2, <2>3, <2>4
<1>15. PICK d \in Nat : d = Dropped(all)
  BY <1>10, TrimmedProperties
<1>16. PICK history : history = Trimmed(all)
  OBVIOUS
<1>17. /\ history \in Seq(Entry) /\ Len(history) <= HistorySize
       /\ \A i \in DOMAIN history : i + d \in 1 .. n + c /\ history[i] = all[i + d]
  BY <1>10, <1>15, <1>16, TrimmedProperties
<1>18. PICK m \in Nat : m = Len(history) /\ DOMAIN history = 1 .. m
  BY <1>17, Sized
<1>19. retired' = [i \in 1 .. m |-> Relabelled(history[i])]
  BY <1>1, <1>2, <1>6, <1>8, <1>16, <1>18 DEF CancelEpisode
<1>20. ASSUME NEW entry \in Entry
       PROVE  /\ Relabelled(entry) \in Entry /\ Relabelled(entry).id = entry.id
              /\ Relabelled(entry).reason # "request_timeout"
  BY DEF Relabelled, Entry, Reasons
<1>21. /\ retired' \in Seq(Entry) /\ Len(retired') = m /\ DOMAIN retired' = 1 .. m
  <2>1. \A i \in 1 .. m : Relabelled(history[i]) \in Entry
    BY <1>17, <1>18, <1>20, Sized
  <2>2. retired' \in [1 .. m -> Entry]
    BY <1>19, <2>1
  <2> QED
    BY <2>2, SeqDef
<1>22. ASSUME NEW i \in 1 .. m
       PROVE  \E u \in 1 .. n + c : /\ u = i + d /\ retired'[i].id = all[u].id
                                    /\ retired'[i].reason # "request_timeout"
  <2>1. PICK u \in 1 .. n + c : u = i + d /\ history[i] = all[u]
    BY <1>17, <1>18
  <2>2. retired'[i] = Relabelled(all[u])
    BY <1>19, <2>1
  <2> QED
    BY <1>13, <1>20, <2>1, <2>2
<1>23. ASSUME NEW i \in 1 .. m, NEW j \in 1 .. m, retired'[i].id = retired'[j].id
       PROVE  i = j
  <2>1. PICK u \in 1 .. n + c : u = i + d /\ retired'[i].id = all[u].id
    BY <1>22
  <2>2. PICK v \in 1 .. n + c : v = j + d /\ retired'[j].id = all[v].id
    BY <1>22
  <2>3. u = v
    BY <1>14, <1>23, <2>1, <2>2
  <2> QED
    BY <2>1, <2>2, <2>3
<1>24. ASSUME NEW i \in 1 .. m
       PROVE  retired'[i].id < submitted /\ retired'[i].reason # "request_timeout"
  BY <1>13, <1>22
<1> QED
  BY <1>17, <1>18, <1>21, <1>23, <1>24

LEMMA CancelEpisodeKeeps ==
    ASSUME SchedulerInv, CancelEpisode PROVE Kept
<1>1. /\ requests' = {} /\ stage' = "out" /\ cancelledBelow' = submitted
      /\ fate' = [id \in RequestId |-> IF id \in requests THEN Append(fate[id], "episode_cancelled")
                                       ELSE fate[id]]
      /\ UNCHANGED <<latestAccepted, now, batch, adaptive, clock, submitted, accepted, sampled,
                     polledAt>>
  BY DEF CancelEpisode, world
<1>2. "episode_cancelled" \in Reasons
  BY DEF Reasons
<1>3. \A id \in requests : id \in RequestId /\ fate[id] = <<>> /\ id < submitted
  BY DEF SchedulerInv, TypeInv, FateInv
<1>4. ASSUME NEW id \in requests PROVE fate'[id] = <<"episode_cancelled">>
  <2>1. fate'[id] = Append(<<>>, "episode_cancelled")
    BY <1>1, <1>3
  <2>2. \A x \in Reasons : Append(<<>>, x) = <<x>>
    OBVIOUS
  <2> QED
    BY <1>2, <2>1, <2>2
<1>5. \A id \in RequestId \ requests : fate'[id] = fate[id]
  BY <1>1
<1>6. submitted \in Nat /\ \A id \in RequestId : id \in Nat
  BY SchedulerAssumption DEF SchedulerInv, TypeInv, RequestId
<1>7. FateInv'
  <2>1. fate' \in [RequestId -> Seq(Reasons)]
    <3>1. <<"episode_cancelled">> \in Seq(Reasons)
      BY <1>2
    <3>2. \A id \in RequestId : fate[id] \in Seq(Reasons)
      BY DEF SchedulerInv, FateInv
    <3>3. \A id \in RequestId : fate'[id] \in Seq(Reasons)
      BY <1>4, <1>5, <3>1, <3>2
    <3> QED
      BY <1>1, <3>3
  <2>2. ASSUME NEW id \in RequestId, id >= submitted' PROVE fate'[id] = <<>>
    <3>1. id \notin requests
      BY <1>1, <1>3, <1>6, <2>2
    <3> QED
      BY <1>1, <1>5, <2>2, <3>1 DEF SchedulerInv, FateInv
  <2>3. ASSUME NEW id \in RequestId, id < submitted'
        PROVE  \/ \E r \in Reasons : fate'[id] = <<r>>
               \/ \E r \in LateOutcomes : fate'[id] = <<"request_timeout", r>>
    <3>1. CASE id \in requests
      BY <1>2, <1>4, <3>1
    <3>2. CASE id \notin requests
      BY <1>1, <1>5, <2>3, <3>2 DEF SchedulerInv, FateInv
    <3> QED
      BY <3>1, <3>2
  <2> QED
    BY <1>1, <2>1, <2>2, <2>3 DEF FateInv
<1>8. /\ retired' \in Seq(Entry) /\ Len(retired') <= HistorySize
      /\ \A i, j \in DOMAIN retired' : retired'[i].id = retired'[j].id => i = j
      /\ \A i \in DOMAIN retired' :
             retired'[i].id < submitted /\ retired'[i].reason # "request_timeout"
  BY HistoryCancelled
<1>9. TypeInv' /\ RetiredInv' /\ CancelInv' /\ ClockInv'
  <2>1. TypeInv'
    BY <1>1, <1>8 DEF SchedulerInv, TypeInv
  <2>2. RetiredInv'
    BY <1>1, <1>8 DEF RetiredInv
  <2>3. CancelInv' /\ ClockInv'
    BY <1>1, <1>6 DEF CancelInv, ClockInv
  <2> QED
    BY <2>1, <2>2, <2>3
<1>10. MeasuredKept
  <2>1. \A id \in requests : fate[id] \notin Measured
    BY <1>3 DEF Measured
  <2> QED
    BY <1>5, <2>1 DEF MeasuredKept
<1>11. AcceptInv' /\ SampleInv'
  BY <1>1, <1>10, AcceptedKept, SampledKept DEF SchedulerInv
<1> QED
  BY <1>1, <1>7, <1>9, <1>11 DEF Kept, SchedulerInv, OnTime, Silent
----------------------------------------------------------------------------
LEMMA InitHolds == Init => SchedulerInv
<1> SUFFICES ASSUME Init PROVE SchedulerInv
  OBVIOUS
<1>1. retired = <<>> /\ accepted = <<>> /\ sampled = <<>> /\ batch = <<>> /\ requests = {}
  BY DEF Init
<1>2. TypeInv
  BY <1>1, SchedulerAssumption DEF Init, TypeInv, Entry
<1>3. FateInv
  <2>1. fate \in [RequestId -> Seq(Reasons)] /\ \A id \in RequestId : fate[id] = <<>>
    BY DEF Init
  <2>2. submitted = 0 /\ \A id \in RequestId : ~(id < 0)
    BY SchedulerAssumption DEF Init, RequestId
  <2> QED
    BY <1>1, <2>1, <2>2 DEF FateInv
<1>4. RetiredInv /\ CancelInv /\ AcceptInv /\ SampleInv /\ ClockInv
  BY <1>1 DEF Init, RetiredInv, CancelInv, AcceptInv, SampleInv, ClockInv
<1> QED
  BY <1>2, <1>3, <1>4 DEF SchedulerInv

LEMMA StepKeeps == SchedulerInv /\ [Next]_vars => Kept
<1> SUFFICES ASSUME SchedulerInv, [Next]_vars PROVE Kept
  OBVIOUS
<1>1. CASE \/ BeginTick \/ (\E results \in Batches : Poll(results)) \/ EndPoll \/ Skip
           \/ TimePasses \/ UNCHANGED vars
  BY <1>1, OtherStepsKeep
<1>2. CASE Collect
  <2>1. CASE DiscardUnknown
    BY <2>1, DiscardUnknownKeeps
  <2>2. CASE DiscardInvalid
    BY <2>2, DiscardInvalidKeeps
  <2>3. CASE CollectFailure
    BY <2>3, CollectFailureKeeps
  <2>4. CASE CollectLate
    BY <2>4, CollectLateKeeps
  <2>5. CASE CollectSuperseded
    BY <2>5, CollectSupersededKeeps
  <2>6. CASE \E taken \in BOOLEAN : CollectCompleted(taken)
    BY <2>6, CollectCompletedKeeps
  <2> QED
    BY <1>2, <2>1, <2>2, <2>3, <2>4, <2>5, <2>6 DEF Collect
<1>3. CASE \E id \in requests : Expire(id)
  BY <1>3, ExpireKeeps
<1>4. CASE \E replaced \in {{}} \cup {{id} : id \in 0 .. submitted - 1} : Submit(replaced)
  BY <1>4, SubmitKeeps
<1>5. CASE CancelEpisode
  BY <1>5, CancelEpisodeKeeps
<1> QED
  BY <1>1, <1>2, <1>3, <1>4, <1>5 DEF Next

LEMMA Inductive == Spec => []SchedulerInv
<1>1. SchedulerInv /\ [Next]_vars => SchedulerInv'
  BY StepKeeps DEF Kept
<1> QED
  BY <1>1, InitHolds, PTL DEF Spec

(***************************************************************************)
(* Types; the history stays bounded, and an adaptive worker has at most    *)
(* one live logical request (worker_async.py:62-67, 102-110).              *)
(***************************************************************************)
THEOREM TypeCorrect == Spec => []TypeOK
<1>1. SchedulerInv => TypeOK
  <2> SUFFICES ASSUME SchedulerInv PROVE TypeOK
    OBVIOUS
  <2>1. adaptive => Cardinality(requests) <= 1
    <3> SUFFICES ASSUME adaptive PROVE Cardinality(requests) <= 1
      OBVIOUS
    <3>1. \A a, b \in requests : a = b
      BY DEF SchedulerInv, TypeInv
    <3>2. CASE requests = {}
      <4>1. Cardinality(requests) = 0
        BY <3>2, FS_EmptySet
      <4> QED
        BY <4>1
    <3>3. CASE requests # {}
      <4>1. PICK x : requests = {x}
        BY <3>1, <3>3
      <4>2. Cardinality(requests) = 1
        BY <4>1, FS_Singleton
      <4> QED
        BY <4>2
    <3> QED
      BY <3>2, <3>3
  <2> QED
    BY <2>1 DEF SchedulerInv, TypeInv, FateInv, TypeOK, Entry
<1> QED
  BY <1>1, Inductive, PTL

(***************************************************************************)
(* A request is live until it is retired, once; only a timed-out request   *)
(* is retired again, once, when its outcome comes late                     *)
(* (worker_async.py:127-136, 170-172, 189).                                *)
(***************************************************************************)
THEOREM RetiredOnce == Spec => []Lifecycle
<1>1. SchedulerInv => Lifecycle
  <2> SUFFICES ASSUME SchedulerInv, NEW id \in RequestId
               PROVE  /\ Len(fate[id]) <= 2
                      /\ Len(fate[id]) = 2 =>
                             /\ fate[id][1] = "request_timeout"
                             /\ fate[id][2] \in {"late_completion", "failed", "invalid_timestamp",
                                                 "identity_mismatch"}
                      /\ id \in requests => fate[id] = <<>>
                      /\ id < submitted /\ id \notin requests => fate[id] # <<>>
    BY DEF Lifecycle
  <2>1. \/ fate[id] = <<>> /\ (id \in requests \/ ~(id < submitted))
        \/ (\E r \in Reasons : fate[id] = <<r>>) /\ id \notin requests
        \/ (\E r \in LateOutcomes : fate[id] = <<"request_timeout", r>>) /\ id \notin requests
    <3>1. id \in Nat /\ submitted \in Nat
      BY SchedulerAssumption DEF SchedulerInv, TypeInv, RequestId
    <3>2. id < submitted \/ id >= submitted
      BY <3>1
    <3> QED
      BY <3>2 DEF SchedulerInv, FateInv
  <2>2. CASE fate[id] = <<>> /\ (id \in requests \/ ~(id < submitted))
    BY <2>2
  <2>3. CASE (\E r \in Reasons : fate[id] = <<r>>) /\ id \notin requests
    BY <2>3
  <2>4. CASE (\E r \in LateOutcomes : fate[id] = <<"request_timeout", r>>) /\ id \notin requests
    BY <2>4 DEF LateOutcomes
  <2> QED
    BY <2>1, <2>2, <2>3, <2>4
<1> QED
  BY <1>1, Inductive, PTL

(***************************************************************************)
(* The chunks given to the ActionBuffer come from ever newer observations, *)
(* each from a request that completed and nothing else                     *)
(* (worker_async.py:196-216).                                              *)
(***************************************************************************)
THEOREM AcceptsNewerOnly == Spec => []AcceptedInOrder
<1>1. SchedulerInv => AcceptedInOrder
  BY DEF SchedulerInv, AcceptInv, AcceptedInOrder
<1> QED
  BY <1>1, Inductive, PTL

(***************************************************************************)
(* A request enters the latency estimate at most once, late or not, even   *)
(* if its result is delivered again (docs/WORKER_ADAPTIVE.md:50).          *)
(***************************************************************************)
THEOREM MeasuredOnce == Spec => []SampledOnce
<1>1. SchedulerInv => SampledOnce
  BY DEF SchedulerInv, SampleInv, SampledOnce
<1> QED
  BY <1>1, Inductive, PTL

(***************************************************************************)
(* A chunk is accepted only if its deadline had not passed when the        *)
(* backend's poll() returned it (worker_async.py:120-122, 170).            *)
(***************************************************************************)
THEOREM NothingAcceptedLate == Spec => AcceptedOnTime
<1>1. SchedulerInv /\ [Next]_vars => OnTime
  BY StepKeeps DEF Kept
<1>2. [][OnTime]_vars => AcceptedOnTime
  BY PTL DEF AcceptedOnTime, OnTime
<1> QED
  BY <1>1, <1>2, Inductive, PTL DEF Spec

(***************************************************************************)
(* Results of a cancelled episode are neither executed nor measured, also  *)
(* those of requests that had timed out (worker_async.py:249-252).         *)
(***************************************************************************)
THEOREM CancelledResultsIgnored == Spec => CancelledStaysSilent
<1>1. SchedulerInv /\ [Next]_vars => Silent
  BY StepKeeps DEF Kept
<1>2. [][Silent]_vars => CancelledStaysSilent
  BY PTL DEF CancelledStaysSilent, Silent
<1> QED
  BY <1>1, <1>2, Inductive, PTL DEF Spec
============================================================================
