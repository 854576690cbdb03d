-------------------------- MODULE TrackerOpsProofs --------------------------
(***************************************************************************)
(* Lemmas about the operations on a tracker record, used by the proofs     *)
(* about one pair (TrackerProofs) and about the registry (RegistryProofs). *)
(***************************************************************************)
EXTENDS TrackerOps, FiniteSetTheorems, TLAPS

\* shouldDrop's decision never wraps: for two uint64 estimates it answers true
\* exactly when the growth, taken over the integers, exceeds the limit.
THEOREM DecisionExact ==
  ASSUME NEW curr \in 0 .. Word - 1, NEW prev \in 0 .. Word - 1, NEW limit \in Nat
  PROVE  OverLimit(curr, prev, limit) <=> curr > prev + limit
  BY WordAssumption DEF OverLimit, Minus

\* Counting on by one moves a remainder on by one, unless it starts afresh.
LEMMA RemainderStep ==
  ASSUME NEW m \in Nat \ {0}, NEW n \in Nat, (n + 1) % m # 0
  PROVE  (n + 1) % m = (n % m) + 1
<1> DEFINE q == n \div m
           r == n % m
           p == (n + 1) \div m
           s == (n + 1) % m
<1>1. /\ q \in Int /\ r \in 0 .. m - 1 /\ n = m * q + r
      /\ p \in Int /\ s \in 0 .. m - 1 /\ n + 1 = m * p + s
  BY SMTT(30)
<1> HIDE DEF q, r, p, s
<1>2. p >= q
  <2> SUFFICES ASSUME p + 1 <= q PROVE FALSE
    BY <1>1
  <2>1. m * (p + 1) <= m * q
    BY <1>1, SMTT(30)
  <2> QED
    BY <1>1, <2>1, SMTT(30)
<1>3. p <= q
  <2> SUFFICES ASSUME p >= q + 1 PROVE FALSE
    BY <1>1
  <2>1. m * p >= m * (q + 1)
    BY <1>1, SMTT(30)
  <2>2. m * p >= m * q + m
    BY <1>1, <2>1, SMTT(30)
  <2>3. s = 0
    BY <1>1, <2>2, SMTT(30)
  <2> QED
    BY <2>3 DEF s
<1>4. p = q
  BY <1>1, <1>2, <1>3
<1>5. m * p = m * q
  BY <1>4
<1>6. s = r + 1
  BY <1>1, <1>5
<1> QED
  BY <1>6 DEF s, r

\* An insert that does not refresh the cache lets it fall one more hash behind;
\* the cache is never EstimateInterval hashes behind.
LEMMA LagGrows ==
  ASSUME NEW n \in Nat
  PROVE  /\ Lag(n) \in 0 .. EstimateInterval - 1
         /\ ~RefreshDue(n + 1) => Lag(n) + 1 <= Lag(n + 1)
<1>1. Lag(n) \in 0 .. EstimateInterval - 1
  BY IntervalAssumption, SMTT(30) DEF Lag
<1>2. ASSUME ~RefreshDue(n + 1) PROVE Lag(n) + 1 <= Lag(n + 1)
  <2>1. n + 1 > EstimateInterval /\ (n + 1) % EstimateInterval # 0
    BY <1>2, IntervalAssumption DEF RefreshDue
  <2>2. Lag(n + 1) = (n % EstimateInterval) + 1
    <3>1. (n + 1) % EstimateInterval = (n % EstimateInterval) + 1
      BY <2>1, RemainderStep, IntervalAssumption
    <3>2. ~(n + 1 <= EstimateInterval)
      BY <2>1, IntervalAssumption
    <3> QED
      BY <3>1, <3>2 DEF Lag
  <2>3. Lag(n) <= n % EstimateInterval
    BY IntervalAssumption, SMTT(30) DEF Lag
  <2> QED
    BY <1>1, <2>2, <2>3, IntervalAssumption, SMTT(30)
<1> QED
  BY <1>1, <1>2

\* A number that estimates a sketch up to some slack does so up to more.
LEMMA EstimatesWeaken ==
  ASSUME NEW x, NEW sketch \in SUBSET Values, NEW a \in Nat, NEW b \in Nat,
         a <= b, Estimates(x, sketch, a)
  PROVE  Estimates(x, sketch, b)
<1>1. PICK S \in SUBSET sketch : x = Estimate(S) /\ Cardinality(sketch \ S) <= a
  BY DEF Estimates
<1>2. IsFiniteSet(sketch \ S)
  BY ValuesAssumption, FS_Subset
<1>3. Cardinality(sketch \ S) \in Nat
  BY <1>2, FS_CardinalityType
<1>4. Cardinality(sketch \ S) <= b
  BY <1>1, <1>3
<1> QED
  BY <1>1, <1>4 DEF Estimates

\* The estimate of the whole sketch lags by nothing.
LEMMA EstimatesExactly ==
  ASSUME NEW sketch \in SUBSET Values
  PROVE  Estimates(Estimate(sketch), sketch, 0)
<1>1. sketch \ sketch = {}
  OBVIOUS
<1>2. Cardinality(sketch \ sketch) = 0
  BY <1>1, FS_EmptySet
<1> QED
  BY <1>2 DEF Estimates

\* Leaving the cache alone while one hash is inserted costs at most one.
LEMMA EstimatesOneMore ==
  ASSUME NEW x, NEW sketch \in SUBSET Values, NEW v \in Values, NEW a \in Nat,
         Estimates(x, sketch, a)
  PROVE  Estimates(x, sketch \union {v}, a + 1)
<1>1. PICK S \in SUBSET sketch : x = Estimate(S) /\ Cardinality(sketch \ S) <= a
  BY DEF Estimates
<1> DEFINE old == sketch \ S
           new == (sketch \union {v}) \ S
<1>2. IsFiniteSet(old) /\ new \in SUBSET (old \union {v})
  BY ValuesAssumption, FS_Subset
<1>3. IsFiniteSet(old \union {v}) /\ Cardinality(old \union {v}) <= Cardinality(old) + 1
  BY <1>2, FS_AddElement, FS_CardinalityType, SMTT(30)
<1>4. IsFiniteSet(new) /\ Cardinality(new) <= Cardinality(old \union {v})
  BY <1>2, <1>3, FS_Subset
<1>5. Cardinality(new) \in Nat /\ Cardinality(old) \in Nat /\ Cardinality(old \union {v}) \in Nat
  BY <1>2, <1>3, <1>4, FS_CardinalityType
<1>6. Cardinality(new) <= a + 1
  BY <1>1, <1>3, <1>4, <1>5
<1> QED
  BY <1>1, <1>6 DEF Estimates

-----------------------------------------------------------------------------

\* The part of TrackerInv that speaks of a tracker record.
Sound(t) ==
  /\ t \in Tracker
  /\ Estimates(t.cachedCurr, t.current, Lag(t.insertCount))
  /\ Estimates(t.cachedPrev, t.previous, EstimateInterval - 1)
  /\ IdleEmpty(t)

LEMMA NewTrackerSound == Sound(NewTracker) /\ NewTracker.idleEpochs < StaleSweepEpochs
<1>1. NewTracker \in Tracker /\ NewTracker.idleEpochs < StaleSweepEpochs
  BY WordAssumption DEF NewTracker, Tracker, FreshSketch, StaleSweepEpochs
<1>2. Estimates(0, {}, 0)
  BY EstimatesExactly, EstimateAssumption
<1>3. Lag(0) = 0 /\ EstimateInterval - 1 \in Nat
  BY IntervalAssumption DEF Lag
<1>4. Estimates(0, {}, EstimateInterval - 1)
  BY <1>2, <1>3, EstimatesWeaken
<1> QED
  BY <1>1, <1>2, <1>3, <1>4 DEF Sound, NewTracker, FreshSketch, IdleEmpty

LEMMA InsertFields ==
  ASSUME NEW t \in Tracker, NEW sketch \in SUBSET Values, NEW n \in Nat,
         NEW c \in 0 .. Word - 1
  PROVE  [t EXCEPT !.current = sketch, !.insertCount = n, !.cachedCurr = c] \in Tracker
<1> DEFINE w == [t EXCEPT !.current = sketch]
<1>1. w \in Tracker
  BY DEF Tracker
<1>2. [t EXCEPT !.current = sketch, !.insertCount = n, !.cachedCurr = c]
        = [w EXCEPT !.insertCount = n, !.cachedCurr = c]
  BY DEF Tracker
<1> HIDE DEF w
<1>3. [w EXCEPT !.insertCount = n, !.cachedCurr = c] \in Tracker
  BY <1>1 DEF Tracker
<1> QED
  BY <1>2, <1>3

\* What tracker.insert does to each field.
LEMMA InsertType ==
  ASSUME NEW t \in Tracker, NEW v \in Values
  PROVE  LET u == Insert(t, v)
             n == t.insertCount + 1
         IN  /\ u \in Tracker
             /\ u.current = t.current \union {v} /\ u.previous = t.previous
             /\ u.cachedPrev = t.cachedPrev /\ u.idleEpochs = t.idleEpochs
             /\ u.insertCount = n
             /\ u.cachedCurr = IF RefreshDue(n) THEN Estimate(t.current \union {v})
                               ELSE t.cachedCurr
<1> DEFINE u == Insert(t, v)
           n == t.insertCount + 1
           sketch == t.current \union {v}
           c == IF RefreshDue(n) THEN Estimate(sketch) ELSE t.cachedCurr
<1>1. n \in Nat /\ sketch \in SUBSET Values
  BY DEF Tracker
<1>2. /\ u.current = sketch /\ u.previous = t.previous
      /\ u.cachedPrev = t.cachedPrev /\ u.idleEpochs = t.idleEpochs
      /\ u.insertCount = n /\ u.cachedCurr = c
  BY DEF Insert, Tracker
<1>3. c \in 0 .. Word - 1
  BY <1>1, EstimateAssumption DEF Tracker
<1>4. u = [t EXCEPT !.current = sketch, !.insertCount = n, !.cachedCurr = c]
  BY DEF Insert
<1>5. u \in Tracker
  <2> HIDE DEF c, u, sketch, n
  <2> QED
    BY <1>1, <1>3, <1>4, InsertFields, Zenon
<1> QED
  BY <1>2, <1>5

LEMMA InsertIdleEmpty ==
  ASSUME NEW t \in Tracker, NEW v \in Values, IdleEmpty(t)
  PROVE  IdleEmpty(Insert(t, v))
<1>1. /\ Insert(t, v).insertCount = t.insertCount + 1
      /\ Insert(t, v).idleEpochs = t.idleEpochs /\ Insert(t, v).previous = t.previous
  BY InsertType
<1>2. Insert(t, v).insertCount # 0
  BY <1>1 DEF Tracker
<1> QED
  BY <1>1, <1>2 DEF IdleEmpty

\* tracker.rotate keeps a tracker's type as long as it has not been found stale.
LEMMA RotateType ==
  ASSUME NEW t \in Tracker, t.idleEpochs < StaleSweepEpochs
  PROVE  /\ Rotate(t) \in Tracker
         /\ Rotate(t).idleEpochs = StaleSweepEpochs <=> IsStale(Rotate(t))
  BY WordAssumption DEF Rotate, Tracker, FreshSketch, StaleSweepEpochs, IsStale

LEMMA RotateIdleEmpty ==
  ASSUME NEW t \in Tracker, IdleEmpty(t)
  PROVE  IdleEmpty(Rotate(t))
<1>1. Rotate(t).current = {} /\ Rotate(t).previous = t.current
  BY DEF Rotate, FreshSketch
<1>2. Rotate(t).idleEpochs > 0 => t.insertCount = 0
  BY DEF Rotate
<1> QED
  BY <1>1, <1>2 DEF IdleEmpty

LEMMA NewTrackerType ==
  /\ NewTracker \in Tracker /\ IdleEmpty(NewTracker)
  /\ NewTracker.idleEpochs < StaleSweepEpochs
  BY WordAssumption DEF NewTracker, Tracker, FreshSketch, StaleSweepEpochs, IdleEmpty

LEMMA InsertSound ==
  ASSUME NEW t, Sound(t), NEW v \in Values
  PROVE  Sound(Insert(t, v)) /\ Insert(t, v).idleEpochs = t.idleEpochs
<1> DEFINE u == Insert(t, v)
           n == t.insertCount
           sketch == t.current \union {v}
<1>1. /\ t \in Tracker /\ n \in Nat /\ sketch \in SUBSET Values
      /\ t.current \in SUBSET Values
  BY DEF Sound, Tracker
<1>2. /\ u \in Tracker
      /\ u.current = sketch /\ u.previous = t.previous /\ u.cachedPrev = t.cachedPrev
      /\ u.insertCount = n + 1 /\ u.idleEpochs = t.idleEpochs
      /\ u.cachedCurr = IF RefreshDue(n + 1) THEN Estimate(sketch) ELSE t.cachedCurr
  BY <1>1, InsertType
<1>5. Lag(n) \in Nat /\ Lag(n + 1) \in Nat
  BY <1>1, LagGrows
<1>6. Estimates(u.cachedCurr, sketch, Lag(n + 1))
  <2>1. CASE RefreshDue(n + 1)
    <3>1. Estimates(Estimate(sketch), sketch, 0)
      BY <1>1, EstimatesExactly
    <3> QED
      BY <1>1, <1>2, <1>5, <2>1, <3>1, EstimatesWeaken
  <2>2. CASE ~RefreshDue(n + 1)
    <3>1. Estimates(t.cachedCurr, sketch, Lag(n) + 1)
      BY <1>1, <1>5, EstimatesOneMore DEF Sound
    <3>2. Lag(n) + 1 <= Lag(n + 1)
      BY <1>1, <2>2, LagGrows
    <3> QED
      BY <1>1, <1>2, <1>5, <2>2, <3>1, <3>2, EstimatesWeaken
  <2> QED
    BY <2>1, <2>2
<1>7. IdleEmpty(u)
  BY <1>1, InsertIdleEmpty DEF Sound
<1> HIDE DEF u
<1>8. Sound(u) /\ u.idleEpochs = t.idleEpochs
  BY <1>2, <1>6, <1>7 DEF Sound
<1> QED
  BY <1>8 DEF u

LEMMA RotateSound ==
  ASSUME NEW t, Sound(t), t.idleEpochs < StaleSweepEpochs
  PROVE  /\ Sound(Rotate(t))
         /\ Estimates(t.cachedCurr, t.current, EstimateInterval - 1)
         /\ IsStale(Rotate(t)) => t.current = {}
<1> DEFINE u == Rotate(t)
<1>1. t \in Tracker
  BY DEF Sound
<1>2. u \in Tracker /\ IdleEmpty(u)
  BY <1>1, RotateType, RotateIdleEmpty DEF Sound
<1>3. /\ Lag(t.insertCount) \in Nat /\ Lag(t.insertCount) <= EstimateInterval - 1
      /\ EstimateInterval - 1 \in Nat
  BY <1>1, LagGrows, IntervalAssumption DEF Tracker
<1>4. Estimates(t.cachedCurr, t.current, EstimateInterval - 1)
  BY <1>1, <1>3, EstimatesWeaken DEF Sound, Tracker
<1>5. Lag(0) = 0 /\ Estimates(0, {}, 0)
  BY IntervalAssumption, EstimatesExactly, EstimateAssumption DEF Lag
<1>6. Sound(u)
  BY <1>2, <1>4, <1>5 DEF Sound, Rotate, FreshSketch
<1>7. ASSUME IsStale(u) PROVE t.current = {}
  <2>1. t.insertCount = 0
    BY <1>1, <1>7 DEF IsStale, Rotate, Tracker, StaleSweepEpochs
  <2> QED
    BY <2>1 DEF Sound, IdleEmpty
<1> QED
  BY <1>4, <1>6, <1>7
=============================================================================
