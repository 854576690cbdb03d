----------------------------- MODULE TrackerOps -----------------------------
(***************************************************************************)
(* The tracker of one (metric, label) pair: two HyperLogLog sketches, the  *)
(* two cached estimates and the counters that drive them, as a record, and *)
(* the operations of cardinalityprocessor/processor.go on it.  Each method *)
(* holds tracker.mu throughout, so each is one atomic operator here.       *)
(*                                                                         *)
(* A sketch is abstracted to the set of hashes inserted into it since it   *)
(* was taken from the pool; Estimate(S) is whatever Sketch.Estimate()      *)
(* answers for that set: 0 if it is empty, and otherwise what fits a       *)
(* machine word, more or less than there is, and less of a larger set too. *)
(***************************************************************************)
EXTENDS Integers, FiniteSets

CONSTANTS
  Values,             \* hashes of the values a label can take
  Estimate(_),        \* Sketch.Estimate() of a set of hashes
  EstimateInterval,   \* estimateInterval, 64 in the code
  Word                \* 2^64: the estimates are uint64

ASSUME EstimateAssumption ==
  /\ Estimate({}) = 0
  /\ \A S \in SUBSET Values : Estimate(S) \in 0 .. Word - 1

ASSUME IntervalAssumption == EstimateInterval \in Nat \ {0}

ASSUME WordAssumption == Word \in Nat \ {0}

ASSUME ValuesAssumption == IsFiniteSet(Values)

-----------------------------------------------------------------------------

\* The number of consecutive idle epochs after which a tracker is evicted.
StaleSweepEpochs == 2

\* mustGetSketch: the pool only ever vends sketches that were never used.
FreshSketch == {}

\* The idle counter is only compared with StaleSweepEpochs, and a tracker that
\* reaches it is deleted by the same rotation, so it never exceeds it.
Tracker ==
  [current     : SUBSET Values,
   previous    : SUBSET Values,
   cachedCurr  : 0 .. Word - 1,
   cachedPrev  : 0 .. Word - 1,
   insertCount : Nat,
   idleEpochs  : 0 .. StaleSweepEpochs]

NewTracker ==
  [current |-> FreshSketch, previous |-> FreshSketch,
   cachedCurr |-> 0, cachedPrev |-> 0,
   insertCount |-> 0, idleEpochs |-> 0]

\* Phase 1 estimates on every insert; phase 2 when the low bits of the counter
\* are all zero (the interval is a power of two in the code).
RefreshDueNoPhase2(n) == n <= EstimateInterval
RefreshDue(n) ==
  \/ n <= EstimateInterval
  \/ n % EstimateInterval = 0

\* tracker.insert, up to the pair (cachedCurr, cachedPrev) it returns, which
\* are the fields of the record it leaves behind.
Insert(t, v) ==
  LET sketch == t.current \union {v}
      n      == t.insertCount + 1
  IN  [t EXCEPT !.current = sketch,
                !.insertCount = n,
                !.cachedCurr = IF RefreshDue(n) THEN Estimate(sketch) ELSE @]

\* tracker.rotate.
RotateKeepingBaseline(t) ==
  [current |-> FreshSketch, previous |-> t.current,
   cachedCurr |-> 0, cachedPrev |-> t.cachedPrev,
   insertCount |-> 0,
   idleEpochs |-> IF t.insertCount = 0 THEN t.idleEpochs + 1 ELSE 0]
RotateKeepingIdle(t) ==
  [current |-> FreshSketch, previous |-> t.current,
   cachedCurr |-> 0, cachedPrev |-> t.cachedCurr,
   insertCount |-> 0, idleEpochs |-> t.idleEpochs + 1]
RotateNeverIdle(t) ==
  [current |-> FreshSketch, previous |-> t.current,
   cachedCurr |-> 0, cachedPrev |-> t.cachedCurr,
   insertCount |-> 0, idleEpochs |-> 0]
Rotate(t) ==
  [current |-> FreshSketch, previous |-> t.current,
   cachedCurr |-> 0, cachedPrev |-> t.cachedCurr,
   insertCount |-> 0,
   idleEpochs |-> IF t.insertCount = 0 THEN t.idleEpochs + 1 ELSE 0]

\* The test rotate() makes of a tracker it has just rotated.  tracker.rotate
\* answers "idle" exactly when it incremented idleEpochs.
IsStaleLate(t) == t.idleEpochs > StaleSweepEpochs
IsStale(t) == t.idleEpochs >= StaleSweepEpochs

\* uint64 subtraction.
Minus(a, b) == IF a >= b THEN a - b ELSE a - b + Word

\* The end of shouldDrop: the underflow guard, then the limit.
OverLimitUnguarded(curr, prev, limit) == Minus(curr, prev) > limit
OverLimitInclusive(curr, prev, limit) == curr > prev /\ Minus(curr, prev) >= limit
OverLimit(curr, prev, limit) == curr > prev /\ Minus(curr, prev) > limit

-----------------------------------------------------------------------------

\* How many inserts the cached estimate may be behind after n of them.
Lag(n) == IF n <= EstimateInterval THEN 0 ELSE n % EstimateInterval

\* A number that estimates all of sketch but at most slack of its hashes.
Estimates(number, sketch, slack) ==
  \E S \in SUBSET sketch :
    /\ number = Estimate(S)
    /\ Cardinality(sketch \ S) <= slack

\* A tracker that was not inserted into in an epoch holds nothing of it: not in
\* current while the epoch lasts, nor in previous once it was found idle.
IdleEmpty(t) ==
  /\ t.insertCount = 0 => t.current = {}
  /\ t.idleEpochs > 0 => t.previous = {}
=============================================================================
