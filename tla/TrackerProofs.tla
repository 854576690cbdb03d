---------------------------- MODULE TrackerProofs ----------------------------
(***************************************************************************)
(* Proofs about one pair's tracker, for every set of values, every         *)
(* estimator that answers 0 for an empty sketch and whatever its errors,   *)
(* every refresh interval and every limit.                                 *)
(***************************************************************************)
EXTENDS Tracker, TrackerOpsProofs

-----------------------------------------------------------------------------

\* TrackerInv is what Sound says of the tracker the pair has, or would be given.
LEMMA InvIsSound ==
  /\ TrackerInv => Sound(State) /\ State.idleEpochs < StaleSweepEpochs
  /\ (TrackerInv => Sound(State) /\ State.idleEpochs < StaleSweepEpochs)'
<1>1. TrackerInv => Sound(State) /\ State.idleEpochs < StaleSweepEpochs
  BY NewTrackerSound DEF TrackerInv, TypeOK, CacheLag, IdleIsEmpty, State, Sound
<1>2. (TrackerInv => Sound(State) /\ State.idleEpochs < StaleSweepEpochs)'
  BY NewTrackerSound DEF TrackerInv, TypeOK, CacheLag, IdleIsEmpty, State, Sound
<1> QED
  BY <1>1, <1>2

\* Conversely, a sound tracker that is not yet stale satisfies the invariant.
LEMMA SoundIsInv ==
  ASSUME NEW t, Sound(t), t.idleEpochs < StaleSweepEpochs,
         tracker' = t, answer' \in {"none", "keep", "drop"}
  PROVE  TrackerInv'
<1>1. t # NoTracker
  BY NoTrackerAssumption DEF Sound
<1> QED
  BY <1>1 DEF TrackerInv, TypeOK, CacheLag, IdleIsEmpty, State, Sound

LEMMA NoTrackerIsInv ==
  ASSUME tracker' = NoTracker, answer' \in {"none", "keep", "drop"}
  PROVE  TrackerInv'
  BY NewTrackerSound DEF TrackerInv, TypeOK, CacheLag, IdleIsEmpty, State, Sound

LEMMA InitInv == Init => TrackerInv
  BY NewTrackerSound DEF Init, TrackerInv, TypeOK, CacheLag, IdleIsEmpty, State, Sound

LEMMA StepInv == TrackerInv /\ [Next]_vars => TrackerInv'
<1> SUFFICES ASSUME TrackerInv, [Next]_vars PROVE TrackerInv'
  OBVIOUS
<1>0. Sound(State) /\ State.idleEpochs < StaleSweepEpochs
  BY InvIsSound
<1>1. ASSUME NEW v \in Values, ShouldDrop(v) PROVE TrackerInv'
  <2>1. tracker' = Insert(State, v) /\ answer' \in {"none", "keep", "drop"}
    BY <1>1 DEF ShouldDrop, State, Verdict
  <2> QED
    BY <1>0, <2>1, InsertSound, SoundIsInv
<1>2. ASSUME RotateEpoch PROVE TrackerInv'
  <2>1. tracker # NoTracker /\ State = tracker /\ answer' = "none"
    BY <1>2 DEF RotateEpoch, State
  <2>2. CASE IsStale(Rotate(tracker))
    BY <1>2, <2>1, <2>2, NoTrackerIsInv DEF RotateEpoch
  <2>3. CASE ~IsStale(Rotate(tracker))
    <3>1. tracker' = Rotate(tracker)
      BY <1>2, <2>3 DEF RotateEpoch
    <3>2. Sound(Rotate(tracker))
      BY <1>0, <2>1, RotateSound
    <3>3. Rotate(tracker).idleEpochs < StaleSweepEpochs
      BY <2>3, <3>2 DEF IsStale, Sound, Tracker, StaleSweepEpochs
    <3> QED
      BY <2>1, <3>1, <3>2, <3>3, SoundIsInv
  <2> QED
    BY <2>2, <2>3
<1>3. CASE UNCHANGED vars
  BY <1>3 DEF vars, TrackerInv, TypeOK, CacheLag, IdleIsEmpty, State
<1> QED
  BY <1>1, <1>2, <1>3 DEF Next

\* The tracker record keeps its type: in particular the estimates stay within a
\* machine word and the idle counter below the eviction threshold.
THEOREM TypeCorrect == Spec => []TypeOK
<1>1. TrackerInv => TypeOK
  BY DEF TrackerInv
<1> QED
  BY <1>1, InitInv, StepInv, PTL DEF Spec

\* The estimate the hot path decides by is never further behind the sketch than
\* the inserts since its last refresh, nor is the baseline more than
\* EstimateInterval - 1 hashes short of the epoch it closes.
THEOREM CacheNeverFarBehind == Spec => []CacheLag
<1>1. TrackerInv => CacheLag
  BY DEF TrackerInv
<1> QED
  BY <1>1, InitInv, StepInv, PTL DEF Spec

-----------------------------------------------------------------------------

\* An estimate of a sketch is one of the numbers the limiter may answer by.
LEMMA EstimatesListed ==
  ASSUME NEW x, NEW sketch, NEW a, Estimates(x, sketch, a)
  PROVE  /\ x \in {Estimate(S) : S \in SUBSET sketch}
         /\ Limiter!Estimates(x, sketch, a)
<1>1. PICK S \in SUBSET sketch : x = Estimate(S) /\ Cardinality(sketch \ S) <= a
  BY DEF Estimates
<1>2. x \in {Estimate(T) : T \in SUBSET sketch}
  BY <1>1
<1>3. Limiter!Estimates(x, sketch, a)
  BY <1>1, Zenon DEF Limiter!Estimates, Limiter!Cardinality, Cardinality
<1> QED
  BY <1>2, <1>3

LEMMA InitImplementsLimiter == Init => Limiter!GInit
  BY DEF Init, Limiter!GInit, State, NewTracker, FreshSketch

LEMMA StepImplementsLimiter ==
  TrackerInv /\ [Next]_vars => [Limiter!GNext]_(Limiter!gvars)
<1> SUFFICES ASSUME TrackerInv, [Next]_vars
             PROVE  [Limiter!GNext]_(Limiter!gvars)
  OBVIOUS
<1>0. Sound(State) /\ State.idleEpochs < StaleSweepEpochs
  BY InvIsSound
<1>1. ASSUME NEW v \in Values, ShouldDrop(v) PROVE Limiter!Observe(v)
  <2> DEFINE u == Insert(State, v)
  <2>1. /\ tracker' = u
        /\ answer' = IF OverLimit(u.cachedCurr, u.cachedPrev, Limit) THEN "drop" ELSE "keep"
    BY <1>1 DEF ShouldDrop, State, Verdict
  <2>2. u.current = State.current \union {v} /\ u.cachedPrev = State.cachedPrev
    BY <1>0 DEF Insert, Sound, Tracker
  <2>3. Sound(u)
    BY <1>0, InsertSound
  <2> HIDE DEF u
  <2>4. State' = u
    BY <2>1, <2>3, NoTrackerAssumption DEF State, Sound
  <2>5. u.cachedCurr \in 0 .. Word - 1 /\ u.cachedPrev \in 0 .. Word - 1
    BY <2>3 DEF Sound, Tracker
  <2>6. answer' = IF u.cachedCurr > u.cachedPrev + Limit THEN "drop" ELSE "keep"
    BY <2>1, <2>5, DecisionExact, LimitAssumption
  <2>7. /\ Lag(u.insertCount) \in Nat /\ Lag(u.insertCount) <= EstimateInterval - 1
        /\ EstimateInterval - 1 \in Nat
    BY <2>3, LagGrows, IntervalAssumption DEF Sound, Tracker
  <2>8. Estimates(u.cachedCurr, u.current, EstimateInterval - 1)
    BY <2>3, <2>7, EstimatesWeaken DEF Sound, Tracker
  <2>9. /\ u.cachedCurr \in {Estimate(S) : S \in SUBSET u.current}
        /\ Limiter!Estimates(u.cachedCurr, u.current, EstimateInterval - 1)
    BY <2>8, EstimatesListed
  <2> QED
    BY <2>2, <2>4, <2>6, <2>9 DEF Limiter!Observe
<1>2. ASSUME RotateEpoch PROVE Limiter!Roll
  <2> DEFINE u == Rotate(tracker)
  <2>1. tracker # NoTracker /\ State = tracker /\ answer' = "none"
    BY <1>2 DEF RotateEpoch, State
  <2>2. /\ Sound(u) /\ Estimates(tracker.cachedCurr, tracker.current, EstimateInterval - 1)
        /\ IsStale(u) => tracker.current = {}
    BY <1>0, <2>1, RotateSound
  <2>3. u.current = {} /\ u.cachedPrev = tracker.cachedCurr
    BY DEF Rotate, FreshSketch
  <2>4. tracker' = IF IsStale(u) THEN NoTracker ELSE u
    BY <1>2 DEF RotateEpoch
  <2> HIDE DEF u
  <2>5. State'.current = {} /\ State'.cachedPrev = tracker.cachedCurr
    <3>1. CASE ~IsStale(u)
      <4>1. State' = u
        BY <2>2, <2>4, <3>1, NoTrackerAssumption DEF State, Sound
      <4> QED
        BY <2>3, <4>1
    <3>2. CASE IsStale(u)
      <4>1. State' = NewTracker
        BY <2>4, <3>2 DEF State
      <4>2. tracker.cachedCurr = 0
        BY <2>2, <3>2, EstimateAssumption DEF Estimates
      <4> QED
        BY <4>1, <4>2 DEF NewTracker, FreshSketch
    <3> QED
      BY <3>1, <3>2
  <2>6. /\ tracker.cachedCurr \in {Estimate(S) : S \in SUBSET State.current}
        /\ Limiter!Estimates(tracker.cachedCurr, State.current, EstimateInterval - 1)
    BY <2>1, <2>2, EstimatesListed
  <2> QED
    BY <2>1, <2>5, <2>6 DEF Limiter!Roll
<1>3. CASE UNCHANGED vars
  BY <1>3 DEF vars, Limiter!gvars, State
<1> QED
  BY <1>1, <1>2, <1>3 DEF Next, Limiter!GNext

\* The tracker implements the growth limiter: two idle epochs and the eviction
\* after them are epochs' ends like any other, and no refresh phase, cached
\* estimate or uint64 subtraction makes an answer the limiter could not give.
THEOREM TrackerImplementsLimiter == Spec => ImplementsLimiter
<1> USE DEF ImplementsLimiter
<1>1. Init => Limiter!GInit
  BY InitImplementsLimiter
<1>2. TrackerInv /\ [Next]_vars => [Limiter!GNext]_(Limiter!gvars)
  BY StepImplementsLimiter
<1> QED
  BY <1>1, <1>2, InitInv, StepInv, PTL DEF Spec, Limiter!GSpec

-----------------------------------------------------------------------------

\* The last answer of the epoch is the one the tracker would give if it were asked
\* again without an insert.
AnswerHolds == answer # "none" => tracker # NoTracker /\ answer = Verdict(tracker)

\* shouldDrop answers from what its own insert has left behind, and the turn of
\* the epoch forgets the answer with what it was about.
LEMMA AnswerInit == Init => AnswerHolds
  BY DEF Init, AnswerHolds

LEMMA AnswerStep == TrackerInv /\ AnswerHolds /\ [Next]_vars => AnswerHolds'
<1> SUFFICES ASSUME TrackerInv, AnswerHolds, [Next]_vars PROVE AnswerHolds'
  OBVIOUS
<1>0. Sound(State) /\ State.idleEpochs < StaleSweepEpochs
  BY InvIsSound
<1>1. ASSUME NEW v \in Values, ShouldDrop(v) PROVE AnswerHolds'
  <2>1. tracker' = Insert(State, v) /\ answer' = Verdict(Insert(State, v))
    BY <1>1 DEF ShouldDrop, State
  <2>2. Insert(State, v) # NoTracker
    BY <1>0, InsertSound, NoTrackerAssumption DEF Sound
  <2> QED
    BY <2>1, <2>2, Zenon DEF AnswerHolds, Verdict
<1>2. ASSUME RotateEpoch PROVE AnswerHolds'
  BY <1>2 DEF RotateEpoch, AnswerHolds
<1>3. CASE UNCHANGED vars
  BY <1>3 DEF vars, AnswerHolds, Verdict
<1> QED
  BY <1>1, <1>2, <1>3 DEF Next

\* An answer compares two machine words over the integers.
LEMMA AnswerCompares ==
  ASSUME TrackerInv, AnswerHolds, answer # "none"
  PROVE  /\ State = tracker /\ Sound(tracker)
         /\ tracker.cachedCurr \in Nat /\ tracker.cachedPrev \in Nat
         /\ answer = IF tracker.cachedCurr > tracker.cachedPrev + Limit THEN "drop" ELSE "keep"
<1>1. State = tracker /\ answer = Verdict(tracker)
  BY DEF AnswerHolds, State
<1>2. Sound(tracker)
  BY <1>1, InvIsSound
<1>3. tracker.cachedCurr \in 0 .. Word - 1 /\ tracker.cachedPrev \in 0 .. Word - 1
  BY <1>2 DEF Sound, Tracker
<1>4. answer = IF tracker.cachedCurr > tracker.cachedPrev + Limit THEN "drop" ELSE "keep"
  BY <1>1, <1>3, DecisionExact, LimitAssumption DEF Verdict
<1> QED
  BY <1>1, <1>2, <1>3, <1>4, WordAssumption

\* What a number that estimates a sketch has to do with the size of the sketch.
LEMMA EstimateNearCount ==
  ASSUME NEW x, NEW sketch \in SUBSET Values, NEW slack \in Nat, Estimates(x, sketch, slack)
  PROVE  /\ Cardinality(sketch) \in Nat
         /\ x <= Cardinality(sketch) + Above
         /\ Cardinality(sketch) <= x + Below + slack
<1>1. PICK S \in SUBSET sketch : x = Estimate(S) /\ Cardinality(sketch \ S) <= slack
  BY DEF Estimates
<1>2. IsFiniteSet(sketch) /\ S \in SUBSET Values /\ sketch \cap S = S
  BY ValuesAssumption, FS_Subset
<1>3. /\ IsFiniteSet(S) /\ Cardinality(S) <= Cardinality(sketch)
      /\ IsFiniteSet(sketch \ S)
  BY <1>2, FS_Subset
<1>4. Cardinality(sketch \ S) = Cardinality(sketch) - Cardinality(S)
  BY <1>2, FS_Difference
<1>5. /\ Cardinality(S) \in Nat /\ Cardinality(sketch) \in Nat
      /\ x \in Nat
  BY <1>1, <1>2, <1>3, FS_CardinalityType, EstimateAssumption, WordAssumption
<1>6. x <= Cardinality(S) + Above /\ Cardinality(S) <= x + Below
  BY <1>1, <1>2, ErrorAssumption
<1> QED
  BY <1>1, <1>3, <1>4, <1>5, <1>6, ErrorAssumption

LEMMA AnswerAlways == Spec => [](TrackerInv /\ AnswerHolds)
<1>1. Init => TrackerInv /\ AnswerHolds
  BY InitInv, AnswerInit
<1>2. TrackerInv /\ AnswerHolds /\ [Next]_vars => (TrackerInv /\ AnswerHolds)'
  BY StepInv, AnswerStep
<1> QED
  BY <1>1, <1>2, PTL DEF Spec

\* Only a label that shows more than the limit of values above its baseline is cut,
\* but for the values the estimator may invent, however late the cache is.
THEOREM DropsJustified == Spec => []DropIsJustified
<1>1. TrackerInv /\ AnswerHolds => DropIsJustified
  <2> SUFFICES ASSUME TrackerInv, AnswerHolds, answer = "drop"
               PROVE  Cardinality(State.current) + Above > State.cachedPrev + Limit
    BY DEF DropIsJustified
  <2>1. /\ State = tracker /\ Sound(tracker) /\ tracker.cachedCurr > tracker.cachedPrev + Limit
        /\ tracker.cachedCurr \in Nat /\ tracker.cachedPrev \in Nat
    BY AnswerCompares
  <2>2. /\ tracker.current \in SUBSET Values /\ Lag(tracker.insertCount) \in Nat
        /\ Estimates(tracker.cachedCurr, tracker.current, Lag(tracker.insertCount))
    BY <2>1, LagGrows DEF Sound, Tracker
  <2>3. /\ Cardinality(tracker.current) \in Nat
        /\ tracker.cachedCurr <= Cardinality(tracker.current) + Above
    BY <2>2, EstimateNearCount
  <2> QED
    BY <2>1, <2>3, LimitAssumption, ErrorAssumption
<1> QED
  BY <1>1, AnswerAlways, PTL

\* No more is let through than the limit, the values the cache has not been refreshed
\* for and those the estimator may miss.
THEOREM OvershootIsLag == Spec => []OvershootBounded
<1>1. TrackerInv /\ AnswerHolds => OvershootBounded
  <2> SUFFICES ASSUME TrackerInv, AnswerHolds, answer = "keep"
               PROVE  Cardinality(State.current)
                        <= State.cachedPrev + Limit + Lag(State.insertCount) + Below
    BY DEF OvershootBounded
  <2>1. /\ State = tracker /\ Sound(tracker) /\ ~(tracker.cachedCurr > tracker.cachedPrev + Limit)
        /\ tracker.cachedCurr \in Nat /\ tracker.cachedPrev \in Nat
    BY AnswerCompares
  <2>2. /\ tracker.current \in SUBSET Values /\ Lag(tracker.insertCount) \in Nat
        /\ Estimates(tracker.cachedCurr, tracker.current, Lag(tracker.insertCount))
    BY <2>1, LagGrows DEF Sound, Tracker
  <2>3. /\ Cardinality(tracker.current) \in Nat
        /\ Cardinality(tracker.current) <= tracker.cachedCurr + Below + Lag(tracker.insertCount)
    BY <2>2, EstimateNearCount
  <2> QED
    BY <2>1, <2>2, <2>3, LimitAssumption, ErrorAssumption
<1> QED
  BY <1>1, AnswerAlways, PTL

\* What a decision says of two epochs, cache and baseline aside.
VerdictWithin ==
  LET now    == Cardinality(State.current)
      before == Cardinality(State.previous)
      error  == Below + Above
  IN  /\ answer = "drop" => now + error + (EstimateInterval - 1) > before + Limit
      /\ answer = "keep" => now <= before + Limit + error + Lag(State.insertCount)

\* A label is cut only in an epoch with more than Limit values above those of the
\* epoch before, and let through in no other, but for the estimator's errors
\* and the lag of the two caches.
THEOREM VerdictMeasuresGrowth == Spec => []VerdictWithin
<1>1. TrackerInv /\ AnswerHolds => VerdictWithin
  <2> SUFFICES ASSUME TrackerInv, AnswerHolds, answer # "none"
               PROVE  VerdictWithin
    BY DEF VerdictWithin
  <2> DEFINE now == Cardinality(tracker.current)
             before == Cardinality(tracker.previous)
             lag == Lag(tracker.insertCount)
  <2>1. /\ State = tracker /\ Sound(tracker)
        /\ tracker.cachedCurr \in Nat /\ tracker.cachedPrev \in Nat
        /\ answer = IF tracker.cachedCurr > tracker.cachedPrev + Limit THEN "drop" ELSE "keep"
    BY AnswerCompares
  <2>2. /\ tracker.current \in SUBSET Values /\ tracker.previous \in SUBSET Values
        /\ lag \in Nat /\ EstimateInterval - 1 \in Nat
        /\ Estimates(tracker.cachedCurr, tracker.current, lag)
        /\ Estimates(tracker.cachedPrev, tracker.previous, EstimateInterval - 1)
    BY <2>1, LagGrows, IntervalAssumption DEF Sound, Tracker
  <2>3. /\ now \in Nat /\ tracker.cachedCurr <= now + Above
        /\ now <= tracker.cachedCurr + Below + lag
    BY <2>2, EstimateNearCount
  <2>4. /\ before \in Nat /\ tracker.cachedPrev <= before + Above
        /\ before <= tracker.cachedPrev + Below + (EstimateInterval - 1)
    BY <2>2, EstimateNearCount
  <2> HIDE DEF now, before, lag
  <2>5. Below \in Nat /\ Above \in Nat /\ Limit \in Nat
    BY ErrorAssumption, LimitAssumption
  <2>6. answer = "drop" => now + (Below + Above) + (EstimateInterval - 1) > before + Limit
    BY <2>1, <2>2, <2>3, <2>4, <2>5
  <2>7. answer = "keep" => now <= before + Limit + (Below + Above) + lag
    BY <2>1, <2>2, <2>3, <2>4, <2>5
  <2> QED
    BY <2>1, <2>6, <2>7 DEF VerdictWithin, now, before, lag
<1> QED
  BY <1>1, AnswerAlways, PTL

\* Since values are only added, the errors of two estimates are all by which a label
\* that was cut may come back before the epoch ends, in both phases of the refresh.
THEOREM VerdictSticks == Spec => StickyVerdict
<1> DEFINE Sticks ==
      answer = "drop" /\ answer' = "keep" =>
        State'.cachedCurr + Below + Above > State.cachedPrev + Limit
<1>1. TrackerInv /\ AnswerHolds /\ TrackerInv' /\ [Next]_vars => [Sticks]_vars
  <2> SUFFICES ASSUME TrackerInv, AnswerHolds, Next, answer = "drop", answer' = "keep"
               PROVE  State'.cachedCurr + Below + Above > State.cachedPrev + Limit
    OBVIOUS
  <2>1. /\ State = tracker /\ Sound(tracker) /\ tracker.cachedCurr > tracker.cachedPrev + Limit
        /\ tracker.cachedCurr \in Nat /\ tracker.cachedPrev \in Nat
    BY AnswerCompares
  <2>2. PICK v \in Values : ShouldDrop(v)
    BY DEF Next, RotateEpoch
  <2> DEFINE u == Insert(tracker, v)
             full == tracker.current \union {v}
  <2>3. /\ u \in Tracker /\ full \in SUBSET Values
        /\ u.cachedCurr = tracker.cachedCurr \/ u.cachedCurr = Estimate(full)
    BY <2>1, InsertType DEF Sound, Tracker
  <2>4. State' = u
    <3>1. tracker' = u
      BY <2>1, <2>2 DEF ShouldDrop, State
    <3> QED
      BY <2>3, <3>1, NoTrackerAssumption DEF State
  <2>5. PICK S \in SUBSET tracker.current : tracker.cachedCurr = Estimate(S)
    BY <2>1 DEF Sound, Estimates
  <2>6. /\ S \in SUBSET Values /\ S \subseteq full
        /\ Cardinality(S) \in Nat /\ Cardinality(full) \in Nat
        /\ Cardinality(S) <= Cardinality(full)
    BY <2>3, <2>5, ValuesAssumption, FS_Subset, FS_CardinalityType
  <2>7. /\ tracker.cachedCurr <= Cardinality(S) + Above
        /\ Cardinality(full) <= Estimate(full) + Below
        /\ Below \in Nat /\ Above \in Nat
    BY <2>3, <2>5, <2>6, ErrorAssumption
  <2>8. Estimate(full) \in Nat
    BY <2>3, EstimateAssumption, WordAssumption
  <2> HIDE DEF u, full
  <2>9. tracker.cachedCurr <= u.cachedCurr + Below + Above
    BY <2>1, <2>3, <2>6, <2>7, <2>8
  <2>10. u.cachedCurr \in Nat
    BY <2>1, <2>3, <2>8
  <2> QED
    BY <2>1, <2>4, <2>7, <2>9, <2>10, LimitAssumption
<1> QED
  BY <1>1, AnswerAlways, InitInv, StepInv, PTL DEF Spec, StickyVerdict
=============================================================================
