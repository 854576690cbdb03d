------------------------------ MODULE Tracker ------------------------------
(***************************************************************************)
(* One (metric, label) pair alone: shouldDrop creates the tracker when it  *)
(* has none, inserts and decides; rotate() turns the epoch and evicts the  *)
(* tracker after two idle ones.  The interleavings of several goroutines   *)
(* and of the shard locks are in Registry.                                 *)
(***************************************************************************)
EXTENDS TrackerOps

CONSTANTS
  Limit,       \* getLimit(metric): the growth allowed in one epoch
  NoTracker,   \* the pair is not in the map
  Below,       \* the most by which the estimator misses values of a set
  Above,       \* the most by which it counts values that are not there
  MaxInserts   \* bound: inserts in one epoch

ASSUME LimitAssumption == Limit \in Nat \ {0}

\* Every estimator has such errors, since Values is finite.  It may err either way,
\* and may say less of a larger set.
ASSUME ErrorAssumption ==
  /\ Below \in Nat /\ Above \in Nat
  /\ \A S \in SUBSET Values :
       /\ Estimate(S) <= Cardinality(S) + Above
       /\ Cardinality(S) <= Estimate(S) + Below

ASSUME NoTrackerAssumption == NoTracker \notin Tracker

VARIABLES
  tracker,   \* the tracker of the pair, or NoTracker
  answer     \* shouldDrop's last answer in the running epoch

vars == <<tracker, answer>>

Verdict(t) == IF OverLimit(t.cachedCurr, t.cachedPrev, Limit) THEN "drop" ELSE "keep"

Init ==
  /\ tracker = NoTracker
  /\ answer = "none"

\* shouldDrop: find or create, insert, compare.
ShouldDrop(v) ==
  LET found == IF tracker = NoTracker THEN NewTracker ELSE tracker
      after == Insert(found, v)
  IN  /\ found.insertCount < MaxInserts
      /\ tracker' = after
      /\ answer' = Verdict(after)

\* rotate: turn the epoch of a tracker that is in the map, evict it if stale.
RotateEpoch ==
  /\ tracker # NoTracker
  /\ LET rotated == Rotate(tracker)
     IN  tracker' = IF IsStale(rotated) THEN NoTracker ELSE rotated
  /\ answer' = "none"

Next == RotateEpoch \/ \E v \in Values : ShouldDrop(v)

Spec == Init /\ [][Next]_vars

-----------------------------------------------------------------------------

TypeOK ==
  /\ tracker \in Tracker \union {NoTracker}
  /\ answer \in {"none", "keep", "drop"}
  /\ tracker # NoTracker => tracker.idleEpochs < StaleSweepEpochs

\* What is known of the pair, whether or not it has a tracker.
State == IF tracker = NoTracker THEN NewTracker ELSE tracker

\* The hot path answers from a cache, and the cache is never further behind the
\* sketch than the inserts since the last refresh; the baseline taken from it at
\* the end of an epoch is never more than EstimateInterval - 1 hashes short of
\* the epoch it summarises.
CacheLag ==
  /\ Estimates(State.cachedCurr, State.current, Lag(State.insertCount))
  /\ Estimates(State.cachedPrev, State.previous, EstimateInterval - 1)

\* A tracker that was not inserted into has an empty sketch, so that the two idle
\* epochs after which it is evicted leave nothing in it to forget.
IdleIsEmpty == IdleEmpty(State)

\* The inductive invariant: what a tracker is, how far its caches lag, and that
\* one that counts no insert holds no value.
TrackerInv == TypeOK /\ CacheLag /\ IdleIsEmpty

\* A value is dropped only in an epoch that really saw more than Limit distinct
\* values above the baseline, but for those the estimator may have invented: a
\* quiet label, however its values are repeated and however late the cache, is
\* not cut.
DropIsJustified ==
  answer = "drop" => Cardinality(State.current) + Above > State.cachedPrev + Limit

\* Enforcement is late by at most the values not yet counted, none in phase 1 and
\* less than EstimateInterval in phase 2, and those the estimator may have missed.
OvershootBounded ==
  answer = "keep" =>
    Cardinality(State.current) <= State.cachedPrev + Limit + Lag(State.insertCount) + Below

\* A label that was cut in an epoch comes back before its end only on the
\* estimator's variance, that is with an estimate which its errors may have brought
\* down from above the limit: never, if the estimator makes none, whatever values
\* follow and whichever phase they fall in.
StickyVerdict ==
  [][answer = "drop" /\ answer' = "keep" =>
       State'.cachedCurr + Below + Above > State.cachedPrev + Limit]_vars

\* The tracker, with its lazy cache and its eviction, gives the answers that the
\* limiter without either promises; an eviction shows only as an epoch's end.
Limiter == INSTANCE GrowthLimiter
             WITH seen <- State.current, base <- State.cachedPrev
ImplementsLimiter == Limiter!GSpec

\* config.go: "the maximum number of new unique label values that are allowed
\* for a single metric+label-key combination within one epoch"; "Only the delta
\* (new unique values seen this epoch) is checked".  A value let through leaves
\* no more than Limit new values in the epoch, up to the documented lag.
NewValuesBounded ==
  answer = "keep" =>
    Cardinality(State.current \ State.previous) <= Limit + Lag(State.insertCount)
=============================================================================
