---------------------------- MODULE GrowthLimiter ----------------------------
(***************************************************************************)
(* What the processor promises about one (metric, label) pair, without the *)
(* sketches, the caches, the refresh phases or the stale sweep: an epoch   *)
(* collects values; a value is dropped exactly when an estimate of the     *)
(* values so far, at most EstimateInterval - 1 of them missing, exceeds    *)
(* the closing estimate of the epoch before by more than Limit; and at an  *)
(* epoch's end the estimate of what it saw is the next baseline.           *)
(***************************************************************************)
EXTENDS TrackerOps

CONSTANT Limit

VARIABLES
  seen,       \* the values of the running epoch
  base,       \* the closing estimate of the epoch before
  answer      \* the last decision of the epoch, "none" before the first

gvars == <<seen, base, answer>>

GInit ==
  /\ seen = {}
  /\ base = 0
  /\ answer = "none"

Observe(v) ==
  /\ seen' = seen \union {v}
  /\ \E number \in {Estimate(S) : S \in SUBSET seen'} :
       /\ Estimates(number, seen', EstimateInterval - 1)
       /\ answer' = IF number > base + Limit THEN "drop" ELSE "keep"
  /\ UNCHANGED base

Roll ==
  /\ \E number \in {Estimate(S) : S \in SUBSET seen} :
       /\ Estimates(number, seen, EstimateInterval - 1)
       /\ base' = number
  /\ seen' = {}
  /\ answer' = "none"

GNext == Roll \/ \E v \in Values : Observe(v)

GSpec == GInit /\ [][GNext]_gvars
=============================================================================
