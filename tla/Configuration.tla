---------------------------- MODULE Configuration ----------------------------
(***************************************************************************)
(* Config: what Validate accepts, and the enforcement mode that the        *)
(* processor and then each metric makes of it.                             *)
(*                                                                         *)
(* A configuration is a record with the fields of the Go struct that the   *)
(* program reads; MetricOverrides is a function on metric names.  The      *)
(* float EstimatedCostPerMetricMonth is a number: only its sign is looked  *)
(* at.                                                                     *)
(***************************************************************************)
EXTENDS Integers

CONSTANTS
  Spellings,   \* texts enforcement_mode may have, "" if it is not set
  ToLower      \* strings.ToLower of each

ASSUME ConfigurationAssumption == ToLower \in [Spellings -> Spellings]

Modes == {"tag_only", "overflow_attribute", "strip_and_reaggregate"}

ValidMode(spelling) == spelling = "" \/ ToLower[spelling] \in Modes

ValidEpochUnchecked(c) == c.EpochDurationSeconds >= 0
ValidEpoch(c) == c.EpochDurationSeconds >= 10

ValidOverridesNamed(c) == \A name \in DOMAIN c.MetricOverrides : name # ""
ValidOverrides(c) ==
  \A name \in DOMAIN c.MetricOverrides : name # "" /\ c.MetricOverrides[name] > 0

\* Each conjunct is the negation of one of the errors.
Validate(c) ==
  /\ c.MaxCardinalityDeltaPerEpoch > 0
  /\ ValidEpoch(c)
  /\ c.EstimatedCostPerMetricMonth >= 0
  /\ c.TopOffendersCount \in 0..500
  /\ c.MaxTrackerCount \in 0..10^7
  /\ ValidOverrides(c)
  /\ c.DropLogMaxPerEpoch >= 0
  /\ ValidMode(c.EnforcementMode)

\* createDefaultConfig, the cost in cents.
DefaultConfig ==
  [MaxCardinalityDeltaPerEpoch |-> 100, EpochDurationSeconds |-> 300, TagOnly |-> FALSE,
   EstimatedCostPerMetricMonth |-> 5, TopOffendersCount |-> 10, MaxTrackerCount |-> 0,
   MetricOverrides |-> [name \in {} |-> 0], DropLogMaxPerEpoch |-> 10, EnforcementMode |-> ""]

\* ResolvedEnforcementMode, which lowers the case by itself: Validate keeps the
\* spelling it has accepted.  TagOnly is the deprecated boolean.
ResolvedRaw(spelling, TagOnly) ==
  IF spelling # "" THEN spelling
  ELSE IF TagOnly THEN "tag_only" ELSE "strip_and_reaggregate"
Resolved(spelling, TagOnly) ==
  IF spelling # "" THEN ToLower[spelling]
  ELSE IF TagOnly THEN "tag_only" ELSE "strip_and_reaggregate"

MetricTypes == {"gauge", "delta_sum", "cumulative_sum", "histogram",
                "exponential_histogram", "summary"}

\* The types processMetric hands to reaggregateNumberDataPoints.
Reaggregated == {"gauge", "delta_sum"}

\* processMetric: what cannot be reaggregated is tagged instead of stripped.
ModeForAlways(m, t) == m
ModeFor(m, t) ==
  IF m = "strip_and_reaggregate" /\ t \notin Reaggregated THEN "tag_only" ELSE m
=============================================================================
