----------------------------- MODULE MCLifecycle -----------------------------
(***************************************************************************)
(* Lifecycle for TLC: configurations with no or two offenders kept, with   *)
(* each error Validate knows and with an epoch that does not fit; three    *)
(* pairs in two shards.  Machine integers have 20 bits, and a second 1000  *)
(* units.                                                                  *)
(***************************************************************************)
EXTENDS Lifecycle

MCShardOf == [k \in Keys |-> IF k = "c" THEN 1 ELSE 0]

MCToLower == [s \in Spellings |-> IF s = "Tag_Only" THEN "tag_only" ELSE s]

Override(name, limit) == [n \in {name} |-> limit]

MCConfigs ==
  {[DefaultConfig EXCEPT !.TopOffendersCount = n] : n \in {0, -1, 501}} \union
  {[DefaultConfig EXCEPT !.TopOffendersCount = 2, !.EnforcementMode = "Tag_Only",
                         !.MetricOverrides = Override("m1", 7)],
   [DefaultConfig EXCEPT !.EnforcementMode = "strip"],
   [DefaultConfig EXCEPT !.MetricOverrides = Override("m1", -1)],
   [DefaultConfig EXCEPT !.MetricOverrides = Override("", 1)],
   [DefaultConfig EXCEPT !.MaxCardinalityDeltaPerEpoch = 0],
   [DefaultConfig EXCEPT !.EstimatedCostPerMetricMonth = -1],
   [DefaultConfig EXCEPT !.MaxTrackerCount = -1],
   [DefaultConfig EXCEPT !.DropLogMaxPerEpoch = -1],
   [DefaultConfig EXCEPT !.EpochDurationSeconds = 0],
   [DefaultConfig EXCEPT !.EpochDurationSeconds = 600]}
=============================================================================
