---------------------------- MODULE ProcessMetric ----------------------------
(***************************************************************************)
(* processMetric, one metric from the batch it came in to the batch that   *)
(* goes on: the mode the metric is given enforces shouldDrop's answers on  *)
(* every point, and what a removal may have made alike is handed to        *)
(* reaggregateNumberDataPoints.                                            *)
(*                                                                         *)
(* The batch is this goroutine's own copy (MutatesData), so the attributes *)
(* of all points change in one step; Enforcement has the single labels.    *)
(* Points of any metric type are Reaggregation's records: what a histogram *)
(* or a summary carries stands where a number would.                       *)
(***************************************************************************)
EXTENDS Configuration, Reaggregation

CONSTANTS
  OverflowLabel, True,   \* "otel.metric.overflow" and the value it is put with
  Sentinel               \* overflowSentinel

\* What is left of a set of attributes is one.
ASSUME AttributesAssumption ==
  \A attrs \in Attributes : \A labels \in SUBSET DOMAIN attrs :
    [k \in DOMAIN attrs \ labels |-> attrs[k]] \in Attributes

VARIABLE mode            \* p.enforcementMode

pvars == <<mode, vars>>

PInit ==
  /\ mode \in Modes
  /\ metric \in MetricTypes
  /\ Untouched
  /\ pc = "enforce"

\* handleAttributesWithMode: what becomes of the attributes shouldDrop is against.
Enforced(attrs, flagged, m) ==
  IF flagged = {} THEN attrs
  ELSE CASE m = "tag_only" ->
              [k \in DOMAIN attrs \union {OverflowLabel} |-> IF k = OverflowLabel THEN True ELSE attrs[k]]
         [] m = "overflow_attribute" ->
              [k \in DOMAIN attrs |-> IF k \in flagged THEN Sentinel ELSE attrs[k]]
         [] m = "strip_and_reaggregate" ->
              [k \in DOMAIN attrs \ flagged |-> attrs[k]]

\* The loops over the points; shouldDrop gives any answers.
Enforce ==
  /\ pc = "enforce"
  /\ \E flagged \in [DOMAIN dps -> SUBSET UNION {DOMAIN dps[j].attrs : j \in DOMAIN dps}] :
       /\ \A j \in DOMAIN dps : flagged[j] \subseteq DOMAIN dps[j].attrs
       /\ dps' = [j \in DOMAIN dps |->
            [dps[j] EXCEPT !.attrs = Enforced(@, flagged[j], ModeFor(mode, metric))]]
  /\ received' = dps'
  /\ pc' = IF mode = "strip_and_reaggregate" /\ metric \in Reaggregated THEN "detect"
           ELSE "forward"
  /\ UNCHANGED <<mode, metric, i, seen, remove, idx, kept>>

PNext == Enforce \/ (Next /\ UNCHANGED mode)

PSpec == PInit /\ [][PNext]_pvars
-----------------------------------------------------------------------------
\* The merge is entered only in the mode and for the types it is written for,
\* and keeps to its types.
ProcessTypeOK ==
  /\ mode \in Modes /\ metric \in MetricTypes
  /\ pc \notin {"enforce", "forward"} => mode = "strip_and_reaggregate" /\ TypeOK

\* Points of one identity on the way to the next consumer are two writers of one
\* series.
Distinct(slice) ==
  \A j, k \in DOMAIN slice : hashAttributes(slice[j].attrs) = hashAttributes(slice[k].attrs) => j = k

\* Where nothing is merged afterwards, in the other modes and for the types that
\* cannot be, each point goes on as its own point that has lost no label, and no
\* two become alike that were not.  This excludes overflow_attribute, where two
\* points whose values are both replaced end up alike and stay two, and points
\* that came in with otel.metric.overflow, which a tag may make another's twin.
UnmergedKept ==
  [][pc = "enforce" /\ pc' = "forward" =>
       /\ DOMAIN dps' = DOMAIN dps
       /\ \A j \in DOMAIN dps :
            /\ dps'[j] = [dps[j] EXCEPT !.attrs = dps'[j].attrs]
            /\ DOMAIN dps[j].attrs \subseteq DOMAIN dps'[j].attrs
       /\ /\ Distinct(dps) /\ mode # "overflow_attribute"
          /\ \A j \in DOMAIN dps : OverflowLabel \notin DOMAIN dps[j].attrs
          => Distinct(dps')]_pvars
=============================================================================
