------------------------- MODULE ProcessMetricProofs -------------------------
(***************************************************************************)
(* processMetric on a metric of any type, in any mode and with any answers *)
(* of shouldDrop: where it removes labels it hands the points to           *)
(* ReaggregationProofs' merge as that expects them, and elsewhere the      *)
(* points stay what they were.                                             *)
(***************************************************************************)
EXTENDS ProcessMetric, ReaggregationProofs

ProcessInv ==
  /\ mode \in Modes /\ metric \in MetricTypes
  /\ pc \in {"enforce", "forward", "detect", "merge", "compact", "done"}
  /\ pc = "enforce" =>
       /\ CameIn /\ dps = received /\ i = 1 /\ idx = 1
       /\ seen = [h \in {} |-> 0] /\ remove = {} /\ kept = <<>>
  /\ pc \notin {"enforce", "forward"} => mode = "strip_and_reaggregate" /\ ReaggregationInv

-----------------------------------------------------------------------------

\* Enforcement changes the attributes and nothing else of each point.
LEMMA EnforceChanges ==
  ASSUME ProcessInv, Enforce
  PROVE  /\ pc = "enforce" /\ CameIn /\ dps = received /\ received' = dps'
         /\ DOMAIN dps = 1..Len(dps) /\ Len(dps) \in Nat
         /\ UNCHANGED <<mode, metric, i, seen, remove, idx, kept>>
         /\ pc' = IF mode = "strip_and_reaggregate" /\ metric \in Reaggregated THEN "detect"
                  ELSE "forward"
         /\ \E flagged \in [DOMAIN dps -> SUBSET UNION {DOMAIN dps[j].attrs : j \in DOMAIN dps}] :
              /\ \A j \in DOMAIN dps : flagged[j] \subseteq DOMAIN dps[j].attrs
              /\ dps' = [j \in DOMAIN dps |->
                   [dps[j] EXCEPT !.attrs = Enforced(@, flagged[j], ModeFor(mode, metric))]]
BY LenProperties DEF ProcessInv, Enforce, CameIn

\* Without labels that were removed the slice is one that the merge expects.
LEMMA StripKeepsPoints ==
  ASSUME ProcessInv, Enforce, pc' = "detect"
  PROVE  CameIn' /\ metric \in {"gauge", "delta_sum"} /\ mode = "strip_and_reaggregate"
<1>1. mode = "strip_and_reaggregate" /\ metric \in Reaggregated
  BY EnforceChanges
<1>2. ModeFor(mode, metric) = "strip_and_reaggregate"
  BY <1>1 DEF ModeFor
<1>3. PICK flagged \in [DOMAIN dps -> SUBSET UNION {DOMAIN dps[j].attrs : j \in DOMAIN dps}] :
        /\ \A j \in DOMAIN dps : flagged[j] \subseteq DOMAIN dps[j].attrs
        /\ dps' = [j \in DOMAIN dps |->
             [dps[j] EXCEPT !.attrs = Enforced(@, flagged[j], ModeFor(mode, metric))]]
  BY EnforceChanges
<1> DEFINE n == Len(dps)
<1>4. /\ n \in Nat /\ DOMAIN dps = 1..n /\ dps = received /\ received' = dps'
      /\ received \in Seq(AnyPoint)
      /\ \A j \in 1..n : dps[j] \in AnyPoint /\ dps[j].exemplars = <<j>> /\ Fits(dps[j])
  BY EnforceChanges, ElementOfSeq DEF CameIn
<1>5. ASSUME NEW j \in 1..n
      PROVE  dps'[j] \in AnyPoint /\ dps'[j].exemplars = <<j>> /\ Fits(dps'[j])
  <2>1. PICK a : a = Enforced(dps[j].attrs, flagged[j], "strip_and_reaggregate")
    OBVIOUS
  <2>2. a \in Attributes
    <3>1. dps[j].attrs \in Attributes /\ flagged[j] \in SUBSET DOMAIN dps[j].attrs
      BY <1>3, <1>4 DEF AnyPoint
    <3>2. CASE flagged[j] = {}
      BY <2>1, <3>1, <3>2 DEF Enforced
    <3>3. CASE flagged[j] # {}
      <4>1. a = [k \in DOMAIN dps[j].attrs \ flagged[j] |-> dps[j].attrs[k]]
        BY <2>1, <3>3 DEF Enforced
      <4> QED
        BY <3>1, <4>1, AttributesAssumption
    <3> QED
      BY <3>2, <3>3
  <2>3. dps'[j] = [dps[j] EXCEPT !.attrs = a]
    BY <1>2, <1>3, <1>4, <2>1
  <2> QED
    BY <1>4, <2>2, <2>3 DEF AnyPoint, Fits
<1>6. received' \in Seq(AnyPoint) /\ Len(received') = n
  <2>1. received' \in [1..n -> AnyPoint]
    BY <1>3, <1>4, <1>5
  <2> QED
    BY <1>4, <2>1, SeqDef, LenProperties
<1>7. CameIn'
  BY <1>4, <1>5, <1>6 DEF CameIn, Fits
<1> QED
  BY <1>1, <1>7 DEF Reaggregated

\* The merge is entered from Enforce only, and only in the one mode.
LEMMA ProcessStep == ProcessInv /\ [PNext]_pvars => ProcessInv'
<1> SUFFICES ASSUME ProcessInv, [PNext]_pvars
             PROVE  ProcessInv'
  OBVIOUS
<1>1. CASE Enforce
  <2>1. /\ pc' \in {"detect", "forward"} /\ received' = dps'
        /\ UNCHANGED <<mode, metric, i, seen, remove, idx, kept>>
        /\ i = 1 /\ idx = 1 /\ seen = [h \in {} |-> 0] /\ remove = {} /\ kept = <<>>
    BY <1>1, EnforceChanges DEF ProcessInv
  <2>2. CASE pc' = "detect"
    <3>1. CameIn' /\ metric \in {"gauge", "delta_sum"} /\ mode = "strip_and_reaggregate"
      BY <1>1, <2>2, StripKeepsPoints
    <3>2. (CameIn /\ dps = received /\ i = 1 /\ idx = 1 /\ seen = [h \in {} |-> 0] /\ remove = {}
           /\ kept = <<>> /\ metric \in {"gauge", "delta_sum"} /\ pc = "detect"
           => ReaggregationInv)'
      BY FreshInv, PTL
    <3>3. ReaggregationInv'
      BY <2>1, <2>2, <3>1, <3>2
    <3> QED
      BY <2>1, <2>2, <3>1, <3>3 DEF ProcessInv
  <2>3. CASE pc' = "forward"
    BY <2>1, <2>3 DEF ProcessInv
  <2> QED
    BY <2>1, <2>2, <2>3
<1>2. CASE Next /\ UNCHANGED mode
  <2>1. pc \notin {"enforce", "forward"}
    BY <1>2 DEF Next, ReturnEarly, BeginMerge, Lead, Merge, BeginCompact, Compact, Truncate
  <2>2. ReaggregationInv' /\ mode = "strip_and_reaggregate" /\ mode' = mode
    BY <1>2, <2>1, InvStep DEF ProcessInv
  <2>3. metric' = metric
    BY <1>2 DEF Next, ReturnEarly, BeginMerge, Lead, Merge, BeginCompact, Compact, Truncate
  <2>4. pc' \in {"detect", "merge", "compact", "done"}
    BY <2>2 DEF ReaggregationInv, TypeOK
  <2> QED
    BY <2>2, <2>3, <2>4 DEF ProcessInv
<1>3. CASE UNCHANGED pvars
  <2>1. UNCHANGED vars /\ UNCHANGED <<mode, metric, dps, i, seen, remove, idx, kept, pc, received>>
    BY <1>3 DEF pvars, vars
  <2>2. ReaggregationInv => ReaggregationInv'
    BY <2>1, StutterKeepsInv
  <2>3. CameIn => CameIn'
    BY <2>1 DEF CameIn
  <2> QED
    BY <2>1, <2>2, <2>3 DEF ProcessInv
<1> QED
  BY <1>1, <1>2, <1>3 DEF PNext

\* The invariant holds throughout the life of a metric.
LEMMA ProcessAlways == PSpec => []ProcessInv
<1>1. PInit => ProcessInv
  BY UntouchedPoints DEF PInit, ProcessInv
<1> QED
  BY <1>1, ProcessStep, PTL DEF PSpec

-----------------------------------------------------------------------------

\* The merge is entered only in the mode and for the types it is written for,
\* and keeps to its types.
THEOREM ProcessTyped == PSpec => []ProcessTypeOK
<1>1. ProcessInv => ProcessTypeOK
  BY DEF ProcessInv, ProcessTypeOK, ReaggregationInv
<1> QED
  BY <1>1, ProcessAlways, PTL

\* What the merge promises of any slice it keeps of those that enforcement has
\* made, in every mode.
THEOREM StrippedAreMerged ==
  PSpec => [](SingleWriter /\ LeadersKept /\ LatestWins /\ IntervalIsHull
                /\ TotalsPreserved /\ ExemplarsPreserved)
<1>1. ProcessInv => SingleWriter /\ LeadersKept /\ LatestWins /\ IntervalIsHull
                      /\ TotalsPreserved /\ ExemplarsPreserved
  <2>1. CASE Returned
    BY <2>1, InvWriter, InvLeaders, InvLatest, InvHull, InvTotals, InvExemplars
    DEF ProcessInv, Returned
  <2>2. CASE ~Returned
    BY <2>2 DEF SingleWriter, LeadersKept, LatestWins, IntervalIsHull, TotalsPreserved,
                ExemplarsPreserved
  <2> QED
    BY <2>1, <2>2
<1> QED
  BY <1>1, ProcessAlways, PTL

-----------------------------------------------------------------------------

\* A tag is one more pair in the hash, and no pair of an untagged point.
LEMMA TagHash ==
  ASSUME NEW attrs, OverflowLabel \notin DOMAIN attrs, NEW flagged
  PROVE  LET tag == <<OverflowLabel, Text[True]>>
             e   == Enforced(attrs, flagged, "tag_only")
         IN  /\ tag \notin hashAttributes(attrs)
             /\ hashAttributes(e) = hashAttributes(attrs) \union (IF flagged = {} THEN {} ELSE {tag})
<1> DEFINE tag == <<OverflowLabel, Text[True]>>
           e == Enforced(attrs, flagged, "tag_only")
<1>1. tag \notin hashAttributes(attrs)
  BY DEF hashAttributes
<1>2. CASE flagged = {}
  BY <1>1, <1>2 DEF Enforced
<1>3. CASE flagged # {}
  <2>1. e = [k \in DOMAIN attrs \union {OverflowLabel} |-> IF k = OverflowLabel THEN True ELSE attrs[k]]
    BY <1>3 DEF Enforced
  <2> HIDE DEF e
  <2>2. DOMAIN e = DOMAIN attrs \union {OverflowLabel} /\ e[OverflowLabel] = True
        /\ \A k \in DOMAIN attrs : e[k] = attrs[k]
    BY <2>1
  <2>3. hashAttributes(e) = hashAttributes(attrs) \union {tag}
    BY <2>2 DEF hashAttributes
  <2> QED
    BY <1>1, <1>3, <2>3 DEF e
<1> QED
  BY <1>2, <1>3

\* In a mode that removes nothing every label stays.
LEMMA LabelsStay ==
  ASSUME NEW attrs, NEW flagged, flagged \subseteq DOMAIN attrs,
         NEW m \in {"tag_only", "overflow_attribute"}
  PROVE  DOMAIN attrs \subseteq DOMAIN Enforced(attrs, flagged, m)
BY DEF Enforced

\* What goes on without a merge is one point for one, with all its labels, and
\* tags alone make no two of them alike.
THEOREM ForwardedStayApart == PSpec => UnmergedKept
<1>1. ProcessInv /\ [PNext]_pvars => [pc = "enforce" /\ pc' = "forward" =>
       /\ DOMAIN dps' = DOMAIN dps
       /\ \A j \in DOMAIN dps :
            /\ dps'[j] = [dps[j] EXCEPT !.attrs = dps'[j].attrs]
            /\ DOMAIN dps[j].attrs \subseteq DOMAIN dps'[j].attrs
       /\ /\ Distinct(dps) /\ mode # "overflow_attribute"
          /\ \A j \in DOMAIN dps : OverflowLabel \notin DOMAIN dps[j].attrs
          => Distinct(dps')]_pvars
  <2> SUFFICES ASSUME ProcessInv, PNext, pc = "enforce", pc' = "forward"
               PROVE  /\ DOMAIN dps' = DOMAIN dps
                      /\ \A j \in DOMAIN dps :
                           /\ dps'[j] = [dps[j] EXCEPT !.attrs = dps'[j].attrs]
                           /\ DOMAIN dps[j].attrs \subseteq DOMAIN dps'[j].attrs
                      /\ /\ Distinct(dps) /\ mode # "overflow_attribute"
                         /\ \A j \in DOMAIN dps : OverflowLabel \notin DOMAIN dps[j].attrs
                         => Distinct(dps')
    BY Zenon
  <2> DEFINE m == ModeFor(mode, metric)
  <2>1. Enforce
    BY DEF PNext, Next, ReturnEarly, BeginMerge, Lead, Merge, BeginCompact, Compact, Truncate
  <2>2. m \in {"tag_only", "overflow_attribute"} /\ (mode # "overflow_attribute" => m = "tag_only")
    BY <2>1, EnforceChanges DEF ModeFor, ProcessInv, Modes
  <2>3. PICK flagged \in [DOMAIN dps -> SUBSET UNION {DOMAIN dps[j].attrs : j \in DOMAIN dps}] :
          /\ \A j \in DOMAIN dps : flagged[j] \subseteq DOMAIN dps[j].attrs
          /\ dps' = [j \in DOMAIN dps |-> [dps[j] EXCEPT !.attrs = Enforced(@, flagged[j], m)]]
    BY <2>1, EnforceChanges
  <2> HIDE DEF m
  <2>4. /\ DOMAIN dps' = DOMAIN dps
        /\ \A j \in DOMAIN dps : dps[j] \in AnyPoint
    BY <2>1, <2>3, EnforceChanges, ElementOfSeq DEF CameIn
  <2>5. \A j \in DOMAIN dps :
          /\ dps'[j] = [dps[j] EXCEPT !.attrs = dps'[j].attrs]
          /\ dps'[j].attrs = Enforced(dps[j].attrs, flagged[j], m)
    <3> SUFFICES ASSUME NEW j \in DOMAIN dps
                 PROVE  /\ dps'[j] = [dps[j] EXCEPT !.attrs = dps'[j].attrs]
                        /\ dps'[j].attrs = Enforced(dps[j].attrs, flagged[j], m)
      OBVIOUS
    <3>1. PICK a : a = Enforced(dps[j].attrs, flagged[j], m)
      OBVIOUS
    <3>2. dps'[j] = [dps[j] EXCEPT !.attrs = a]
      BY <2>3, <3>1
    <3>3. dps'[j].attrs = a
      BY <2>4, <3>2 DEF AnyPoint
    <3> QED
      BY <3>1, <3>2, <3>3
  <2>6. \A j \in DOMAIN dps : DOMAIN dps[j].attrs \subseteq DOMAIN dps'[j].attrs
    <3> SUFFICES ASSUME NEW j \in DOMAIN dps
                 PROVE  DOMAIN dps[j].attrs \subseteq DOMAIN dps'[j].attrs
      OBVIOUS
    <3>1. flagged[j] \subseteq DOMAIN dps[j].attrs
      BY <2>3
    <3>2. DOMAIN dps[j].attrs \subseteq DOMAIN Enforced(dps[j].attrs, flagged[j], m)
      BY <2>2, <3>1, LabelsStay, Zenon
    <3> QED
      BY <2>5, <3>2
  <2>7. ASSUME Distinct(dps), m = "tag_only",
               \A j \in DOMAIN dps : OverflowLabel \notin DOMAIN dps[j].attrs
        PROVE  Distinct(dps')
    <3> DEFINE tag == <<OverflowLabel, Text[True]>>
    <3>1. \A j \in DOMAIN dps :
            /\ tag \notin hashAttributes(dps[j].attrs)
            /\ hashAttributes(dps'[j].attrs) = hashAttributes(dps[j].attrs)
                 \/ hashAttributes(dps'[j].attrs) = hashAttributes(dps[j].attrs) \union {tag}
      <4> TAKE j \in DOMAIN dps
      <4>1. dps'[j].attrs = Enforced(dps[j].attrs, flagged[j], "tag_only")
        BY <2>5, <2>7
      <4>2. OverflowLabel \notin DOMAIN dps[j].attrs
        BY <2>7
      <4>3. /\ tag \notin hashAttributes(dps[j].attrs)
            /\ hashAttributes(Enforced(dps[j].attrs, flagged[j], "tag_only"))
                 = hashAttributes(dps[j].attrs) \union (IF flagged[j] = {} THEN {} ELSE {tag})
        BY <4>2, TagHash, Zenon
      <4> HIDE DEF tag
      <4> QED
        BY <4>1, <4>3
    <3> HIDE DEF tag
    <3>2. \A j \in DOMAIN dps : hashAttributes(dps'[j].attrs) \ {tag} = hashAttributes(dps[j].attrs)
      BY <3>1
    <3>3. \A j, k \in DOMAIN dps :
            hashAttributes(dps'[j].attrs) = hashAttributes(dps'[k].attrs)
              => hashAttributes(dps[j].attrs) = hashAttributes(dps[k].attrs)
      BY <3>2
    <3> QED
      BY <2>4, <2>7, <3>3, Zenon DEF Distinct
  <2> QED
    BY <2>2, <2>4, <2>5, <2>6, <2>7
<1> QED
  BY <1>1, ProcessAlways, PTL DEF PSpec, UnmergedKept
=============================================================================
