-------------------------- MODULE EnforcementProofs --------------------------
(***************************************************************************)
(* Enforcement's invariants, for any goroutines, labels and cap.           *)
(*                                                                         *)
(* What a forwarded point looks like follows from what is true of it while *)
(* its labels are visited (PointInv): so far every label shouldDrop was    *)
(* against is either dealt with or held in one of the three locals, as the *)
(* mode that holds for the point says.  The two counter invariants are     *)
(* inductive as they stand.                                                *)
(***************************************************************************)
EXTENDS Enforcement, FiniteSetTheorems, TLAPS

\* The mode that holds for the point, and a label on its way out of it.
Effective(th) == ModeFor(mode, type[th])
Removing(th, k) == pc[th] \in {"count", "log", "write"} /\ k = stripping[th]

\* The point of one goroutine, from the moment it is received.
PointInv(th) ==
  /\ pc[th] = "idle" =>
       flagged[th] = {} /\ overflowKeys[th] = {} /\ ~shouldTag[th] /\ ~tagged[th]
  /\ pc[th] # "idle" =>
       /\ todo[th] \subseteq received[th] \ flagged[th]
       /\ flagged[th] \subseteq received[th] \ Protected
       /\ shouldTag[th] = (Effective(th) = "tag_only" /\ flagged[th] # {})
       /\ overflowKeys[th] =
            IF Effective(th) = "overflow_attribute" THEN flagged[th] ELSE {}
       /\ tagged[th] = (pc[th] = "forward" /\ shouldTag[th])
       /\ \A k \in Labels \ received[th] : attrs[th][k] = "absent"
       /\ \A k \in received[th] \ flagged[th] : attrs[th][k] = "raw"
  /\ pc[th] \in {"count", "log", "write"} =>
       stripping[th] \in flagged[th] /\ Effective(th) = "strip_and_reaggregate"
  /\ pc[th] \in {"visit", "count", "log", "write"} =>
       \A k \in flagged[th] : attrs[th][k] =
         IF Effective(th) = "strip_and_reaggregate" /\ ~Removing(th, k)
         THEN "absent" ELSE "raw"
  /\ pc[th] = "forward" => \A k \in flagged[th] : attrs[th][k] = Fate[Effective(th)]

PointsInv == \A th \in Threads : PointInv(th)

EnforcementInv == TypeOK /\ PointsInv /\ DropsCountedOnce /\ LogBudget

-----------------------------------------------------------------------------

\* What processMetric asks for is a mode, and removal only for a type it merges.
LEMMA EffectiveMode ==
  ASSUME NEW m \in Modes, NEW t \in MetricTypes
  PROVE  ModeFor(m, t) \in Modes
         /\ (ModeFor(m, t) = "strip_and_reaggregate" => t \in Reaggregated)
BY DEF ModeFor, Modes

LEMMA InitInv == Init => EnforcementInv
<1> SUFFICES ASSUME Init PROVE EnforcementInv
  OBVIOUS
<1>0. DropLogMaxPerEpoch \in Nat /\ MaxPoints \in Nat
  BY EnforcementAssumption
<1>1. mode \in Modes
  BY DEF Init, ValidMode, Resolved, Modes
<1>2. TypeOK
  <2>1. /\ points = 0 /\ labelsStripped = 0 /\ dropsThisEpoch = 0 /\ dropLogCount = 0
        /\ totalDrops = 0 /\ logged = 0 /\ summary = 0
        /\ removed = 0 /\ accounted = 0 /\ lines = 0 /\ late = 0 /\ rpc = "idle"
    BY DEF Init
  <2>2. points \in 0..MaxPoints
    BY <1>0, <2>1
  <2>3. /\ pc \in [Threads -> {"idle", "visit", "count", "log", "write", "forward"}]
        /\ type \in [Threads -> MetricTypes]
        /\ received \in [Threads -> SUBSET Labels]
        /\ attrs \in [Threads -> [Labels -> Fates]]
        /\ tagged \in [Threads -> BOOLEAN]
        /\ todo \in [Threads -> SUBSET Labels]
        /\ shouldTag \in [Threads -> BOOLEAN]
        /\ overflowKeys \in [Threads -> SUBSET Labels]
        /\ stripping \in [Threads -> Labels \union {NoLabel}]
        /\ flagged \in [Threads -> SUBSET Labels]
    BY DEF Init, MetricTypes, Fates
  <2> QED
    BY <1>1, <2>1, <2>2, <2>3 DEF TypeOK
<1>3. PointsInv
  BY DEF Init, PointsInv, PointInv
<1>4. DropsCountedOnce /\ LogBudget
  <2>1. /\ removed = 0 /\ accounted = 0 /\ dropsThisEpoch = 0
        /\ lines = 0 /\ late = 0 /\ dropLogCount = 0
    BY DEF Init
  <2>2. Writing = {}
    BY DEF Init, Writing
  <2> QED
    BY <1>0, <2>1, <2>2, FS_EmptySet DEF DropsCountedOnce, LogBudget
<1> QED
  BY <1>2, <1>3, <1>4 DEF EnforcementInv

\* The goroutines between their number and their line are finitely many.
LEMMA WritingFinite == IsFiniteSet(Writing) /\ Cardinality(Writing) \in Nat
BY EnforcementAssumption, FS_Subset, FS_CardinalityType DEF Writing

LEMMA TypeStep == TypeOK /\ [Next]_vars => TypeOK'
<1> SUFFICES ASSUME TypeOK, [Next]_vars PROVE TypeOK'
  OBVIOUS
<1>0. DropLogMaxPerEpoch \in Nat /\ MaxPoints \in Nat
  BY EnforcementAssumption
<1>1. ASSUME NEW th \in Threads, NEW t \in MetricTypes, NEW present \in SUBSET Labels,
             Receive(th, t, present)
      PROVE  TypeOK'
  BY <1>0, <1>1 DEF TypeOK, Receive, Fates, log, rotation
<1>2. ASSUME NEW th \in Threads, NEW k \in Labels, Keep(th, k)
      PROVE  TypeOK'
  BY <1>2 DEF TypeOK, Keep, log, rotation
<1>3. ASSUME NEW th \in Threads, NEW k \in Labels, Flag(th, k)
      PROVE  TypeOK'
  BY <1>3 DEF TypeOK, Flag, log, rotation
<1>4. ASSUME NEW th \in Threads, CountDrop(th)
      PROVE  TypeOK'
  BY <1>4 DEF TypeOK, CountDrop, point, log, rotation
<1>5. ASSUME NEW th \in Threads, Draw(th) \/ WriteLine(th)
      PROVE  TypeOK'
  <2>1. /\ dropLogCount' \in Nat /\ lines' \in Nat /\ late' = late
        /\ UNCHANGED <<mode, type, received, tagged, todo, shouldTag, overflowKeys, flagged,
                       points, labelsStripped, dropsThisEpoch, removed, rotation>>
    <3>1. CASE Draw(th)
      BY <1>0, <3>1 DEF TypeOK, Draw, Drawn
    <3>2. CASE WriteLine(th)
      BY <3>2 DEF TypeOK, WriteLine
    <3> QED
      BY <1>5, <3>1, <3>2
  <2>2. \/ UNCHANGED <<attrs, stripping>> /\ pc' = [pc EXCEPT ![th] = "write"]
        \/ Strip(th)
    BY <1>5 DEF Draw, WriteLine
  <2>3. attrs' \in [Threads -> [Labels -> Fates]]
    <3>1. CASE Strip(th)
      BY <3>1 DEF TypeOK, Strip, Fates
    <3> QED
      BY <2>2, <3>1 DEF TypeOK
  <2>4. /\ stripping' \in [Threads -> Labels \union {NoLabel}]
        /\ pc' \in [Threads -> {"idle", "visit", "count", "log", "write", "forward"}]
    BY <2>2 DEF TypeOK, Strip
  <2> QED
    BY <2>1, <2>3, <2>4 DEF TypeOK, rotation
<1>6. ASSUME NEW th \in Threads, Mutate(th)
      PROVE  TypeOK'
  BY <1>6 DEF TypeOK, Mutate, Marked, Fates, log, rotation
<1>7. ASSUME NEW th \in Threads, Forward(th)
      PROVE  TypeOK'
  BY <1>7 DEF TypeOK, Forward, Fates, MetricTypes, log, rotation
<1>8. CASE SwapDrops
  BY <1>8 DEF TypeOK, SwapDrops, point, log
<1>9. CASE SwapLogged
  BY <1>9, WritingFinite DEF TypeOK, SwapLogged, point
<1>10. CASE EmitSummary
  BY <1>10 DEF TypeOK, EmitSummary, point, log
<1>11. CASE UNCHANGED vars
  BY <1>11 DEF TypeOK, vars, point, log, rotation
<1> QED
  BY <1>1, <1>2, <1>3, <1>4, <1>5, <1>6, <1>7, <1>8, <1>9, <1>10, <1>11
     DEF Next, ThreadStep, RotatorStep

\* A goroutine's step is on its own point only.
LEMMA OtherPoints ==
  ASSUME TypeOK, NEW u \in Threads, ThreadStep(u), NEW th \in Threads, th # u, PointInv(th)
  PROVE  PointInv(th)'
<1>1. UNCHANGED <<pc[th], type[th], received[th], attrs[th], tagged[th], todo[th],
                  shouldTag[th], overflowKeys[th], stripping[th], flagged[th]>>
  BY DEF ThreadStep, TypeOK, Receive, Keep, Flag, CountDrop, Draw, WriteLine,
         Strip, Mutate, Forward, point
<1>2. mode' = mode
  BY DEF ThreadStep, Receive, Keep, Flag, CountDrop, Draw, WriteLine, Mutate, Forward
<1> QED
  BY <1>1, <1>2 DEF PointInv, Effective, Removing

LEMMA OwnPoint ==
  ASSUME TypeOK, NEW th \in Threads, ThreadStep(th), PointInv(th)
  PROVE  PointInv(th)'
<1> USE DEF TypeOK
<1>1. ASSUME NEW t \in MetricTypes, NEW present \in SUBSET Labels, Receive(th, t, present)
      PROVE  PointInv(th)'
  BY <1>1 DEF PointInv, Effective, Removing, Receive
<1>2. ASSUME NEW k \in Labels, Keep(th, k)
      PROVE  PointInv(th)'
  BY <1>2 DEF PointInv, Effective, Removing, Keep
<1>3. ASSUME NEW k \in Labels, Flag(th, k)
      PROVE  PointInv(th)'
  <2> DEFINE m == Effective(th)
  <2>1. m \in Modes /\ m' = m
    BY <1>3, EffectiveMode DEF Effective, Flag
  <2>2. m = ModeFor(mode, type[th])
    BY DEF Effective
  <2> HIDE DEF m
  <2>3. /\ pc[th] = "visit" /\ k \in todo[th] /\ k \notin Protected
        /\ pc'[th] = IF m = "strip_and_reaggregate" THEN "count" ELSE "visit"
        /\ todo'[th] = todo[th] \ {k}
        /\ flagged'[th] = flagged[th] \union {k}
        /\ shouldTag'[th] = (shouldTag[th] \/ m = "tag_only")
        /\ overflowKeys'[th] =
             IF m = "overflow_attribute" THEN overflowKeys[th] \union {k} ELSE overflowKeys[th]
        /\ stripping'[th] = IF m = "strip_and_reaggregate" THEN k ELSE stripping[th]
        /\ UNCHANGED <<type, received, attrs, tagged>>
    BY <1>3, <2>2 DEF Flag, Droppable
  <2>4. CASE m = "tag_only"
    BY <2>1, <2>3, <2>4 DEF PointInv, Removing, m
  <2>5. CASE m = "overflow_attribute"
    BY <2>1, <2>3, <2>5 DEF PointInv, Removing, m
  <2>6. CASE m = "strip_and_reaggregate"
    BY <2>1, <2>3, <2>6 DEF PointInv, Removing, m
  <2> QED
    BY <2>1, <2>4, <2>5, <2>6 DEF Modes
<1>4. CASE CountDrop(th)
  BY <1>4 DEF PointInv, Effective, Removing, CountDrop, point
<1>5. CASE pc[th] \in {"log", "write"} /\ Strip(th) /\ UNCHANGED <<mode, type, received, tagged,
             todo, shouldTag, overflowKeys, flagged>>
  <2>1. /\ pc'[th] = "visit" /\ Effective(th)' = Effective(th)
        /\ attrs'[th] = [attrs[th] EXCEPT ![stripping[th]] = "absent"]
    BY <1>5 DEF Strip, Effective
  <2>2. /\ stripping[th] \in flagged[th] /\ stripping[th] \in received[th]
        /\ Effective(th) = "strip_and_reaggregate"
    BY <1>5 DEF PointInv
  <2>3. \A k \in Labels : attrs'[th][k] = IF k = stripping[th] THEN "absent" ELSE attrs[th][k]
    BY <2>1
  <2>4. received[th] \subseteq Labels /\ flagged[th] \subseteq Labels
    OBVIOUS
  <2> QED
    BY <1>5, <2>1, <2>2, <2>3, <2>4 DEF PointInv, Removing
<1>6. CASE Draw(th) /\ UNCHANGED <<attrs, stripping>> /\ pc' = [pc EXCEPT ![th] = "write"]
  BY <1>6 DEF PointInv, Effective, Removing, Draw
<1>7. CASE Mutate(th)
  <2>1. /\ pc[th] = "visit" /\ pc'[th] = "forward" /\ Effective(th)' = Effective(th)
        /\ tagged'[th] = (tagged[th] \/ shouldTag[th])
        /\ \A k \in Labels : attrs'[th][k] =
             IF k \in overflowKeys[th] THEN "sentinel" ELSE attrs[th][k]
        /\ UNCHANGED <<type, received, todo, shouldTag, overflowKeys, flagged>>
    BY <1>7 DEF Mutate, Marked, Effective
  <2>2. received[th] \subseteq Labels /\ flagged[th] \subseteq Labels
    OBVIOUS
  <2>3. Effective(th) \in Modes
    BY EffectiveMode DEF Effective
  <2>4. \A k \in flagged[th] : attrs'[th][k] = Fate[Effective(th)]
    BY <2>1, <2>2, <2>3 DEF PointInv, Removing, Modes, Fate
  <2> QED
    BY <2>1, <2>2, <2>4 DEF PointInv
<1>8. CASE Forward(th)
  BY <1>8 DEF PointInv, Forward
<1> QED
  BY <1>1, <1>2, <1>3, <1>4, <1>5, <1>6, <1>7, <1>8 DEF ThreadStep, Draw, WriteLine

LEMMA PointsStep == TypeOK /\ PointsInv /\ [Next]_vars => PointsInv'
<1> SUFFICES ASSUME TypeOK, PointsInv, [Next]_vars, NEW th \in Threads
             PROVE  PointInv(th)'
  BY DEF PointsInv
<1>1. ASSUME NEW u \in Threads, ThreadStep(u)
      PROVE  PointInv(th)'
  BY <1>1, OtherPoints, OwnPoint DEF PointsInv
<1>2. CASE RotatorStep \/ UNCHANGED vars
  <2>1. UNCHANGED <<mode, pc, point>>
    BY <1>2 DEF RotatorStep, SwapDrops, SwapLogged, EmitSummary, vars
  <2> QED
    BY <2>1 DEF PointsInv, PointInv, Effective, Removing, point
<1> QED
  BY <1>1, <1>2 DEF Next

\* The counters: both are disturbed only by the goroutines that add to them and by
\* the rotation that swaps them.
LEMMA CountersStep ==
  TypeOK /\ DropsCountedOnce /\ LogBudget /\ [Next]_vars => DropsCountedOnce' /\ LogBudget'
<1> SUFFICES ASSUME TypeOK, DropsCountedOnce, LogBudget, [Next]_vars
             PROVE  DropsCountedOnce' /\ LogBudget'
  OBVIOUS
<1>0. DropLogMaxPerEpoch \in Nat
  BY EnforcementAssumption
<1> USE <1>0 DEF TypeOK, DropsCountedOnce, LogBudget
<1>1. ASSUME NEW th \in Threads, CountDrop(th)
      PROVE  DropsCountedOnce' /\ LogBudget'
  <2>1. Writing' = Writing
    BY <1>1 DEF CountDrop, Writing
  <2> QED
    BY <1>1, <2>1, WritingFinite DEF CountDrop, log, rotation
<1>2. ASSUME NEW th \in Threads, Draw(th)
      PROVE  DropsCountedOnce' /\ LogBudget'
  <2>1. DropsCountedOnce'
    BY <1>2 DEF Draw, rotation
  <2>2. CASE DropLogMaxPerEpoch > 0 /\ Warns(Drawn)
    <3>1. Writing' = Writing \union {th} /\ th \notin Writing
      BY <1>2, <2>2 DEF Draw, Writing
    <3>2. Cardinality(Writing') = Cardinality(Writing) + 1
      BY <3>1, WritingFinite, FS_AddElement
    <3>3. /\ dropLogCount' = dropLogCount + 1 /\ dropLogCount + 1 <= DropLogMaxPerEpoch
          /\ lines' = lines /\ late' = late
      BY <1>2, <2>2 DEF Draw, Drawn, Warns
    <3>4. LogBudget'
      <4> HIDE DEF TypeOK, DropsCountedOnce
      <4>1. lines \in Nat /\ late \in Nat /\ dropLogCount \in Nat
        BY DEF TypeOK
      <4> QED
        BY <3>2, <3>3, <4>1, WritingFinite
    <3> QED
      BY <2>1, <3>4
  <2>3. CASE DropLogMaxPerEpoch > 0 /\ ~Warns(Drawn)
    <3>1. Writing' = Writing
      BY <1>2, <2>3 DEF Draw, Strip, Writing
    <3>2. /\ dropLogCount' = dropLogCount + 1 /\ dropLogCount + 1 > DropLogMaxPerEpoch
          /\ lines' = lines /\ late' = late
      BY <1>2, <2>3 DEF Draw, Drawn, Warns
    <3> QED
      BY <2>1, <3>1, <3>2, WritingFinite
  <2> QED
    BY <2>1, <2>2, <2>3
<1>3. ASSUME NEW th \in Threads, WriteLine(th)
      PROVE  DropsCountedOnce' /\ LogBudget'
  <2>1. Writing' = Writing \ {th} /\ th \in Writing
    BY <1>3 DEF WriteLine, Strip, Writing
  <2>2. Cardinality(Writing') = Cardinality(Writing) - 1
    BY <2>1, WritingFinite, FS_RemoveElement
  <2> QED
    BY <1>3, <2>2, WritingFinite DEF WriteLine, rotation
<1>4. ASSUME NEW th \in Threads, ThreadStep(th), ~CountDrop(th), ~Draw(th), ~WriteLine(th)
      PROVE  DropsCountedOnce' /\ LogBudget'
  <2>1. UNCHANGED <<dropsThisEpoch, removed, log, rotation>>
    BY <1>4 DEF ThreadStep, Receive, Keep, Flag, Mutate, Forward
  <2>2. Writing' = Writing
    BY <1>4 DEF ThreadStep, Receive, Keep, Flag, Mutate, Forward, Writing
  <2> QED
    BY <2>1, <2>2, WritingFinite DEF log, rotation
<1>5. CASE RotatorStep \/ UNCHANGED vars
  <2>1. Writing' = Writing
    BY <1>5 DEF RotatorStep, SwapDrops, SwapLogged, EmitSummary, vars, Writing
  <2>2. CASE SwapDrops
    BY <2>1, <2>2, WritingFinite DEF SwapDrops, log
  <2>3. CASE SwapLogged
    BY <2>1, <2>3, WritingFinite DEF SwapLogged
  <2>4. CASE EmitSummary \/ UNCHANGED vars
    BY <2>1, <2>4, WritingFinite DEF EmitSummary, vars, log, rotation
  <2> QED
    BY <1>5, <2>2, <2>3, <2>4 DEF RotatorStep
<1> QED
  BY <1>1, <1>2, <1>3, <1>4, <1>5 DEF Next

\* The inductive invariant holds in every reachable state.
THEOREM EnforcementInvHolds == Spec => []EnforcementInv
<1>1. EnforcementInv /\ [Next]_vars => EnforcementInv'
  BY TypeStep, PointsStep, CountersStep DEF EnforcementInv
<1> QED
  BY <1>1, InitInv, PTL DEF Spec

\* The variables keep to their types: the model of handleAttributesWithMode and of
\* the drop counters writes no value the code could not.
THEOREM TypeCorrect == Spec => []TypeOK
<1>1. EnforcementInv => TypeOK
  BY DEF EnforcementInv
<1> QED
  BY <1>1, EnforcementInvHolds, PTL

\* processMetric's fall-back: with any goroutines and labels, an attribute is
\* removed only from points that reaggregateNumberDataPoints gets to merge.
THEOREM RemovalIsMerged == Spec => []StrippedOnlyIfReaggregated
<1>1. EnforcementInv => StrippedOnlyIfReaggregated
  <2> SUFFICES ASSUME EnforcementInv, NEW th \in Threads, pc[th] = "forward",
                      NEW k \in received[th], attrs[th][k] = "absent"
               PROVE  type[th] \in Reaggregated
    BY DEF StrippedOnlyIfReaggregated
  <2>1. mode \in Modes /\ type[th] \in MetricTypes /\ PointInv(th)
    BY DEF EnforcementInv, TypeOK, PointsInv
  <2>2. k \in flagged[th] /\ Fate[Effective(th)] = "absent"
    BY <2>1 DEF PointInv
  <2>3. /\ Effective(th) \in Modes
        /\ Effective(th) = "strip_and_reaggregate" => type[th] \in Reaggregated
    BY <2>1, EffectiveMode DEF Effective
  <2> QED
    BY <2>2, <2>3 DEF Fate, Modes
<1> QED
  BY <1>1, EnforcementInvHolds, PTL

\* handleAttributesWithMode applies each of shouldDrop's decisions and nothing
\* else, whatever the mode, the metric's type and the labels.
THEOREM DecisionsShow == Spec => []EnforcementShows
<1>1. EnforcementInv => EnforcementShows
  <2> SUFFICES ASSUME EnforcementInv, NEW th \in Threads, pc[th] = "forward"
               PROVE  LET m == ModeFor(mode, type[th])
                      IN  /\ attrs[th] = [k \in Labels |->
                               IF k \in flagged[th] \ Protected THEN Fate[m]
                               ELSE IF k \in received[th] THEN "raw" ELSE "absent"]
                          /\ tagged[th] <=> m = "tag_only" /\ flagged[th] # {}
    BY DEF EnforcementShows
  <2>1. /\ PointInv(th) /\ attrs[th] \in [Labels -> Fates]
        /\ received[th] \subseteq Labels /\ tagged[th] \in BOOLEAN
    BY DEF EnforcementInv, TypeOK, PointsInv
  <2>2. \A k \in Labels : attrs[th][k] =
          IF k \in flagged[th] \ Protected THEN Fate[ModeFor(mode, type[th])]
          ELSE IF k \in received[th] THEN "raw" ELSE "absent"
    BY <2>1 DEF PointInv, Effective
  <2>3. tagged[th] <=> ModeFor(mode, type[th]) = "tag_only" /\ flagged[th] # {}
    BY <2>1 DEF PointInv, Effective
  <2> QED
    BY <2>1, <2>2, <2>3
<1> QED
  BY <1>1, EnforcementInvHolds, PTL

\* dropsThisEpoch.Add against dropsThisEpoch.Swap: every removal is in exactly one
\* epoch's count.
THEOREM NoDropLost == Spec => []DropsCountedOnce
<1>1. EnforcementInv => DropsCountedOnce
  BY DEF EnforcementInv
<1> QED
  BY <1>1, EnforcementInvHolds, PTL

\* dropLogCount: for any number of goroutines and any cap, the drops drawn since
\* the last reset are logged up to the cap, and beyond it only what that reset
\* found on its way to the log.
THEOREM LogStaysWithinBudget == Spec => []LogBudget
<1>1. EnforcementInv => LogBudget
  BY DEF EnforcementInv
<1> QED
  BY <1>1, EnforcementInvHolds, PTL
=============================================================================
