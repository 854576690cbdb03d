----------------------------- MODULE Enforcement -----------------------------
(***************************************************************************)
(* What happens to the attributes of the data points, and to the counters  *)
(* behind the drop log: the goroutines of ConsumeMetrics visit every       *)
(* attribute of a point, ask shouldDrop and act in the enforcement mode    *)
(* that holds for the point's metric, while rotate() swaps the counters    *)
(* of the epoch out under them.                                            *)
(*                                                                         *)
(* shouldDrop's answer is any (Registry and Tracker say which), and a      *)
(* label's value is what it was ("raw"), the overflow sentinel, or gone.   *)
(***************************************************************************)
EXTENDS Configuration, FiniteSets

CONSTANTS
  Threads,             \* goroutines inside ConsumeMetrics
  Labels,              \* attribute keys
  Protected,           \* Config.NeverDropLabels
  DropLogMaxPerEpoch,  \* 0 to log every drop
  MaxPoints            \* bound: data points received

ASSUME EnforcementAssumption ==
  /\ IsFiniteSet(Threads) /\ IsFiniteSet(Labels)
  /\ DropLogMaxPerEpoch \in Nat /\ MaxPoints \in Nat

VARIABLES
  mode,            \* p.enforcementMode
  pc,              \* where each goroutine is in handleAttributesWithMode
  type,            \* the type of the metric its data point belongs to
  received,        \* the labels of the point as it came in
  attrs,           \* the point: what has become of each label
  tagged,          \* otel.metric.overflow has been put on the point
  todo,            \* the labels RemoveIf has still to visit
  shouldTag,       \* handleAttributesWithMode's local
  overflowKeys,    \* its other local
  stripping,       \* the label being logged before it is removed
  points,          \* points received so far
  labelsStripped, dropsThisEpoch, dropLogCount,   \* the atomic counters
  rpc,             \* where rotate() is with the drop counters
  totalDrops,      \* its local
  logged,          \* its other local
  summary          \* the suppressed count of the last summary line, 0 for none

\* What happened, for the properties: the labels of each point shouldDrop was
\* against, the attributes removed, those rotate() has accounted for, the Warn
\* lines since dropLogCount was last reset, and the goroutines which that reset
\* found between drawing a number and logging.
VARIABLES flagged, removed, accounted, lines, late

point == <<type, received, attrs, tagged, todo, shouldTag, overflowKeys, stripping, flagged>>
log == <<dropLogCount, lines, late>>
rotation == <<rpc, totalDrops, logged, summary, accounted>>
vars == <<mode, pc, point, points, labelsStripped, dropsThisEpoch, removed, log, rotation>>

NoLabel == "none"

Init ==
  /\ \E spelling \in Spellings, TagOnly \in BOOLEAN :
       ValidMode(spelling) /\ mode = Resolved(spelling, TagOnly)
  /\ pc = [th \in Threads |-> "idle"]
  /\ type = [th \in Threads |-> "gauge"]
  /\ received = [th \in Threads |-> {}]
  /\ attrs = [th \in Threads |-> [k \in Labels |-> "absent"]]
  /\ tagged = [th \in Threads |-> FALSE]
  /\ todo = [th \in Threads |-> {}]
  /\ shouldTag = [th \in Threads |-> FALSE]
  /\ overflowKeys = [th \in Threads |-> {}]
  /\ stripping = [th \in Threads |-> NoLabel]
  /\ flagged = [th \in Threads |-> {}]
  /\ points = 0
  /\ labelsStripped = 0 /\ dropsThisEpoch = 0 /\ dropLogCount = 0
  /\ removed = 0 /\ lines = 0 /\ late = 0
  /\ rpc = "idle" /\ totalDrops = 0 /\ logged = 0 /\ summary = 0
  /\ accounted = 0

-----------------------------------------------------------------------------
\* handleAttributesWithMode, one data point

Receive(th, t, present) ==
  /\ pc[th] = "idle"
  /\ points < MaxPoints
  /\ points' = points + 1
  /\ type' = [type EXCEPT ![th] = t]
  /\ received' = [received EXCEPT ![th] = present]
  /\ attrs' = [attrs EXCEPT ![th] = [k \in Labels |-> IF k \in present THEN "raw" ELSE "absent"]]
  /\ todo' = [todo EXCEPT ![th] = present]
  /\ pc' = [pc EXCEPT ![th] = "visit"]
  /\ UNCHANGED <<mode, tagged, shouldTag, overflowKeys, stripping, flagged, labelsStripped,
                 dropsThisEpoch, removed, log, rotation>>

\* isProtected, or an answer of shouldDrop that lets the value pass.
Keep(th, k) ==
  /\ pc[th] = "visit" /\ k \in todo[th]
  /\ todo' = [todo EXCEPT ![th] = @ \ {k}]
  /\ UNCHANGED <<mode, pc, type, received, attrs, tagged, shouldTag, overflowKeys, stripping,
                 flagged, points, labelsStripped, dropsThisEpoch, removed, log, rotation>>

\* isProtected, read before shouldDrop is asked.
DroppableAny(k) == k \in Labels
Droppable(k) == k \notin Protected

\* shouldDrop is against the value: the mode decides, and what mutates the map
\* is left for after the iteration.
Flag(th, k) ==
  /\ pc[th] = "visit" /\ k \in todo[th] /\ Droppable(k)
  /\ labelsStripped' = labelsStripped + 1
  /\ todo' = [todo EXCEPT ![th] = @ \ {k}]
  /\ flagged' = [flagged EXCEPT ![th] = @ \union {k}]
  /\ LET m == ModeFor(mode, type[th])
     IN  /\ shouldTag' = [shouldTag EXCEPT ![th] = @ \/ m = "tag_only"]
         /\ overflowKeys' = [overflowKeys EXCEPT ![th] =
                               IF m = "overflow_attribute" THEN @ \union {k} ELSE @]
         /\ stripping' = [stripping EXCEPT ![th] =
                            IF m = "strip_and_reaggregate" THEN k ELSE @]
         /\ pc' = [pc EXCEPT ![th] = IF m = "strip_and_reaggregate" THEN "count" ELSE @]
  /\ UNCHANGED <<mode, type, received, attrs, tagged, points, dropsThisEpoch, removed, log,
                 rotation>>

\* Strip mode: dropsThisEpoch.Add.
CountDrop(th) ==
  /\ pc[th] = "count"
  /\ dropsThisEpoch' = dropsThisEpoch + 1
  /\ removed' = removed + 1
  /\ pc' = [pc EXCEPT ![th] = "log"]
  /\ UNCHANGED <<mode, point, points, labelsStripped, log, rotation>>

\* The number dropLogCount.Add draws, which is not asked for without a cap, and
\* whether the drop that drew it has a Warn line.
DrawnBelow == dropLogCount - 1
Drawn == IF DropLogMaxPerEpoch = 0 THEN dropLogCount ELSE dropLogCount + 1
WarnsExclusive(n) == DropLogMaxPerEpoch = 0 \/ n < DropLogMaxPerEpoch
Warns(n) == DropLogMaxPerEpoch = 0 \/ n <= DropLogMaxPerEpoch

\* RemoveIf deletes the attribute and goes on to the next.
Strip(th) ==
  /\ attrs' = [attrs EXCEPT ![th][stripping[th]] = "absent"]
  /\ stripping' = [stripping EXCEPT ![th] = NoLabel]
  /\ pc' = [pc EXCEPT ![th] = "visit"]

\* Strip mode: dropLogCount.Add.  A drop beyond the cap has no line.
Draw(th) ==
  /\ pc[th] = "log"
  /\ dropLogCount' = Drawn
  /\ IF Warns(Drawn)
     THEN pc' = [pc EXCEPT ![th] = "write"] /\ UNCHANGED <<attrs, stripping>>
     ELSE Strip(th)
  /\ UNCHANGED <<mode, type, received, tagged, todo, shouldTag, overflowKeys, flagged,
                 points, labelsStripped, dropsThisEpoch, removed, lines, late, rotation>>

\* Strip mode: the Warn line, in whatever epoch the goroutine gets to it.
WriteLine(th) ==
  /\ pc[th] = "write"
  /\ lines' = lines + 1
  /\ Strip(th)
  /\ UNCHANGED <<mode, type, received, tagged, todo, shouldTag, overflowKeys, flagged,
                 points, labelsStripped, dropsThisEpoch, removed, dropLogCount, late,
                 rotation>>
Writing == {th \in Threads : pc[th] = "write"}

\* What the point holds for a label once the sentinels are put.
MarkedNot(th, k) == attrs[th][k]
Marked(th, k) == IF k \in overflowKeys[th] THEN "sentinel" ELSE attrs[th][k]

\* After the iteration: the tag and the sentinels that were put off.
Mutate(th) ==
  /\ pc[th] = "visit" /\ todo[th] = {}
  /\ tagged' = [tagged EXCEPT ![th] = @ \/ shouldTag[th]]
  /\ attrs' = [attrs EXCEPT ![th] = [k \in Labels |-> Marked(th, k)]]
  /\ pc' = [pc EXCEPT ![th] = "forward"]
  /\ UNCHANGED <<mode, type, received, todo, shouldTag, overflowKeys, stripping, flagged,
                 points, labelsStripped, dropsThisEpoch, removed, log, rotation>>

\* The point goes on, with the rest of its batch, to the next consumer, and the
\* locals go with the call.
Forward(th) ==
  /\ pc[th] = "forward"
  /\ pc' = [pc EXCEPT ![th] = "idle"]
  /\ type' = [type EXCEPT ![th] = "gauge"]
  /\ received' = [received EXCEPT ![th] = {}]
  /\ attrs' = [attrs EXCEPT ![th] = [k \in Labels |-> "absent"]]
  /\ tagged' = [tagged EXCEPT ![th] = FALSE]
  /\ shouldTag' = [shouldTag EXCEPT ![th] = FALSE]
  /\ overflowKeys' = [overflowKeys EXCEPT ![th] = {}]
  /\ flagged' = [flagged EXCEPT ![th] = {}]
  /\ UNCHANGED <<mode, todo, stripping, points, labelsStripped, dropsThisEpoch, removed,
                 log, rotation>>

-----------------------------------------------------------------------------
\* rotate(), its end: the drop counters of the epoch

SwapDropsKeeping ==
  /\ rpc = "idle"
  /\ totalDrops' = dropsThisEpoch
  /\ accounted' = accounted + dropsThisEpoch
  /\ rpc' = "swap"
  /\ UNCHANGED <<mode, pc, point, points, labelsStripped, dropsThisEpoch, removed, log,
                 logged, summary>>
SwapDrops ==
  /\ rpc = "idle"
  /\ totalDrops' = dropsThisEpoch
  /\ accounted' = accounted + dropsThisEpoch
  /\ dropsThisEpoch' = 0
  /\ rpc' = "swap"
  /\ UNCHANGED <<mode, pc, point, points, labelsStripped, removed, log, logged, summary>>

SwapLogged ==
  /\ rpc = "swap"
  /\ logged' = dropLogCount
  /\ dropLogCount' = 0
  /\ lines' = 0
  /\ late' = Cardinality(Writing)
  /\ rpc' = "emit"
  /\ UNCHANGED <<mode, pc, point, points, labelsStripped, dropsThisEpoch, removed,
                 totalDrops, summary, accounted>>

EmitSummary ==
  /\ rpc = "emit"
  /\ summary' = IF totalDrops - logged > 0 THEN totalDrops - logged ELSE 0
  /\ rpc' = "idle"
  /\ UNCHANGED <<mode, pc, point, points, labelsStripped, dropsThisEpoch, removed, log,
                 totalDrops, logged, accounted>>

-----------------------------------------------------------------------------

ThreadStep(th) ==
  \/ \E t \in MetricTypes, present \in SUBSET Labels : Receive(th, t, present)
  \/ \E k \in Labels : Keep(th, k) \/ Flag(th, k)
  \/ CountDrop(th) \/ Draw(th) \/ WriteLine(th) \/ Mutate(th) \/ Forward(th)

RotatorStep == SwapDrops \/ SwapLogged \/ EmitSummary

Next == RotatorStep \/ \E th \in Threads : ThreadStep(th)

Spec == Init /\ [][Next]_vars

-----------------------------------------------------------------------------

Fates == {"raw", "sentinel", "absent"}

\* Every variable keeps to the values its Go type and its role allow.
TypeOK ==
  /\ mode \in Modes
  /\ pc \in [Threads -> {"idle", "visit", "count", "log", "write", "forward"}]
  /\ type \in [Threads -> MetricTypes]
  /\ received \in [Threads -> SUBSET Labels]
  /\ attrs \in [Threads -> [Labels -> Fates]]
  /\ tagged \in [Threads -> BOOLEAN]
  /\ todo \in [Threads -> SUBSET Labels]
  /\ shouldTag \in [Threads -> BOOLEAN]
  /\ overflowKeys \in [Threads -> SUBSET Labels]
  /\ stripping \in [Threads -> Labels \union {NoLabel}]
  /\ flagged \in [Threads -> SUBSET Labels]
  /\ points \in 0..MaxPoints
  /\ labelsStripped \in Nat /\ dropsThisEpoch \in Nat /\ dropLogCount \in Nat
  /\ totalDrops \in Nat /\ logged \in Nat /\ summary \in Nat
  /\ removed \in Nat /\ accounted \in Nat /\ lines \in Nat /\ late \in Nat
  /\ rpc \in {"idle", "swap", "emit"}

\* A forwarded point misses an attribute it came with only if its metric is of a
\* type that processMetric merges afterwards: for any other, the points that a
\* removal makes alike would go on as several writers of one series.
StrippedOnlyIfReaggregated ==
  \A th \in Threads :
    pc[th] = "forward" /\ (\E k \in received[th] : attrs[th][k] = "absent")
      => type[th] \in Reaggregated

\* Each decision of shouldDrop shows on the forwarded point, through the mutations
\* put off until RemoveIf is done, and as the mode for the metric's type says: a
\* flagged label is kept, holds the sentinel or is gone.  Every other label, the
\* protected ones among them, goes on as it came, no label is invented, and the tag
\* is on exactly the points whose labels are kept against a decision.
Fate == [tag_only |-> "raw", overflow_attribute |-> "sentinel",
         strip_and_reaggregate |-> "absent"]
EnforcementShows ==
  \A th \in Threads : pc[th] = "forward" =>
    LET m == ModeFor(mode, type[th])
    IN  /\ attrs[th] = [k \in Labels |->
                          IF k \in flagged[th] \ Protected THEN Fate[m]
                          ELSE IF k \in received[th] THEN "raw" ELSE "absent"]
        /\ tagged[th] <=> m = "tag_only" /\ flagged[th] # {}

\* The goroutines that add to dropsThisEpoch and the rotation that swaps it out
\* neither lose a removal nor count one in two epochs.
DropsCountedOnce == removed = accounted + dropsThisEpoch

\* Whatever goroutines draw from dropLogCount between two resets, as many drops as
\* drew, up to the cap and no further, have been logged or are about to be.  Beyond
\* them the log shows only those the last reset found between number and line.
LogBudget ==
  DropLogMaxPerEpoch > 0 =>
    lines + Cardinality(Writing) = late +
      (IF dropLogCount < DropLogMaxPerEpoch THEN dropLogCount ELSE DropLogMaxPerEpoch)

\* What Config says of the cap: after so many warnings, further drops are silently
\* counted and a summary line is emitted at the next rotation.  A rotation that
\* counts more drops than the cap emits it.
SummaryWhenSuppressed ==
  [][rpc = "emit" /\ rpc' = "idle" /\ DropLogMaxPerEpoch \in 1..(totalDrops - 1)
       => summary' > 0]_vars
=============================================================================
