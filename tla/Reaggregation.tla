---------------------------- MODULE Reaggregation ----------------------------
(***************************************************************************)
(* reaggregateNumberDataPoints: the points of one metric that have become  *)
(* equal are merged into the first of each group, in place, and the others *)
(* are then compacted away.  Points are addressed by index throughout, and *)
(* the compaction counts the indices again by itself.                      *)
(*                                                                         *)
(* Abstractions: xxhash does not collide, so a hash is the set of what is  *)
(* hashed; doubles are integers added exactly, integers wrap at Word; each *)
(* point brings one exemplar, named by the point's index.                  *)
(***************************************************************************)
EXTENDS Integers, Sequences, Functions

CONSTANTS
  Attributes,   \* attribute sets: functions from keys to values
  Text,         \* Value.AsString of each value
  Numbers,      \* values points come with
  Times,        \* their timestamps
  Starts,       \* their start timestamps, 0 for none
  Word,         \* integers are added modulo Word
  MaxPoints     \* bound: points of a metric

Kinds == {"int", "double", "empty"}
Number == [kind : Kinds, val : Int]

VARIABLES
  metric,     \* which of the two cases of the switch holds
  dps,        \* the slice
  i,          \* the index of the loop
  seen,       \* hash -> index of the group's leader
  remove,     \* indices merged into a leader
  idx,        \* RemoveIf's position, and the callback's counter
  kept,       \* what RemoveIf has kept so far
  pc,         \* the phase
  received    \* the slice as it came in, for the properties

vars == <<metric, dps, i, seen, remove, idx, kept, pc, received>>

\* The XOR of the hashes of key and text of each pair does not depend on their
\* order, and values of one text have one hash, whatever their types.
hashAttributes(attrs) == {<<k, Text[attrs[k]]>> : k \in DOMAIN attrs}

Hash(j) == hashAttributes(dps[j].attrs)

\* Two's complement.
Unwrapped(x) == x
Wrap(x) == ((x + Word \div 2) % Word) - Word \div 2

IntRange == -(Word \div 2)..(Word - 1) - Word \div 2

ASSUME ReaggregationAssumption ==
  /\ Numbers \subseteq Number
  /\ Times \subseteq Nat /\ Starts \subseteq Nat
  /\ Word \in Nat \ {0} /\ MaxPoints \in Nat
  /\ \A n \in Numbers : n.kind = "int" => n.val \in IntRange

\* A point without a value leaves the leader's as it is.
copyNumberValue(src, dst) == IF src.kind = "empty" THEN dst ELSE src

numberDataPointToDouble(num) == IF num.kind = "empty" THEN 0 ELSE num.val

\* Only two integers are added as integers.
addNumberValueSkipping(src, dst) ==
  IF dst.kind = "empty" THEN dst
  ELSE [kind |-> "double", val |-> numberDataPointToDouble(dst) + numberDataPointToDouble(src)]
addNumberValue(src, dst) ==
  IF src.kind = "int" /\ dst.kind = "int"
  THEN [kind |-> "int", val |-> Wrap(dst.val + src.val)]
  ELSE [kind |-> "double", val |-> numberDataPointToDouble(dst) + numberDataPointToDouble(src)]

Larger(x, y) == IF x > y THEN x ELSE y
Smaller(x, y) == IF x < y THEN x ELSE y

\* Gauge: the leader takes over what a later point says.  The exemplars move
\* in any case.
MergeGaugeAlways(current, leader) ==
  [leader EXCEPT !.num = copyNumberValue(current.num, @),
                 !.ts = Larger(@, current.ts),
                 !.start = IF current.start > 0 THEN current.start ELSE @,
                 !.exemplars = @ \o current.exemplars]
MergeGaugeDropping(current, leader) ==
  IF current.ts > leader.ts THEN MergeGaugeAlways(current, leader) ELSE leader
MergeGauge(current, leader) ==
  IF current.ts > leader.ts
  THEN [leader EXCEPT !.num = copyNumberValue(current.num, @),
                      !.ts = current.ts,
                      !.start = IF current.start > 0 THEN current.start ELSE @,
                      !.exemplars = @ \o current.exemplars]
  ELSE [leader EXCEPT !.exemplars = @ \o current.exemplars]

\* Delta sum: the values are added and the interval is widened.
MergeDeltaKeepingStart(current, leader) ==
  [leader EXCEPT !.num = addNumberValue(current.num, @), !.ts = Larger(@, current.ts),
                 !.exemplars = @ \o current.exemplars]
MergeDelta(current, leader) ==
  [leader EXCEPT !.num = addNumberValue(current.num, @),
                 !.ts = Larger(@, current.ts),
                 !.start = Smaller(@, current.start),
                 !.exemplars = @ \o current.exemplars]

Shapes == [attrs : Attributes, num : Numbers, ts : Times, start : Starts]

Point(shape, j) ==
  [attrs |-> shape.attrs, num |-> shape.num, ts |-> shape.ts, start |-> shape.start,
   exemplars |-> <<j>>]

\* A slice and the locals before the first phase.
Untouched ==
  /\ \E n \in 0..MaxPoints : \E shape \in [1..n -> Shapes] :
       dps = [j \in 1..n |-> Point(shape[j], j)]
  /\ received = dps
  /\ i = 1 /\ idx = 1
  /\ seen = [h \in {} |-> 0]
  /\ remove = {}
  /\ kept = <<>>

Init == Untouched /\ metric \in {"gauge", "delta_sum"} /\ pc = "detect"

hasCollisions == \E j, k \in DOMAIN dps : j < k /\ Hash(j) = Hash(k)

\* Fewer than two points, or no two of one identity: nothing is touched.
ReturnEarly ==
  /\ pc = "detect"
  /\ ~hasCollisions
  /\ pc' = "done"
  /\ UNCHANGED <<metric, dps, i, seen, remove, idx, kept, received>>

BeginMerge ==
  /\ pc = "detect"
  /\ hasCollisions
  /\ pc' = "merge"
  /\ UNCHANGED <<metric, dps, i, seen, remove, idx, kept, received>>

\* The first of its identity leads the group.
Lead ==
  /\ pc = "merge"
  /\ i <= Len(dps)
  /\ Hash(i) \notin DOMAIN seen
  /\ seen' = [h \in DOMAIN seen \union {Hash(i)} |-> IF h = Hash(i) THEN i ELSE seen[h]]
  /\ i' = i + 1
  /\ UNCHANGED <<metric, dps, remove, idx, kept, pc, received>>

MergeInto(leader) ==
  CASE metric = "gauge"     -> MergeGauge(dps[i], leader)
    [] metric = "delta_sum" -> MergeDelta(dps[i], leader)

\* Every member but the leader goes, whether or not it changed the leader.
MarkIfLater(l) == IF dps[i].ts > dps[l].ts THEN remove \union {i} ELSE remove
Mark(l) == remove \union {i}

\* MoveAndAppendTo leaves the merged point without exemplars.
Merge ==
  /\ pc = "merge"
  /\ i <= Len(dps)
  /\ Hash(i) \in DOMAIN seen
  /\ LET l == seen[Hash(i)]
     IN  /\ dps' = [dps EXCEPT ![l] = MergeInto(@), ![i].exemplars = <<>>]
         /\ remove' = Mark(l)
  /\ i' = i + 1
  /\ UNCHANGED <<metric, seen, idx, kept, pc, received>>

BeginCompact ==
  /\ pc = "merge"
  /\ i > Len(dps)
  /\ pc' = "compact"
  /\ UNCHANGED <<metric, dps, i, seen, remove, idx, kept, received>>

shouldRemoveNext(n) == n + 1 \in remove
shouldRemove(n) == n \in remove

\* RemoveIf asks the callback about the points in order.
Compact ==
  /\ pc = "compact"
  /\ idx <= Len(dps)
  /\ kept' = IF shouldRemove(idx) THEN kept ELSE Append(kept, dps[idx])
  /\ idx' = idx + 1
  /\ UNCHANGED <<metric, dps, i, seen, remove, pc, received>>

Truncate ==
  /\ pc = "compact"
  /\ idx > Len(dps)
  /\ dps' = kept
  /\ pc' = "done"
  /\ UNCHANGED <<metric, i, seen, remove, idx, kept, received>>

Next ==
  \/ ReturnEarly \/ BeginMerge \/ Lead \/ Merge
  \/ BeginCompact \/ Compact \/ Truncate

Spec == Init /\ [][Next]_vars
-----------------------------------------------------------------------------
AnyPoint == [attrs : Attributes, num : Number, ts : Times, start : Starts, exemplars : Seq(Nat)]

\* The variables keep to their types, and no integer leaves the machine's range
\* (addNumberValue).
TypeOK ==
  /\ metric \in {"gauge", "delta_sum"}
  /\ pc \in {"detect", "merge", "compact", "done"}
  /\ received \in Seq(AnyPoint) /\ dps \in Seq(AnyPoint) /\ kept \in Seq(AnyPoint)
  /\ i \in 1..Len(received) + 1 /\ idx \in 1..Len(received) + 1
  /\ remove \subseteq 1..i - 1
  /\ \A h \in DOMAIN seen : seen[h] \in 1..i - 1
  /\ \A j \in DOMAIN dps : dps[j].num.kind = "int" => dps[j].num.val \in IntRange

\* What came in with the identity of result j.
Group(j) == {k \in DOMAIN received : hashAttributes(received[k].attrs) = Hash(j)}

\* Those of them with the latest timestamp.
Latest(j) == {k \in Group(j) : \A m \in Group(j) : received[m].ts <= received[k].ts}

Returned == pc = "done"

\* "each unique attribute set maps to exactly one data point": after the merge
\* and the compaction no two points have one identity, and none is missing.
SingleWriter ==
  Returned =>
    /\ \A j, k \in DOMAIN dps : Hash(j) = Hash(k) => j = k
    /\ \A k \in DOMAIN received :
         \E j \in DOMAIN dps : Hash(j) = hashAttributes(received[k].attrs)

\* The points left are the first of their groups, in the order they came in,
\* and a point that was alone is as it came in: the indices of the merge and
\* those the compaction counts are the same.
LeadersKept ==
  Returned =>
    /\ \A j, k \in DOMAIN dps : j < k => \E f \in Group(j) : \A m \in Group(k) : f < m
    /\ \A j \in DOMAIN dps : \A k \in Group(j) :
         (\A m \in Group(j) : k <= m) =>
           /\ dps[j].attrs = received[k].attrs
           /\ Group(j) = {k} => dps[j] = received[k]

\* Gauge, last value wins: a result has the latest timestamp of its group, and
\* value and start of one point of that timestamp unless it has none.
LatestWins ==
  Returned /\ metric = "gauge" =>
    \A j \in DOMAIN dps : \E k \in Latest(j) :
      /\ dps[j].ts = received[k].ts
      /\ received[k].num.kind # "empty" => dps[j].num = received[k].num
      /\ received[k].start > 0 => dps[j].start = received[k].start

\* Delta sum: a result covers exactly the intervals of its group, and an
\* unknown start makes the whole start unknown.
IntervalIsHull ==
  Returned /\ metric = "delta_sum" =>
    \A j \in DOMAIN dps :
      /\ \A k \in Group(j) : dps[j].start <= received[k].start /\ received[k].ts <= dps[j].ts
      /\ \E k \in Group(j) : dps[j].start = received[k].start
      /\ \E k \in Group(j) : dps[j].ts = received[k].ts

\* Delta sum: but for the wrapping of integers, what a group adds up to is what
\* its result says, whatever the mixture and the order of the kinds.
TotalsPreserved ==
  Returned /\ metric = "delta_sum" =>
    \A j \in DOMAIN dps :
      LET total == SumFunctionOnSet([k \in DOMAIN received |->
                                       numberDataPointToDouble(received[k].num)], Group(j))
      IN  (numberDataPointToDouble(dps[j].num) - total) % Word = 0

\* Each exemplar that came in is in the result of its group, once and in order.
ExemplarsPreserved ==
  Returned =>
    \A j \in DOMAIN dps :
      LET e == dps[j].exemplars
      IN  /\ {e[n] : n \in DOMAIN e} = Group(j)
          /\ \A m, n \in DOMAIN e : m < n => e[m] < e[n]

\* "the data point with the latest timestamp is kept (last-value-wins)": what a
\* gauge's result says of the value is what a latest point of its group said.
LatestPointKept ==
  Returned /\ metric = "gauge" =>
    \A j \in DOMAIN dps : \E k \in Latest(j) : dps[j].num = received[k].num
=============================================================================
