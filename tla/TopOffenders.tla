---------------------------- MODULE TopOffenders ----------------------------
(***************************************************************************)
(* rotate() as the top-offenders gauge sees it: shard by shard it reads    *)
(* how much each tracker has grown, then turns the trackers over, and at   *)
(* the end publishes the largest of what it has read; all the while        *)
(* goroutines go on inserting.                                             *)
(*                                                                         *)
(* Of a tracker only the two cached estimates matter here, so that an      *)
(* insert is one that refreshes the estimate, for itself and for up to 63  *)
(* inserts before it, with whatever the estimator says: more than before,  *)
(* as much or less.  An evicted tracker has both estimates at 0, as one    *)
(* that does not exist, so eviction is left out: Registry has it.          *)
(***************************************************************************)
EXTENDS Integers, Sequences, FiniteSets

CONSTANTS
  Keys,        \* (metric, label) pairs
  NumShards,   \* numShards
  ShardOf,     \* getShard
  Sizes,       \* what an estimator may say of a sketch
  MaxRefreshes \* bound: refreshes in a behaviour

Shards == 0..NumShards - 1

ASSUME OffendersAssumption ==
  /\ IsFiniteSet(Keys)
  /\ NumShards \in Nat \ {0} /\ ShardOf \in [Keys -> Shards]
  /\ Sizes \subseteq Nat /\ MaxRefreshes \in Nat

VARIABLES
  topN,          \* p.config.TopOffendersCount
  live,          \* the pairs that have a tracker
  curr, prev,    \* cachedCurr and cachedPrev of each
  rpc,           \* where rotate() is
  rshard,        \* the shard it is at
  entries,       \* the shard's trackers, as copied under its lock
  todo,          \* those the loop it is in has still to visit
  topBuf,        \* its buffer of offenderEntry
  topOffenders,  \* p.topOffenders
  refreshes      \* of estimates, so far

\* For the properties: what this rotation has read of each pair, and the trackers
\* refreshed between their reading and their turn.
VARIABLES read, moved

trackers == <<live, curr, prev, refreshes>>
rotation == <<rpc, rshard, entries, todo, topBuf, read>>
ovars == <<topN, trackers, rotation, topOffenders, moved>>

Zero == [k \in Keys |-> 0]

\* topN comes from the configuration, which Lifecycle has.
OInit ==
  /\ live = {} /\ curr = Zero /\ prev = Zero /\ refreshes = 0
  /\ rpc = "idle" /\ rshard = 0 /\ entries = {} /\ todo = {}
  /\ topBuf = <<>> /\ topOffenders = <<>>
  /\ read = Zero /\ moved = {}

\* Read, and not turned over yet.
Waiting == entries \ (IF rpc = "collect" THEN todo ELSE entries \ todo)

\* tracker.insert, one that refreshes the estimate of k, to n.
Refresh(k, n) ==
  /\ refreshes < MaxRefreshes
  /\ refreshes' = refreshes + 1
  /\ live' = live \union {k}
  /\ curr' = [curr EXCEPT ![k] = n]
  /\ moved' = IF k \in Waiting THEN moved \union {k} ELSE moved
  /\ UNCHANGED <<topN, prev, rotation, topOffenders>>

BeginRotate ==
  /\ rpc = "idle"
  /\ rpc' = "snapshot" /\ rshard' = 0
  /\ UNCHANGED <<topN, trackers, entries, todo, topBuf, read, topOffenders, moved>>

\* Without a gauge collectShardDeltas does not look at the trackers.
Snapshot ==
  /\ rpc = "snapshot"
  /\ entries' = {k \in live : ShardOf[k] = rshard}
  /\ todo' = entries'
  /\ rpc' = IF topN <= 0 THEN "rotate" ELSE "collect"
  /\ UNCHANGED <<topN, trackers, rshard, topBuf, read, topOffenders, moved>>

DeltaUnbased(k) == curr[k]
Delta(k) == IF curr[k] > prev[k] THEN curr[k] - prev[k] ELSE 0

\* The first of the smallest entries.
minIdx(buf) ==
  CHOOSE m \in DOMAIN buf : \A i \in DOMAIN buf :
    buf[m].delta <= buf[i].delta /\ (i < m => buf[m].delta < buf[i].delta)

\* An entry goes into the buffer while there is room, then in the place of the
\* smallest if it is larger.
OfferLast(buf, e) ==
  IF Len(buf) < topN THEN Append(buf, e)
  ELSE IF e.delta > buf[Len(buf)].delta THEN [buf EXCEPT ![Len(buf)] = e] ELSE buf
Offer(buf, e) ==
  IF Len(buf) < topN THEN Append(buf, e)
  ELSE IF e.delta > buf[minIdx(buf)].delta THEN [buf EXCEPT ![minIdx(buf)] = e] ELSE buf

\* collectShardDeltas, one tracker under its mutex.
Collect(k) ==
  /\ rpc = "collect" /\ k \in todo
  /\ todo' = todo \ {k}
  /\ topBuf' = IF Delta(k) > 0 THEN Offer(topBuf, [key |-> k, delta |-> Delta(k)]) ELSE topBuf
  /\ read' = [read EXCEPT ![k] = Delta(k)]
  /\ UNCHANGED <<topN, trackers, rpc, rshard, entries, topOffenders, moved>>

EndCollect ==
  /\ rpc = "collect" /\ todo = {}
  /\ rpc' = "rotate" /\ todo' = entries
  /\ UNCHANGED <<topN, trackers, rshard, entries, topBuf, read, topOffenders, moved>>

\* tracker.rotate.
RotateTracker(k) ==
  /\ rpc = "rotate" /\ k \in todo
  /\ todo' = todo \ {k}
  /\ prev' = [prev EXCEPT ![k] = curr[k]]
  /\ curr' = [curr EXCEPT ![k] = 0]
  /\ moved' = moved \ {k}
  /\ UNCHANGED <<topN, live, refreshes, rpc, rshard, entries, topBuf, read, topOffenders>>

EndShard ==
  /\ rpc = "rotate" /\ todo = {}
  /\ entries' = {}
  /\ IF rshard + 1 = NumShards
     THEN rpc' = "publish" /\ UNCHANGED rshard
     ELSE rpc' = "snapshot" /\ rshard' = rshard + 1
  /\ UNCHANGED <<topN, trackers, todo, topBuf, read, topOffenders, moved>>

\* One pass of the insertion sort: e goes behind the last entry of the sorted
\* ones that is not smaller.
InsertAscending(s, e) ==
  LET p == CHOOSE n \in 0..Len(s) :
             (n = 0 \/ s[n].delta <= e.delta) /\ \A j \in n + 1..Len(s) : s[j].delta > e.delta
  IN  SubSeq(s, 1, p) \o <<e>> \o SubSeq(s, p + 1, Len(s))
InsertSorted(s, e) ==
  LET p == CHOOSE n \in 0..Len(s) :
             (n = 0 \/ s[n].delta >= e.delta) /\ \A j \in n + 1..Len(s) : s[j].delta < e.delta
  IN  SubSeq(s, 1, p) \o <<e>> \o SubSeq(s, p + 1, Len(s))

sortOffenders(s) ==
  LET sorted[n \in 0..Len(s)] ==
        IF n = 0 THEN <<>> ELSE InsertSorted(sorted[n - 1], s[n])
  IN  sorted[Len(s)]

\* publishTopOffenders, and the return of rotate().
Publish ==
  /\ rpc = "publish"
  /\ topOffenders' = IF topBuf = <<>> THEN topOffenders ELSE sortOffenders(topBuf)
  /\ rpc' = "idle" /\ topBuf' = <<>> /\ read' = Zero
  /\ UNCHANGED <<topN, trackers, rshard, entries, todo, moved>>

InsideRotate ==
  \/ Snapshot \/ EndCollect \/ EndShard
  \/ \E k \in Keys : Collect(k) \/ RotateTracker(k)

-----------------------------------------------------------------------------
\* s holds the topN largest of what r says, and nothing twice.
TopOf(s, r) ==
  /\ s # <<>> => Len(s) <= topN
  /\ \A i, j \in DOMAIN s : s[i].key = s[j].key => i = j
  /\ \A i \in DOMAIN s : s[i].delta = r[s[i].key] /\ s[i].delta > 0
  /\ \A k \in Keys : r[k] > 0 /\ (\A i \in DOMAIN s : s[i].key # k) =>
       Len(s) = topN /\ \A i \in DOMAIN s : s[i].delta >= r[k]

\* Over all shards, and in whatever order the trackers come, the bounded buffer
\* holds the largest of the deltas read so far: what was pushed out of it, or
\* never got in, is no larger than anything in it.
KeepsLargest == TopOf(topBuf, read)

\* A rotation that has seen growth leaves on the gauge the largest deltas it has
\* read, in descending order.
GaugeTellsRotation ==
  [][rpc = "publish" /\ rpc' = "idle" /\ topN > 0 /\ (\E k \in Keys : read[k] > 0) =>
       /\ TopOf(topOffenders', read)
       /\ \A i, j \in DOMAIN topOffenders' :
            i < j => topOffenders'[i].delta >= topOffenders'[j].delta]_ovars

\* metadata.yaml: the gauge is the "Cardinality delta of the top-N highest-growth
\* (metric, label) pairs from the last epoch rotation", so that after every one it
\* shows what that rotation has read.
GaugeFromLastRotation ==
  [][rpc = "publish" /\ rpc' = "idle" => TopOf(topOffenders', read)]_ovars

\* The deltas are read before the turn that resets them, and not at once with it,
\* yet what the turn throws away is what was read: the growth of a tracker at its
\* turn is the one on record, unless its estimate was refreshed in between.
ReadBeforeReset ==
  [][\A k \in Keys : rpc = "rotate" /\ k \in (todo \ todo') \ moved /\ topN > 0 =>
       read[k] = IF curr[k] > prev[k] THEN curr[k] - prev[k] ELSE 0]_ovars
=============================================================================
