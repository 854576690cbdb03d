-------------------------- MODULE TopOffendersProofs --------------------------
(***************************************************************************)
(* What rotate() keeps of the deltas it reads, for any pairs, shards and   *)
(* bound on the offenders.  The steps are those of TopOffenders, in any    *)
(* order their guards allow; LifecycleProofs puts them into the            *)
(* processor's life.                                                       *)
(*                                                                         *)
(* The buffer is right about what was read (KeepsLargest) because a        *)
(* tracker is read once per rotation (ReadOnce): an entry is never about   *)
(* an old reading of its pair.  A reading stays true of the tracker        *)
(* (ReadingsHold) from the moment it is taken until the tracker's turn,    *)
(* unless its estimate is refreshed.                                       *)
(***************************************************************************)
EXTENDS TopOffenders, SequenceTheorems, WellFoundedInduction, TLAPS

Entry == [key : Keys, delta : Nat]

\* The types of what rotate() works on.
RotationTypes ==
  /\ topN \in Int
  /\ live \subseteq Keys /\ entries \subseteq live /\ todo \subseteq entries
  /\ curr \in [Keys -> Nat] /\ prev \in [Keys -> Nat]
  /\ read \in [Keys -> Nat] /\ moved \subseteq Keys
  /\ rshard \in Shards
  /\ topBuf \in Seq(Entry)
  /\ rpc \in {"idle", "snapshot", "collect", "rotate", "publish"}

\* Where rotate() has come past k's reading.
Passed(k) ==
  /\ rpc # "idle"
  /\ \/ ShardOf[k] < rshard
     \/ ShardOf[k] = rshard /\ rpc # "snapshot" /\ (rpc = "collect" => k \notin todo)

ReadOnce ==
  /\ rpc = "collect" => topN > 0
  /\ rpc = "idle" => topBuf = <<>>
  /\ rpc \in {"idle", "snapshot", "publish"} => entries = {}
  /\ \A k \in entries : ShardOf[k] = rshard
  /\ \A k \in Keys : read[k] # 0 => Passed(k)

\* What was read of a tracker that waits for its turn is its growth, unless its
\* estimate has been refreshed since; of those that do not wait none is marked.
ReadingsHold ==
  /\ topN > 0 => \A k \in Waiting \ moved : read[k] = Delta(k)
  /\ moved \subseteq Waiting

OffendersInv == RotationTypes /\ ReadOnce /\ ReadingsHold /\ KeepsLargest

OffendersStep ==
  \/ \E k \in Keys, n \in Sizes : Refresh(k, n)
  \/ BeginRotate \/ InsideRotate \/ Publish

-----------------------------------------------------------------------------

\* A set of numbers that is not empty has a least one.
LEMMA LeastNumber ==
  ASSUME NEW S \in SUBSET Nat, S # {}
  PROVE  \E m \in S : \A n \in S : m <= n
<1>1. PICK m \in S : \A n \in S : <<n, m>> \notin OpToRel(<, Nat)
  BY NatLessThanWellFounded, WFMin
<1>2. ASSUME NEW n \in S, n < m
      PROVE  FALSE
  <2>1. <<n, m>> \in Nat \X Nat /\ <<n, m>>[1] < <<n, m>>[2]
    BY <1>2
  <2> QED
    BY <1>1, <2>1 DEF OpToRel
<1> QED
  BY <1>2

\* The linear scan finds the first of the smallest entries.
LEMMA ScanFindsLeast ==
  ASSUME NEW buf \in Seq(Entry), buf # <<>>
  PROVE  /\ minIdx(buf) \in DOMAIN buf
         /\ \A i \in DOMAIN buf : buf[minIdx(buf)].delta <= buf[i].delta
<1> DEFINE Deltas == {buf[i].delta : i \in DOMAIN buf}
<1>1. Len(buf) \in Nat \ {0} /\ DOMAIN buf = 1..Len(buf) /\ \A i \in DOMAIN buf : buf[i].delta \in Nat
  <2>1. Len(buf) \in Nat \ {0} /\ DOMAIN buf = 1..Len(buf)
    BY EmptySeq, LenProperties
  <2>2. \A i \in DOMAIN buf : buf[i] \in Entry
    BY <2>1, ElementOfSeq
  <2> QED
    BY <2>1, <2>2 DEF Entry
<1>2. PICK d \in Deltas : \A e \in Deltas : d <= e
  <2>1. Deltas \in SUBSET Nat /\ Deltas # {}
    BY <1>1
  <2> QED
    BY <2>1, LeastNumber
<1> DEFINE Firsts == {i \in DOMAIN buf : buf[i].delta = d}
<1>3. PICK m \in Firsts : \A i \in Firsts : m <= i
  <2>1. Firsts \in SUBSET Nat /\ Firsts # {}
    BY <1>1, <1>2
  <2> QED
    BY <2>1, LeastNumber
<1>4. \A i \in DOMAIN buf : buf[m].delta <= buf[i].delta /\ (i < m => buf[m].delta < buf[i].delta)
  BY <1>1, <1>2, <1>3
<1> QED
  BY <1>3, <1>4 DEF minIdx

\* A tracker read for the first time finds its place: the buffer then holds the
\* largest of the readings with the new one among them.
LEMMA OfferKeepsLargest ==
  ASSUME topN \in Int, topN > 0, NEW buf \in Seq(Entry), NEW r \in [Keys -> Nat], TopOf(buf, r),
         NEW k \in Keys, r[k] = 0, NEW e \in Entry, e.key = k, e.delta > 0
  PROVE  Offer(buf, e) \in Seq(Entry) /\ TopOf(Offer(buf, e), [r EXCEPT ![k] = e.delta])
<1>1. /\ Len(buf) \in Nat /\ DOMAIN buf = 1..Len(buf)
      /\ \A i \in 1..Len(buf) : buf[i] \in Entry /\ buf[i].key \in Keys /\ buf[i].delta \in Nat
  <2>1. Len(buf) \in Nat /\ DOMAIN buf = 1..Len(buf)
    BY LenProperties
  <2>2. \A i \in DOMAIN buf : buf[i] \in Entry
    BY <2>1, ElementOfSeq
  <2> QED
    BY <2>1, <2>2 DEF Entry
<1>2. e.delta \in Nat
  BY DEF Entry
<1>3. PICK s \in [Keys -> Nat] :
        s = [r EXCEPT ![k] = e.delta] /\ s[k] = e.delta /\ \A l \in Keys \ {k} : s[l] = r[l]
  <2>1. [r EXCEPT ![k] = e.delta] \in [Keys -> Nat]
    BY <1>2
  <2> QED
    BY <2>1
<1>4. Len(buf) <= topN
  <2>1. CASE buf = <<>>
    BY <2>1
  <2> QED
    BY <2>1 DEF TopOf
<1>5. \A i, j \in 1..Len(buf) : buf[i].key = buf[j].key => i = j
  BY <1>1, Zenon DEF TopOf
<1>6. \A i \in 1..Len(buf) : buf[i].delta = r[buf[i].key] /\ buf[i].delta > 0
  BY <1>1, Zenon DEF TopOf
<1>7. \A l \in Keys : r[l] > 0 /\ (\A i \in 1..Len(buf) : buf[i].key # l) =>
        Len(buf) = topN /\ \A i \in 1..Len(buf) : buf[i].delta >= r[l]
  BY <1>1, Zenon DEF TopOf
<1>8. \A i \in 1..Len(buf) : buf[i].key # k
  BY <1>1, <1>6
<1>9. SUFFICES ASSUME NEW new, new = Offer(buf, e)
               PROVE  new \in Seq(Entry) /\ TopOf(new, s)
  BY <1>3, Zenon
<1>10. CASE Len(buf) < topN
  <2>1. new = Append(buf, e)
    BY <1>9, <1>10 DEF Offer
  <2>2. /\ new \in Seq(Entry) /\ Len(new) = Len(buf) + 1 /\ DOMAIN new = 1..Len(buf) + 1
        /\ \A i \in 1..Len(buf) : new[i] = buf[i]
        /\ new[Len(buf) + 1] = e
    BY <2>1, AppendProperties, LenProperties
  <2>3. \A i, j \in 1..Len(buf) + 1 : new[i].key = new[j].key => i = j
    <3>1. /\ new[Len(buf) + 1].key = k
          /\ \A i \in 1..Len(buf) : new[i].key = buf[i].key /\ new[i].key # k
      BY <1>8, <2>2
    <3>2. \A i \in 1..Len(buf) + 1 : i \in 1..Len(buf) \/ i = Len(buf) + 1
      BY <1>1
    <3> QED
      BY <1>5, <3>1, <3>2
  <2>4. \A i \in 1..Len(buf) + 1 : new[i].delta = s[new[i].key] /\ new[i].delta > 0
    BY <1>1, <1>3, <1>6, <1>8, <2>2
  <2>5. \A l \in Keys : ~(s[l] > 0 /\ (\A i \in 1..Len(buf) + 1 : new[i].key # l))
    <3> SUFFICES ASSUME NEW l \in Keys, s[l] > 0, \A i \in 1..Len(buf) + 1 : new[i].key # l
                 PROVE  FALSE
      OBVIOUS
    <3>1. l # k /\ \A i \in 1..Len(buf) : buf[i].key # l
      BY <1>1, <2>2
    <3>2. r[l] > 0
      BY <1>3, <3>1
    <3>3. Len(buf) = topN
      BY <1>7, <3>1, <3>2
    <3>4. ~(Len(buf) < Len(buf))
      BY <1>1
    <3> QED
      BY <1>10, <3>3, <3>4, Zenon
  <2>6. Len(new) <= topN
    BY <1>1, <1>10, <2>2
  <2>7. DOMAIN new = 1..Len(buf) + 1
    BY <2>2
  <2>8. /\ \A i, j \in DOMAIN new : new[i].key = new[j].key => i = j
        /\ \A i \in DOMAIN new : new[i].delta = s[new[i].key] /\ new[i].delta > 0
    BY <2>3, <2>4, <2>7, Zenon
  <2>9. \A l \in Keys : ~(s[l] > 0 /\ \A i \in DOMAIN new : new[i].key # l)
    BY <2>5, <2>7, Zenon
  <2>10. TopOf(new, s)
    BY <2>6, <2>8, <2>9, Zenon DEF TopOf
  <2> QED
    BY <2>2, <2>10
<1>11. CASE ~(Len(buf) < topN)
  <2>1. Len(buf) = topN /\ buf # <<>>
    BY <1>1, <1>4, <1>11
  <2>2. PICK m \in 1..Len(buf) : m = minIdx(buf) /\ \A i \in 1..Len(buf) : buf[m].delta <= buf[i].delta
    BY <1>1, <2>1, ScanFindsLeast
  <2>3. CASE e.delta > buf[m].delta
    <3>1. new = [buf EXCEPT ![m] = e]
      BY <1>9, <1>11, <2>2, <2>3 DEF Offer
    <3>2. /\ new \in Seq(Entry) /\ Len(new) = Len(buf) /\ DOMAIN new = 1..Len(buf)
          /\ \A i \in 1..Len(buf) : new[i] = IF i = m THEN e ELSE buf[i]
      BY <1>1, <3>1, ExceptSeq
    <3>3. \A i, j \in 1..Len(buf) : new[i].key = new[j].key => i = j
      BY <1>5, <1>8, <3>2
    <3>4. \A i \in 1..Len(buf) : new[i].delta = s[new[i].key] /\ new[i].delta > 0
      BY <1>1, <1>3, <1>6, <1>8, <3>2
    <3>5. \A l \in Keys : s[l] > 0 /\ (\A i \in 1..Len(buf) : new[i].key # l) =>
            Len(new) = topN /\ \A i \in 1..Len(buf) : new[i].delta >= s[l]
      <4> SUFFICES ASSUME NEW l \in Keys, s[l] > 0, \A i \in 1..Len(buf) : new[i].key # l
                   PROVE  \A i \in 1..Len(buf) : new[i].delta >= s[l]
        BY <2>1, <3>2
      <4>1. l # k /\ s[l] = r[l]
        BY <1>3, <3>2
      <4>2. r[l] <= buf[m].delta
        <5>1. CASE l = buf[m].key
          BY <1>1, <1>6, <5>1
        <5>2. CASE l # buf[m].key
          <6>1. \A i \in 1..Len(buf) : buf[i].key # l
            BY <3>2, <5>2
          <6> QED
            BY <1>1, <1>7, <4>1, <6>1
        <5> QED
          BY <5>1, <5>2
      <4>3. \A i \in 1..Len(buf) : new[i].delta >= buf[m].delta
        BY <1>1, <1>2, <2>2, <2>3, <3>2
      <4>4. \A i \in 1..Len(buf) : new[i].delta \in Nat
        BY <1>1, <1>2, <3>2
      <4> QED
        BY <1>1, <4>1, <4>2, <4>3, <4>4
    <3> QED
      BY <1>4, <3>2, <3>3, <3>4, <3>5, Zenon DEF TopOf
  <2>4. CASE ~(e.delta > buf[m].delta)
    <3>1. new = buf
      BY <1>9, <1>11, <2>2, <2>4 DEF Offer
    <3>2. \A i \in 1..Len(buf) : buf[i].delta >= e.delta /\ s[buf[i].key] = r[buf[i].key]
      BY <1>1, <1>2, <1>3, <1>8, <2>2, <2>4
    <3>3. \A l \in Keys : s[l] > 0 /\ (\A i \in 1..Len(buf) : buf[i].key # l) =>
            Len(buf) = topN /\ \A i \in 1..Len(buf) : buf[i].delta >= s[l]
      BY <1>3, <1>7, <2>1, <3>2
    <3>4. \A i \in 1..Len(buf) : buf[i].delta = s[buf[i].key] /\ buf[i].delta > 0
      BY <1>6, <3>2, Zenon
    <3> QED
      BY <1>1, <1>4, <1>5, <3>1, <3>3, <3>4, Zenon DEF TopOf
  <2> QED
    BY <2>3, <2>4
<1> QED
  BY <1>10, <1>11

-----------------------------------------------------------------------------

\* Nothing is read before the first rotation.
LEMMA OffendersInit == topN \in Int /\ OInit => OffendersInv
<1> SUFFICES ASSUME topN \in Int, OInit
             PROVE  OffendersInv
  OBVIOUS
<1> USE OffendersAssumption
<1>1. RotationTypes
  <2>1. Zero \in [Keys -> Nat]
    BY DEF Zero
  <2>2. rshard \in Shards /\ topBuf \in Seq(Entry)
    BY DEF OInit, Shards
  <2> QED
    BY <2>1, <2>2 DEF OInit, RotationTypes
<1>2. ReadOnce
  BY DEF OInit, ReadOnce, Zero
<1>3. ReadingsHold
  BY DEF OInit, ReadingsHold, Waiting
<1>4. KeepsLargest
  BY DEF OInit, KeepsLargest, TopOf, Zero
<1> QED
  BY <1>1, <1>2, <1>3, <1>4 DEF OffendersInv

\* A step that leaves the buffer, the readings and the bound alone.
LEMMA SameReadings ==
  ASSUME KeepsLargest, UNCHANGED <<topN, topBuf, read>>
  PROVE  KeepsLargest'
BY DEF KeepsLargest, TopOf

\* A refresh, at any moment: it marks a tracker that waits for its turn.
LEMMA RefreshKeepsInv ==
  ASSUME OffendersInv, NEW k \in Keys, NEW n \in Sizes, Refresh(k, n)
  PROVE  OffendersInv'
<1> USE OffendersAssumption DEF Refresh, rotation
<1>1. RotationTypes'
  <2>1. curr' \in [Keys -> Nat] /\ moved' \subseteq Keys
    BY DEF OffendersInv, RotationTypes
  <2> QED
    BY <2>1 DEF OffendersInv, RotationTypes
<1>2. ReadOnce'
  BY DEF OffendersInv, ReadOnce, Passed
<1>3. ReadingsHold'
  <2>1. Waiting' = Waiting
    BY DEF Waiting
  <2>2. ASSUME topN > 0, NEW l \in Waiting, l \notin moved'
        PROVE  read[l] = Delta(l)'
    <3>1. l # k /\ l \in Keys /\ l \notin moved
      BY <2>2 DEF OffendersInv, RotationTypes, Waiting
    <3>2. curr'[l] = curr[l] /\ prev'[l] = prev[l]
      BY <3>1 DEF OffendersInv, RotationTypes
    <3> QED
      BY <2>2, <3>1, <3>2 DEF OffendersInv, ReadingsHold, Delta
  <2> QED
    BY <2>1, <2>2 DEF OffendersInv, ReadingsHold
<1>4. KeepsLargest'
  BY SameReadings DEF OffendersInv
<1> QED
  BY <1>1, <1>2, <1>3, <1>4 DEF OffendersInv

LEMMA BeginRotateKeepsInv ==
  ASSUME OffendersInv, BeginRotate
  PROVE  OffendersInv'
<1> USE OffendersAssumption DEF BeginRotate, trackers
<1>1. RotationTypes'
  BY DEF OffendersInv, RotationTypes, Shards
<1>2. ReadOnce'
  <2>1. \A k \in Keys : read[k] = 0
    BY DEF OffendersInv, ReadOnce, Passed
  <2> QED
    BY <2>1 DEF OffendersInv, ReadOnce
<1>3. ReadingsHold'
  BY DEF OffendersInv, ReadOnce, ReadingsHold, Waiting
<1>4. KeepsLargest'
  BY SameReadings DEF OffendersInv
<1> QED
  BY <1>1, <1>2, <1>3, <1>4 DEF OffendersInv

LEMMA SnapshotKeepsInv ==
  ASSUME OffendersInv, Snapshot
  PROVE  OffendersInv'
<1> USE OffendersAssumption DEF Snapshot, trackers
<1>1. RotationTypes'
  BY DEF OffendersInv, RotationTypes
<1>2. ReadOnce'
  BY DEF OffendersInv, RotationTypes, ReadOnce, Passed
<1>3. ReadingsHold'
  <2>1. Waiting = {} /\ moved = {}
    BY DEF OffendersInv, ReadOnce, ReadingsHold, Waiting
  <2>2. topN > 0 => Waiting' = {}
    BY DEF OffendersInv, RotationTypes, Waiting
  <2> QED
    BY <2>1, <2>2 DEF ReadingsHold
<1>4. KeepsLargest'
  BY SameReadings DEF OffendersInv
<1> QED
  BY <1>1, <1>2, <1>3, <1>4 DEF OffendersInv

\* The reading is the first of k in this rotation, so that the buffer holds no
\* earlier one.
LEMMA CollectKeepsInv ==
  ASSUME OffendersInv, NEW k \in Keys, Collect(k)
  PROVE  OffendersInv'
<1> USE OffendersAssumption DEF Collect, trackers
<1>1. Delta(k) \in Nat /\ {curr[k], prev[k], read[k]} \subseteq Nat
  BY DEF OffendersInv, RotationTypes, Delta
<1>2. topN \in Int /\ topN > 0 /\ topBuf \in Seq(Entry) /\ read \in [Keys -> Nat]
  BY DEF OffendersInv, RotationTypes, ReadOnce
<1>3. read[k] = 0
  <2>1. ShardOf[k] = rshard /\ rshard \in Int
    BY DEF OffendersInv, RotationTypes, ReadOnce, Shards
  <2> QED
    BY <2>1 DEF OffendersInv, ReadOnce, Passed
<1>4. topBuf' \in Seq(Entry) /\ TopOf(topBuf', read')
  <2>1. CASE Delta(k) > 0
    <3> DEFINE e == [key |-> k, delta |-> Delta(k)]
    <3>1. e \in Entry /\ e.key = k /\ e.delta = Delta(k)
      BY <1>1 DEF Entry
    <3>2. topBuf' = Offer(topBuf, e) /\ read' = [read EXCEPT ![k] = e.delta]
      BY <2>1
    <3> HIDE DEF e
    <3>3. TopOf(topBuf, read)
      BY DEF OffendersInv, KeepsLargest
    <3>4. /\ Offer(topBuf, e) \in Seq(Entry)
          /\ TopOf(Offer(topBuf, e), [read EXCEPT ![k] = e.delta])
      <4>1. e.delta > 0
        BY <2>1, <3>1
      <4> QED
        BY <1>2, <1>3, <3>1, <3>3, <4>1, OfferKeepsLargest, Zenon
    <3> QED
      BY <3>2, <3>4
  <2>2. CASE ~(Delta(k) > 0)
    <3>1. Delta(k) = 0
      BY <1>1, <2>2
    <3>2. topBuf' = topBuf /\ read' = read
      BY <1>2, <1>3, <2>2, <3>1
    <3> QED
      BY <1>2, <3>2 DEF OffendersInv, KeepsLargest
  <2> QED
    BY <2>1, <2>2
<1>5. RotationTypes'
  <2>1. read' \in [Keys -> Nat]
    BY <1>1, <1>2
  <2> QED
    BY <1>4, <2>1 DEF OffendersInv, RotationTypes
<1>6. ReadOnce'
  <2>1. ShardOf[k] = rshard
    BY DEF OffendersInv, RotationTypes, ReadOnce
  <2>2. \A l \in Keys : read'[l] # 0 => Passed(l)'
    <3> SUFFICES ASSUME NEW l \in Keys, read'[l] # 0
                 PROVE  Passed(l)'
      OBVIOUS
    <3>1. CASE l = k
      BY <2>1, <3>1 DEF Passed
    <3>2. CASE l # k
      <4>1. Passed(l)
        BY <1>2, <3>2 DEF OffendersInv, ReadOnce
      <4> QED
        BY <4>1 DEF Passed
    <3> QED
      BY <3>1, <3>2
  <2> QED
    BY <2>2 DEF OffendersInv, ReadOnce
<1>7. ReadingsHold'
  <2>1. Waiting' = Waiting \union {k} /\ Waiting \subseteq Keys
    BY DEF OffendersInv, RotationTypes, Waiting
  <2>2. ASSUME NEW l \in Waiting', l \notin moved
        PROVE  read'[l] = Delta(l)
    <3>1. CASE l = k
      BY <1>2, <3>1
    <3>2. CASE l # k
      BY <1>2, <2>1, <2>2, <3>2 DEF OffendersInv, ReadingsHold
    <3> QED
      BY <3>1, <3>2
  <2> QED
    BY <2>1, <2>2 DEF OffendersInv, ReadingsHold, Delta
<1>8. KeepsLargest'
  BY <1>4 DEF KeepsLargest, TopOf
<1> QED
  BY <1>5, <1>6, <1>7, <1>8 DEF OffendersInv

LEMMA EndCollectKeepsInv ==
  ASSUME OffendersInv, EndCollect
  PROVE  OffendersInv'
<1> USE OffendersAssumption DEF EndCollect, trackers
<1>1. RotationTypes'
  BY DEF OffendersInv, RotationTypes
<1>2. ReadOnce'
  BY DEF OffendersInv, ReadOnce, Passed
<1>3. ReadingsHold'
  BY DEF OffendersInv, ReadingsHold, Waiting, Delta
<1>4. KeepsLargest'
  BY SameReadings DEF OffendersInv
<1> QED
  BY <1>1, <1>2, <1>3, <1>4 DEF OffendersInv

\* A tracker that is turned over waits no longer.
LEMMA RotateTrackerKeepsInv ==
  ASSUME OffendersInv, NEW k \in Keys, RotateTracker(k)
  PROVE  OffendersInv'
<1> USE OffendersAssumption DEF RotateTracker
<1>1. RotationTypes'
  <2>1. curr' \in [Keys -> Nat] /\ prev' \in [Keys -> Nat] /\ moved' \subseteq Keys
    BY DEF OffendersInv, RotationTypes
  <2> QED
    BY <2>1 DEF OffendersInv, RotationTypes
<1>2. ReadOnce'
  BY DEF OffendersInv, ReadOnce, Passed
<1>3. ReadingsHold'
  <2>1. Waiting' = Waiting \ {k} /\ Waiting \subseteq Keys
    BY DEF OffendersInv, RotationTypes, Waiting
  <2>2. \A l \in Waiting' : curr'[l] = curr[l] /\ prev'[l] = prev[l]
    BY <2>1 DEF OffendersInv, RotationTypes
  <2> QED
    BY <2>1, <2>2 DEF OffendersInv, ReadingsHold, Delta
<1>4. KeepsLargest'
  BY SameReadings DEF OffendersInv
<1> QED
  BY <1>1, <1>2, <1>3, <1>4 DEF OffendersInv

LEMMA EndShardKeepsInv ==
  ASSUME OffendersInv, EndShard
  PROVE  OffendersInv'
<1> USE OffendersAssumption DEF EndShard, trackers
<1>1. RotationTypes'
  BY DEF OffendersInv, RotationTypes, Shards
<1>2. ReadOnce'
  <2>1. \A k \in Keys : ShardOf[k] \in Int
    BY DEF Shards
  <2>2. \A k \in Keys : Passed(k) => Passed(k)'
    BY <2>1 DEF OffendersInv, RotationTypes, Passed, Shards
  <2> QED
    BY <2>2 DEF OffendersInv, ReadOnce
<1>3. ReadingsHold'
  <2>1. Waiting = {} /\ Waiting' = {}
    BY DEF Waiting
  <2> QED
    BY <2>1 DEF OffendersInv, ReadingsHold
<1>4. KeepsLargest'
  BY SameReadings DEF OffendersInv
<1> QED
  BY <1>1, <1>2, <1>3, <1>4 DEF OffendersInv

LEMMA PublishKeepsInv ==
  ASSUME OffendersInv, Publish
  PROVE  OffendersInv'
<1> USE OffendersAssumption DEF Publish, trackers
<1>1. RotationTypes'
  BY DEF OffendersInv, RotationTypes, Zero
<1>2. ReadOnce'
  BY DEF OffendersInv, RotationTypes, ReadOnce, Zero
<1>3. ReadingsHold'
  BY DEF OffendersInv, ReadOnce, ReadingsHold, Waiting
<1>4. KeepsLargest'
  BY DEF KeepsLargest, TopOf, Zero
<1> QED
  BY <1>1, <1>2, <1>3, <1>4 DEF OffendersInv

LEMMA OffendersStutter ==
  ASSUME OffendersInv, UNCHANGED ovars
  PROVE  OffendersInv'
<1> USE DEF ovars, trackers, rotation
<1>1. RotationTypes'
  BY DEF OffendersInv, RotationTypes
<1>2. ReadOnce'
  BY DEF OffendersInv, ReadOnce, Passed
<1>3. ReadingsHold'
  BY DEF OffendersInv, ReadingsHold, Waiting, Delta
<1>4. KeepsLargest'
  BY SameReadings DEF OffendersInv
<1> QED
  BY <1>1, <1>2, <1>3, <1>4 DEF OffendersInv

\* Whatever order metrics and the steps of rotations come in.
LEMMA OffendersStepKeepsInv == OffendersInv /\ [OffendersStep]_ovars => OffendersInv'
BY RefreshKeepsInv, BeginRotateKeepsInv, SnapshotKeepsInv, CollectKeepsInv, EndCollectKeepsInv,
   RotateTrackerKeepsInv, EndShardKeepsInv, PublishKeepsInv, OffendersStutter
DEF OffendersStep, InsideRotate

-----------------------------------------------------------------------------

\* The passes of the sort, one after the other.
LEMMA PassesExist ==
  ASSUME NEW s, NEW len \in Nat
  PROVE  \E f : f = [n \in 0..len |-> IF n = 0 THEN <<>> ELSE InsertSorted(f[n - 1], s[n])]
<1> DEFINE Upto(k, f) == f = [n \in 0..k |-> IF n = 0 THEN <<>> ELSE InsertSorted(f[n - 1], s[n])]
           Bad == {k \in Nat : ~ \E f : Upto(k, f)}
<1>1. \E f : Upto(0, f)
  <2> DEFINE f == [n \in 0..0 |-> <<>>]
  <2>1. Upto(0, f)
    OBVIOUS
  <2> QED
    BY <2>1
<1>2. ASSUME NEW k \in Nat, NEW g, Upto(k, g)
      PROVE  \E f : Upto(k + 1, f)
  <2> DEFINE f == [n \in 0..k + 1 |-> IF n = k + 1 THEN InsertSorted(g[k], s[k + 1]) ELSE g[n]]
  <2>1. \A n \in 0..k : f[n] = g[n] /\ g[n] = IF n = 0 THEN <<>> ELSE InsertSorted(g[n - 1], s[n])
    BY <1>2
  <2>2. \A n \in 1..k + 1 : n - 1 \in 0..k /\ f[n - 1] = g[n - 1]
    BY <2>1
  <2>3. ASSUME NEW n \in 0..k + 1
        PROVE  f[n] = IF n = 0 THEN <<>> ELSE InsertSorted(f[n - 1], s[n])
    <3>1. CASE n = k + 1
      <4>1. f[n] = InsertSorted(g[k], s[n]) /\ n # 0 /\ n - 1 = k
        BY <3>1
      <4>2. f[n - 1] = g[k]
        BY <2>1, <4>1
      <4> HIDE DEF f
      <4> QED
        BY <4>1, <4>2
    <3>2. CASE n # k + 1
      <4>1. n \in 0..k /\ (n # 0 => n \in 1..k + 1)
        BY <3>2
      <4>2. f[n] = g[n] /\ (n # 0 => f[n - 1] = g[n - 1])
        BY <2>1, <2>2, <4>1
      <4>3. g[n] = IF n = 0 THEN <<>> ELSE InsertSorted(g[n - 1], s[n])
        BY <2>1, <4>1
      <4> HIDE DEF f
      <4> QED
        BY <4>2, <4>3, Zenon
    <3> QED
      BY <3>1, <3>2
  <2>4. f = [n \in 0..k + 1 |-> f[n]]
    OBVIOUS
  <2> HIDE DEF f
  <2>5. Upto(k + 1, f)
    BY <2>3, <2>4, Zenon
  <2> QED
    BY <2>5
<1> HIDE DEF Upto
<1>3. Bad = {}
  <2> SUFFICES ASSUME Bad # {} PROVE FALSE
    OBVIOUS
  <2>1. PICK b \in Bad : \A k \in Bad : b <= k
    BY LeastNumber
  <2>2. b # 0 /\ b \in Nat
    BY <1>1, <2>1
  <2>3. b - 1 \in Nat /\ b - 1 \notin Bad
    BY <2>1, <2>2
  <2>4. PICK g : Upto(b - 1, g)
    BY <2>3
  <2>5. \E f : Upto(b - 1 + 1, f)
    BY <1>2, <2>3, <2>4
  <2>6. b - 1 + 1 = b
    BY <2>2
  <2> QED
    BY <2>1, <2>5, <2>6
<1> QED
  BY <1>3 DEF Upto

LEMMA SortIsPasses ==
  ASSUME NEW s, Len(s) \in Nat
  PROVE  \E f : /\ f = [n \in 0..Len(s) |-> IF n = 0 THEN <<>> ELSE InsertSorted(f[n - 1], s[n])]
                /\ sortOffenders(s) = f[Len(s)]
<1> DEFINE Passes(f) == f = [n \in 0..Len(s) |-> IF n = 0 THEN <<>> ELSE InsertSorted(f[n - 1], s[n])]
           sorted == CHOOSE f : Passes(f)
<1>1. Passes(sorted)
  <2>1. \E f : Passes(f)
    BY PassesExist
  <2> QED
    BY <2>1
<1>2. sortOffenders(s) = sorted[Len(s)]
  BY DEF sortOffenders
<1> QED
  BY <1>1, <1>2

\* The largest deltas first, one entry for each pair, and the set of entries.
Descending(s) == \A i, j \in DOMAIN s : i < j => s[i].delta >= s[j].delta

DistinctKeys(s) == \A i, j \in DOMAIN s : s[i].key = s[j].key => i = j

Elements(s) == {s[i] : i \in DOMAIN s}

\* A sorted sequence has a place for the new entry: behind the last one that is
\* not smaller.
LEMMA PlaceExists ==
  ASSUME NEW s \in Seq(Entry), NEW e \in Entry
  PROVE  \E p \in 0..Len(s) : (p = 0 \/ s[p].delta >= e.delta)
                               /\ \A j \in p + 1..Len(s) : s[j].delta < e.delta
<1> DEFINE Behind == {m \in 1..Len(s) + 1 : \A j \in m..Len(s) : s[j].delta < e.delta}
<1>1. Len(s) \in Nat /\ e.delta \in Nat /\ \A j \in 1..Len(s) : s[j].delta \in Nat
  <2>1. Len(s) \in Nat /\ \A j \in 1..Len(s) : s[j] \in Entry
    BY LenProperties, ElementOfSeq
  <2> QED
    BY <2>1 DEF Entry
<1>2. Len(s) + 1 \in Behind /\ Behind \in SUBSET Nat
  BY <1>1
<1>3. PICK m \in Behind : \A n \in Behind : m <= n
  BY <1>2, LeastNumber
<1>4. m - 1 \in 0..Len(s) /\ m - 1 + 1 = m
  BY <1>1, <1>3
<1>5. m - 1 = 0 \/ s[m - 1].delta >= e.delta
  <2> SUFFICES ASSUME m - 1 # 0, ~(s[m - 1].delta >= e.delta) PROVE FALSE
    OBVIOUS
  <2>1. m - 1 \in 1..Len(s) + 1 /\ m - 1 \in 1..Len(s)
    BY <1>4
  <2>2. \A j \in m - 1..Len(s) : j = m - 1 \/ j \in m..Len(s)
    BY <1>1, <1>3
  <2>3. m - 1 \in Behind
    BY <1>1, <1>3, <2>1, <2>2
  <2> QED
    BY <1>3, <1>4, <2>3
<1> QED
  BY <1>3, <1>4, <1>5

\* t is s with e put in behind the first p of its n entries.
PutBehind(p, n, s, e, t) ==
  /\ (p = 0 \/ s[p].delta >= e.delta) /\ \A j \in p + 1..n : s[j].delta < e.delta
  /\ t \in Seq(Entry) /\ Len(t) = n + 1
  /\ \A i \in 1..p : t[i] = s[i]
  /\ t[p + 1] = e
  /\ \A j \in p + 1..n : t[j + 1] = s[j]

\* One pass of the sort puts the entry into its place and moves nothing else.
LEMMA InsertSortedPlaces ==
  ASSUME NEW s \in Seq(Entry), NEW e \in Entry, NEW t, t = InsertSorted(s, e),
         NEW n \in Nat, n = Len(s)
  PROVE  \E p \in 0..n : PutBehind(p, n, s, e, t)
<1>1. PICK p \in 0..n :
        /\ (p = 0 \/ s[p].delta >= e.delta) /\ \A j \in p + 1..n : s[j].delta < e.delta
        /\ t = SubSeq(s, 1, p) \o <<e>> \o SubSeq(s, p + 1, n)
  <2>1. \E p \in 0..n : (p = 0 \/ s[p].delta >= e.delta) /\ \A j \in p + 1..n : s[j].delta < e.delta
    BY PlaceExists
  <2> QED
    BY <2>1, Zenon DEF InsertSorted
<1>2. \A j \in 1..n : s[j] \in Entry
  BY ElementOfSeq
<1> DEFINE a == SubSeq(s, 1, p)
           b == SubSeq(s, p + 1, n)
<1>3. a \in Seq(Entry) /\ Len(a) = p /\ \A i \in 1..p : a[i] = s[i]
  <2>1. \A i \in 1..p : s[i] \in Entry
    BY <1>2
  <2>2. /\ a \in Seq(Entry) /\ Len(a) = IF 1 <= p THEN p - 1 + 1 ELSE 0
        /\ \A i \in 1..p - 1 + 1 : a[i] = s[1 + i - 1]
    BY <2>1, SubSeqProperties
  <2>3. p - 1 + 1 = p /\ \A i \in 1..p : 1 + i - 1 = i
    OBVIOUS
  <2> HIDE DEF a
  <2> QED
    BY <2>2, <2>3
<1>4. b \in Seq(Entry) /\ Len(b) = n - p /\ \A i \in 1..n - p : b[i] = s[p + i]
  <2>1. \A i \in p + 1..n : s[i] \in Entry
    BY <1>2
  <2>2. /\ b \in Seq(Entry)
        /\ Len(b) = IF p + 1 <= n THEN n - (p + 1) + 1 ELSE 0
        /\ \A i \in 1..n - (p + 1) + 1 : b[i] = s[p + 1 + i - 1]
    BY <2>1, SubSeqProperties
  <2>3. n - (p + 1) + 1 = n - p /\ \A i \in 1..n - p : p + 1 + i - 1 = p + i
    OBVIOUS
  <2> HIDE DEF b
  <2>4. Len(b) = n - p
    BY <2>2
  <2>5. \A i \in 1..n - p : b[i] = s[p + 1 + i - 1]
    BY <2>2, <2>3
  <2> QED
    BY <2>2, <2>3, <2>4, <2>5
<1> HIDE DEF a, b
<1>5. <<e>> \in Seq(Entry) /\ Len(<<e>>) = 1 /\ <<e>>[1] = e
  OBVIOUS
<1>6. PICK c \in Seq(Entry) :
        /\ c = a \o <<e>> /\ Len(c) = p + 1
        /\ \A i \in 1..p : c[i] = s[i]
        /\ c[p + 1] = e
  <2>1. /\ a \o <<e>> \in Seq(Entry) /\ Len(a \o <<e>>) = p + 1
        /\ \A i \in 1..p + 1 : (a \o <<e>>)[i] = IF i <= p THEN a[i] ELSE <<e>>[i - p]
    BY <1>3, <1>5, ConcatProperties
  <2>2. \A i \in 1..p : i \in 1..p + 1 /\ i <= p
    OBVIOUS
  <2>3. \A i \in 1..p : (a \o <<e>>)[i] = s[i]
    BY <1>3, <2>1, <2>2
  <2>4. p + 1 \in 1..p + 1 /\ ~(p + 1 <= p) /\ p + 1 - p = 1
    OBVIOUS
  <2>5. (a \o <<e>>)[p + 1] = e
    BY <1>5, <2>1, <2>4
  <2> QED
    BY <2>1, <2>3, <2>5
<1>7. t = c \o b
  BY <1>1, <1>6 DEF a, b
<1>8. /\ t \in Seq(Entry) /\ Len(t) = n + 1
      /\ \A i \in 1..n + 1 : t[i] = IF i <= p + 1 THEN c[i] ELSE b[i - (p + 1)]
  <2>1. /\ t \in Seq(Entry) /\ Len(t) = p + 1 + (n - p)
        /\ \A i \in 1..p + 1 + (n - p) : t[i] = IF i <= p + 1 THEN c[i] ELSE b[i - (p + 1)]
    <3>1. /\ c \o b \in Seq(Entry) /\ Len(c \o b) = Len(c) + Len(b)
          /\ \A i \in 1..Len(c) + Len(b) : (c \o b)[i] = IF i <= Len(c) THEN c[i] ELSE b[i - Len(c)]
      BY <1>4, ConcatProperties, Zenon
    <3> QED
      BY <1>4, <1>6, <1>7, <3>1, Zenon
  <2>2. p + 1 + (n - p) = n + 1
    OBVIOUS
  <2> QED
    BY <2>1, <2>2
<1>9. \A i \in 1..p : t[i] = s[i]
  <2>1. \A i \in 1..p : i \in 1..n + 1 /\ i <= p + 1
    OBVIOUS
  <2> QED
    BY <1>6, <1>8, <2>1
<1>10. t[p + 1] = e
  <2>1. p + 1 \in 1..n + 1 /\ p + 1 <= p + 1
    OBVIOUS
  <2> QED
    BY <1>6, <1>8, <2>1
<1>11. \A j \in p + 1..n : t[j + 1] = s[j]
  <2> SUFFICES ASSUME NEW j \in p + 1..n PROVE t[j + 1] = s[j]
    OBVIOUS
  <2>1. PICK i \in 1..n - p : i = j - p
    OBVIOUS
  <2>2. j + 1 \in 1..n + 1 /\ ~(j + 1 <= p + 1) /\ j + 1 - (p + 1) = i /\ p + i = j
    BY <2>1
  <2>3. t[j + 1] = b[i]
    <3>1. \A m \in 1..n + 1 : t[m] = IF m <= p + 1 THEN c[m] ELSE b[m - (p + 1)]
      BY <1>8, Zenon
    <3> QED
      BY <2>2, <3>1
  <2>4. b[i] = s[p + i]
    BY <1>4
  <2> QED
    BY <2>2, <2>3, <2>4
<1> QED
  BY <1>1, <1>8, <1>9, <1>10, <1>11 DEF PutBehind

\* So what was sorted stays sorted.
LEMMA InsertSortedKeeps ==
  ASSUME NEW s \in Seq(Entry), NEW e \in Entry, Descending(s), NEW t, t = InsertSorted(s, e)
  PROVE  /\ t \in Seq(Entry) /\ Len(t) = Len(s) + 1
         /\ Descending(t)
         /\ Elements(t) = Elements(s) \union {e}
         /\ DistinctKeys(s) /\ (\A i \in DOMAIN s : s[i].key # e.key) => DistinctKeys(t)
<1>1. PICK n \in Nat : n = Len(s) /\ DOMAIN s = 1..n
  BY LenProperties
<1>2. \A j \in 1..n : s[j] \in Entry /\ s[j].delta \in Nat
  <2>1. \A j \in 1..n : s[j] \in Entry
    BY <1>1, ElementOfSeq
  <2> QED
    BY <2>1 DEF Entry
<1>3. e.delta \in Nat
  BY DEF Entry
<1>4. PICK p \in 0..n :
           /\ (p = 0 \/ s[p].delta >= e.delta) /\ \A j \in p + 1..n : s[j].delta < e.delta
           /\ t \in Seq(Entry) /\ Len(t) = n + 1
           /\ \A i \in 1..p : t[i] = s[i]
           /\ t[p + 1] = e
           /\ \A j \in p + 1..n : t[j + 1] = s[j]
  <2>1. \E p \in 0..n : PutBehind(p, n, s, e, t)
    BY <1>1, InsertSortedPlaces
  <2> QED
    BY <2>1 DEF PutBehind
<1>5. DOMAIN t = 1..n + 1
  BY <1>4, LenProperties
\* Where each entry of t was.
<1>6. \A i \in 1..n + 1 :
        \/ i \in 1..p /\ t[i] = s[i]
        \/ i = p + 1 /\ t[i] = e
        \/ i - 1 \in p + 1..n /\ t[i] = s[i - 1]
  <2> SUFFICES ASSUME NEW i \in 1..n + 1, i # p + 1, i \notin 1..p
               PROVE  i - 1 \in p + 1..n /\ t[i] = s[i - 1]
    BY <1>4
  <2>1. i - 1 \in p + 1..n /\ i - 1 + 1 = i
    OBVIOUS
  <2> QED
    BY <1>4, <2>1
<1>7. Descending(t)
  <2>1. \A i, j \in 1..n : i < j => s[i].delta >= s[j].delta
    BY <1>1 DEF Descending
  <2>2. \A i \in 1..p : s[i].delta >= e.delta
    <3> SUFFICES ASSUME NEW i \in 1..p PROVE s[i].delta >= e.delta
      OBVIOUS
    <3>1. p \in 1..n /\ i \in 1..n /\ s[p].delta >= e.delta
      BY <1>4
    <3>2. s[i].delta >= s[p].delta
      BY <1>2, <2>1, <3>1
    <3> QED
      BY <1>2, <1>3, <3>1, <3>2
  <2> SUFFICES ASSUME NEW i \in 1..n + 1, NEW j \in 1..n + 1, i < j
               PROVE  t[i].delta >= t[j].delta
    BY <1>5 DEF Descending
  <2>3. CASE i \in 1..p /\ t[i] = s[i]
    <3>1. CASE j \in 1..p /\ t[j] = s[j]
      BY <2>1, <2>3, <3>1
    <3>2. CASE j = p + 1 /\ t[j] = e
      BY <2>2, <2>3, <3>2
    <3>3. CASE j - 1 \in p + 1..n /\ t[j] = s[j - 1]
      <4>1. i \in 1..n /\ j - 1 \in 1..n /\ i < j - 1
        BY <2>3, <3>3
      <4> QED
        BY <2>1, <2>3, <3>3, <4>1
    <3> QED
      BY <1>6, <3>1, <3>2, <3>3
  <2>4. CASE i = p + 1 /\ t[i] = e
    <3>1. j - 1 \in p + 1..n /\ t[j] = s[j - 1]
      BY <1>6, <2>4
    <3>2. s[j - 1].delta < e.delta /\ s[j - 1].delta \in Nat
      BY <1>2, <1>4, <3>1
    <3> QED
      BY <1>3, <2>4, <3>1, <3>2
  <2>5. CASE i - 1 \in p + 1..n /\ t[i] = s[i - 1]
    <3>1. j - 1 \in p + 1..n /\ t[j] = s[j - 1]
      BY <1>6, <2>5
    <3>2. i - 1 \in 1..n /\ j - 1 \in 1..n /\ i - 1 < j - 1
      BY <2>5, <3>1
    <3> QED
      BY <2>1, <2>5, <3>1, <3>2
  <2> QED
    BY <1>6, <2>3, <2>4, <2>5
<1>8. Elements(t) = Elements(s) \union {e}
  <2>1. ASSUME NEW i \in 1..n + 1 PROVE t[i] = e \/ \E j \in 1..n : t[i] = s[j]
    <3>1. \/ i \in 1..n /\ t[i] = s[i]
          \/ t[i] = e
          \/ i - 1 \in 1..n /\ t[i] = s[i - 1]
      BY <1>6
    <3> QED
      BY <3>1
  <2>2. ASSUME NEW j \in 1..n PROVE \E i \in 1..n + 1 : t[i] = s[j]
    <3>1. CASE j \in 1..p
      BY <1>4, <3>1
    <3>2. CASE j \notin 1..p
      <4>1. j \in p + 1..n /\ j + 1 \in 1..n + 1
        BY <3>2
      <4> QED
        BY <1>4, <4>1
    <3> QED
      BY <3>1, <3>2
  <2>3. p + 1 \in 1..n + 1 /\ t[p + 1] = e
    BY <1>4
  <2>4. Elements(t) = {t[i] : i \in 1..n + 1} /\ Elements(s) = {s[i] : i \in 1..n}
    BY <1>1, <1>5 DEF Elements
  <2>5. Elements(t) \subseteq Elements(s) \union {e}
    BY <2>1, <2>4
  <2>6. Elements(s) \union {e} \subseteq Elements(t)
    BY <2>2, <2>3, <2>4
  <2> QED
    BY <2>5, <2>6
<1>9. ASSUME DistinctKeys(s), \A i \in DOMAIN s : s[i].key # e.key
      PROVE  DistinctKeys(t)
  <2>1. /\ \A i, j \in 1..n : s[i].key = s[j].key => i = j
        /\ \A i \in 1..n : s[i].key # e.key
    BY <1>1, <1>9 DEF DistinctKeys
  <2> SUFFICES ASSUME NEW i \in 1..n + 1, NEW j \in 1..n + 1, t[i].key = t[j].key
               PROVE  i = j
    BY <1>5 DEF DistinctKeys
  <2>2. CASE i \in 1..p /\ t[i] = s[i]
    <3>1. \/ j \in 1..p /\ t[j] = s[j]
          \/ t[j] = e
          \/ j - 1 \in p + 1..n /\ t[j] = s[j - 1]
      BY <1>6
    <3>2. i \in 1..n /\ (j \in 1..p => j \in 1..n) /\ (j - 1 \in p + 1..n => j - 1 \in 1..n /\ j - 1 # i)
      BY <2>2
    <3> QED
      BY <2>1, <2>2, <3>1, <3>2
  <2>3. CASE i = p + 1 /\ t[i] = e
    <3>1. \/ j \in 1..n /\ t[j] = s[j]
          \/ j = p + 1
          \/ j - 1 \in 1..n /\ t[j] = s[j - 1]
      BY <1>6
    <3> QED
      BY <2>1, <2>3, <3>1
  <2>4. CASE i - 1 \in p + 1..n /\ t[i] = s[i - 1]
    <3>1. \/ j \in 1..p /\ t[j] = s[j]
          \/ t[j] = e
          \/ j - 1 \in p + 1..n /\ t[j] = s[j - 1]
      BY <1>6
    <3>2. i - 1 \in 1..n /\ (j \in 1..p => j \in 1..n /\ j # i - 1) /\ (j - 1 \in p + 1..n => j - 1 \in 1..n)
      BY <2>4
    <3>3. j - 1 = i - 1 => i = j
      OBVIOUS
    <3> QED
      BY <2>1, <2>4, <3>1, <3>2, <3>3
  <2> QED
    BY <1>6, <2>2, <2>3, <2>4
<1> QED
  BY <1>1, <1>4, <1>7, <1>8, <1>9

\* publishTopOffenders' insertion sort: the same entries, the largest first.
LEMMA SortIsSorted ==
  ASSUME NEW s \in Seq(Entry), DistinctKeys(s), NEW t, t = sortOffenders(s)
  PROVE  /\ t \in Seq(Entry) /\ Len(t) = Len(s)
         /\ Descending(t) /\ DistinctKeys(t) /\ Elements(t) = Elements(s)
<1>1. /\ Len(s) \in Nat /\ DOMAIN s = 1..Len(s)
      /\ \A j \in 1..Len(s) : s[j] \in Entry
  BY LenProperties, ElementOfSeq
<1>2. PICK f : /\ f = [n \in 0..Len(s) |-> IF n = 0 THEN <<>> ELSE InsertSorted(f[n - 1], s[n])]
               /\ t = f[Len(s)]
  BY <1>1, SortIsPasses
<1>3. f[0] = <<>> /\ \A n \in 1..Len(s) : f[n] = InsertSorted(f[n - 1], s[n])
  BY <1>1, <1>2
<1> DEFINE Sorted(n) == /\ f[n] \in Seq(Entry) /\ Len(f[n]) = n
                        /\ Descending(f[n]) /\ DistinctKeys(f[n])
                        /\ Elements(f[n]) = {s[i] : i \in 1..n}
           Bad == {n \in 0..Len(s) : ~Sorted(n)}
<1>4. Sorted(0)
  BY <1>3 DEF Descending, DistinctKeys, Elements
<1>5. ASSUME NEW n \in 1..Len(s), Sorted(n - 1) PROVE Sorted(n)
  <2>1. f[n] = InsertSorted(f[n - 1], s[n]) /\ f[n - 1] \in Seq(Entry) /\ Len(f[n - 1]) = n - 1
    BY <1>3, <1>5
  <2>2. Elements(f[n - 1]) = {s[i] : i \in 1..n - 1}
    BY <1>5
  <2>3. \A i \in DOMAIN f[n - 1] : f[n - 1][i].key # s[n].key
    <3> SUFFICES ASSUME NEW i \in DOMAIN f[n - 1], f[n - 1][i].key = s[n].key PROVE FALSE
      OBVIOUS
    <3>1. f[n - 1][i] \in Elements(f[n - 1])
      BY DEF Elements
    <3>2. PICK j \in 1..n - 1 : f[n - 1][i] = s[j]
      BY <2>2, <3>1
    <3>3. j \in DOMAIN s /\ n \in DOMAIN s /\ j # n
      BY <1>1
    <3> QED
      BY <3>2, <3>3 DEF DistinctKeys
  <2>4. /\ f[n] \in Seq(Entry) /\ Len(f[n]) = n - 1 + 1 /\ Descending(f[n])
        /\ Elements(f[n]) = Elements(f[n - 1]) \union {s[n]} /\ DistinctKeys(f[n])
    <3>1. s[n] \in Entry
      BY <1>1
    <3>2. Descending(f[n - 1]) /\ DistinctKeys(f[n - 1])
      BY <1>5
    <3> QED
      BY <2>1, <2>3, <3>1, <3>2, InsertSortedKeeps
  <2>5. {s[i] : i \in 1..n - 1} \union {s[n]} = {s[i] : i \in 1..n}
    <3>1. \A i \in 1..n : i \in 1..n - 1 \/ i = n
      OBVIOUS
    <3>2. 1..n - 1 \subseteq 1..n /\ n \in 1..n
      OBVIOUS
    <3> QED
      BY <3>1, <3>2
  <2> QED
    BY <2>2, <2>4, <2>5
<1> HIDE DEF Sorted
<1>6. Bad = {}
  <2> SUFFICES ASSUME Bad # {} PROVE FALSE
    OBVIOUS
  <2>1. PICK b \in Bad : \A n \in Bad : b <= n
    <3>1. Bad \in SUBSET Nat
      BY <1>1
    <3> QED
      BY <3>1, LeastNumber
  <2>2. b \in 1..Len(s)
    BY <1>1, <1>4, <2>1
  <2>3. b - 1 \in 0..Len(s) /\ b - 1 \notin Bad
    BY <1>1, <2>1, <2>2
  <2> QED
    BY <1>5, <2>1, <2>2, <2>3
<1>7. Sorted(Len(s))
  BY <1>1, <1>6
<1>8. {s[i] : i \in 1..Len(s)} = Elements(s)
  BY <1>1 DEF Elements
<1>9. t = f[Len(s)]
  BY <1>2
<1> QED
  BY <1>7, <1>8, <1>9, Zenon DEF Sorted

\* A sequence of the same entries is as good a list of the largest.
LEMMA SameEntriesSameTop ==
  ASSUME NEW s \in Seq(Entry), NEW t \in Seq(Entry), NEW r, TopOf(s, r),
         Len(t) = Len(s), DistinctKeys(t), Elements(t) = Elements(s)
  PROVE  TopOf(t, r)
<1>1. \A i \in DOMAIN t : \E j \in DOMAIN s : t[i] = s[j]
  <2>1. \A i \in DOMAIN t : t[i] \in Elements(s)
    BY DEF Elements
  <2> QED
    BY <2>1 DEF Elements
<1>2. \A j \in DOMAIN s : \E i \in DOMAIN t : s[j] = t[i]
  <2>1. \A j \in DOMAIN s : s[j] \in Elements(t)
    BY DEF Elements
  <2> QED
    BY <2>1 DEF Elements
<1>3. t # <<>> => Len(t) <= topN
  <2>1. t # <<>> => s # <<>>
    BY EmptySeq
  <2> QED
    BY <2>1 DEF TopOf
<1>4. \A i \in DOMAIN t : t[i].delta = r[t[i].key] /\ t[i].delta > 0
  <2>1. \A j \in DOMAIN s : s[j].delta = r[s[j].key] /\ s[j].delta > 0
    BY Zenon DEF TopOf
  <2> QED
    BY <1>1, <2>1
<1>5. \A k \in Keys : r[k] > 0 /\ (\A i \in DOMAIN t : t[i].key # k) =>
        Len(t) = topN /\ \A i \in DOMAIN t : t[i].delta >= r[k]
  <2> SUFFICES ASSUME NEW k \in Keys, r[k] > 0, \A i \in DOMAIN t : t[i].key # k
               PROVE  Len(t) = topN /\ \A i \in DOMAIN t : t[i].delta >= r[k]
    OBVIOUS
  <2>1. \A j \in DOMAIN s : s[j].key # k
    BY <1>2
  <2>2. Len(s) = topN /\ \A j \in DOMAIN s : s[j].delta >= r[k]
    BY <2>1, Zenon DEF TopOf
  <2> QED
    BY <1>1, <2>2
<1> QED
  BY <1>3, <1>4, <1>5, Zenon DEF TopOf, DistinctKeys

\* What publishTopOffenders leaves on the gauge.
LEMMA PublishTells ==
  ASSUME OffendersInv, Publish
  PROVE  topN > 0 /\ (\E k \in Keys : read[k] > 0) =>
           /\ TopOf(topOffenders', read)
           /\ \A i, j \in DOMAIN topOffenders' :
                i < j => topOffenders'[i].delta >= topOffenders'[j].delta
<1>1. topBuf \in Seq(Entry) /\ TopOf(topBuf, read) /\ topN \in Int
  BY DEF OffendersInv, RotationTypes, KeepsLargest
<1>2. CASE topBuf = <<>>
  <2>1. ~(topN > 0 /\ \E k \in Keys : read[k] > 0)
    <3> SUFFICES ASSUME NEW k \in Keys, read[k] > 0, topN > 0 PROVE FALSE
      OBVIOUS
    <3>1. Len(topBuf) = topN
      <4>1. \A i \in DOMAIN topBuf : topBuf[i].key # k
        BY <1>2
      <4> QED
        BY <1>1, <4>1, Zenon DEF TopOf
    <3> QED
      BY <1>2, <3>1
  <2> QED
    BY <2>1
<1>3. CASE topBuf # <<>>
  <2>1. topOffenders' = sortOffenders(topBuf)
    BY <1>3 DEF Publish
  <2>2. DistinctKeys(topBuf)
    BY <1>1, Zenon DEF TopOf, DistinctKeys
  <2>3. /\ topOffenders' \in Seq(Entry) /\ Len(topOffenders') = Len(topBuf)
        /\ Descending(topOffenders') /\ DistinctKeys(topOffenders')
        /\ Elements(topOffenders') = Elements(topBuf)
    BY <1>1, <2>1, <2>2, SortIsSorted
  <2>4. TopOf(topOffenders', read)
    BY <1>1, <2>3, SameEntriesSameTop
  <2> QED
    BY <2>3, <2>4, Zenon DEF Descending
<1> QED
  BY <1>2, <1>3
=============================================================================
