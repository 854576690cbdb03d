--------------------------- MODULE RegistryProofs ---------------------------
(***************************************************************************)
(* The registry's invariants, for every number of goroutines, keys and     *)
(* shards, every limit and every estimator: by induction on RegistryInv,   *)
(* one conjunct at a time.                                                 *)
(***************************************************************************)
EXTENDS Registry, TrackerOpsProofs

USE DEF Shards

\* The registry starts empty and unlocked.
LEMMA InitInv == Init => RegistryInv
<1> SUFFICES ASSUME Init PROVE RegistryInv
  OBVIOUS
<1>1. Live = {} /\ Creating = {} /\ Counting = {} /\ Counted = {}
  BY DEF Init, Live, Creating, Counting, Counted
<1>2. TypeOK
  <2>1. /\ trackers \in [Keys -> TrackerIds \union {NoTracker}]
        /\ heap \in [TrackerIds -> Tracker]
        /\ locked \in [Shards -> Threads \union {Rotator, Free}]
    BY NewTrackerType DEF Init
  <2>2. /\ pc \in [Threads -> {"idle", "lookup", "lock", "create", "count", "reject",
                               "warn", "write", "insert"}]
        /\ key \in [Threads -> Keys \union {NoKey}]
        /\ held \in [Threads -> TrackerIds \union {NoTracker}]
    BY DEF Init
  <2>3. calls \in 0 .. MaxCalls /\ rshard \in Shards
    BY RegistryAssumption DEF Init
  <2>4. /\ trackerCount \in Int /\ rejected \in Nat
        /\ warnings \in Nat /\ late \in Nat
        /\ rpc = "idle" /\ rkey \in Keys \union {NoKey}
    BY DEF Init
  <2>5. /\ rejectionWarned \in BOOLEAN
        /\ entries \in SUBSET Entry /\ staleKeys \in SUBSET Keys
    BY Zenon DEF Init
  <2> QED
    BY <2>1, <2>2, <2>3, <2>4, <2>5 DEF TypeOK
<1>3. LockDiscipline
  BY <1>1, NamesAssumption DEF Init, LockDiscipline, Sweeping
<1>4. LocalsValid /\ SnapshotLive
  BY DEF Init, LocalsValid, SnapshotLive
<1>5. TrackersDistinct
  BY <1>1, NewTrackerType DEF Init, TrackersDistinct
<1>6. CountAccurate
  BY <1>1, FS_EmptySet DEF Init, CountAccurate
<1>7. Headroom
  <2>1. Cardinality(Threads) \in Nat
    BY FinitenessAssumption, FS_CardinalityType
  <2>2. MaxCreators \in Nat
    BY <2>1, RegistryAssumption DEF MaxCreators
  <2> QED
    BY <1>1, <2>2, FS_EmptySet, RegistryAssumption DEF Init, Headroom
<1> QED
  BY <1>2, <1>3, <1>4, <1>5, <1>6, <1>7 DEF RegistryInv

-----------------------------------------------------------------------------

\* What the rotator still has to rotate is in the map, and not stale yet.
LEMMA EntryYoung ==
  ASSUME RegistryInv, NEW e \in entries
  PROVE  /\ e.key \in Live /\ trackers[e.key] = e.t /\ e.key \notin staleKeys
         /\ e.t \in TrackerIds /\ heap[e.t].idleEpochs < StaleSweepEpochs
<1>1. e.key \in Keys /\ e.t \in TrackerIds
  BY DEF RegistryInv, TypeOK, Entry
<1>2. e.key \in Live /\ trackers[e.key] = e.t /\ e.key \notin staleKeys
  BY <1>1, NamesAssumption DEF RegistryInv, TrackersDistinct, SnapshotLive, Live
<1>3. heap[e.t].idleEpochs # StaleSweepEpochs
  BY <1>2 DEF RegistryInv, TrackersDistinct
<1>4. heap[e.t].idleEpochs \in 0 .. StaleSweepEpochs
  BY <1>1 DEF RegistryInv, TypeOK, Tracker
<1>5. heap[e.t].idleEpochs < StaleSweepEpochs
  BY <1>3, <1>4 DEF StaleSweepEpochs
<1> QED
  BY <1>1, <1>2, <1>5

\* The goroutines between the flag and the log are finitely many.
LEMMA WritingFinite == IsFiniteSet(Writing) /\ Cardinality(Writing) \in Nat
BY FinitenessAssumption, FS_Subset, FS_CardinalityType DEF Writing

LEMMA TypeStep ==
  ASSUME RegistryInv, Next
  PROVE  TypeOK'
<1> USE DEF RegistryInv, TypeOK, limit, thread, rotator
<1>1. ASSUME NEW th \in Threads, NEW k \in Keys, Call(th, k) PROVE TypeOK'
  BY <1>1, RegistryAssumption DEF Call
<1>2. ASSUME NEW th \in Threads, Lookup(th) PROVE TypeOK'
  BY <1>2 DEF Lookup, LocalsValid
<1>3. ASSUME NEW th \in Threads, Acquire(th) PROVE TypeOK'
  <2>1. key[th] \in Keys
    BY <1>3 DEF Acquire, LocalsValid
  <2>2. locked' \in [Shards -> Threads \union {Rotator, Free}]
    BY <1>3 DEF Acquire
  <2>3. held' \in [Threads -> TrackerIds \union {NoTracker}]
    BY <1>3, <2>1 DEF Acquire
  <2>4. pc' \in [Threads -> {"idle", "lookup", "lock", "create", "count", "reject",
                            "warn", "write", "insert"}]
    BY <1>3 DEF Acquire
  <2> QED
    BY <1>3, <2>2, <2>3, <2>4 DEF Acquire
<1>4. ASSUME NEW th \in Threads, Put(th) PROVE TypeOK'
  BY <1>4, NewTrackerType DEF Put, LocalsValid, Unreferenced
<1>5. ASSUME NEW th \in Threads, Count(th) PROVE TypeOK'
  BY <1>5, RegistryAssumption DEF Count, LocalsValid
<1>6. ASSUME NEW th \in Threads, Reject(th) PROVE TypeOK'
  BY <1>6 DEF Reject
<1>7. ASSUME NEW th \in Threads, Warn(th) \/ WriteLine(th) PROVE TypeOK'
  <2>1. CASE Warn(th) /\ rejectionWarned
    BY <2>1 DEF Warn
  <2>2. CASE Warn(th) /\ ~rejectionWarned
    BY <2>2 DEF Warn
  <2>3. CASE WriteLine(th)
    BY <2>3 DEF WriteLine
  <2> QED
    BY <1>7, <2>1, <2>2, <2>3
<1>8. ASSUME NEW th \in Threads, InsertValue(th) PROVE TypeOK'
  <2>1. held[th] \in TrackerIds
    BY <1>8 DEF InsertValue, LocalsValid
  <2>2. \A v \in Values : Insert(heap[held[th]], v) \in Tracker
    BY <2>1, InsertType
  <2> QED
    BY <1>8, <2>1, <2>2 DEF InsertValue
<1>9. ASSUME BeginRotate PROVE TypeOK'
  BY <1>9, RegistryAssumption DEF BeginRotate
<1>10. ASSUME Snapshot PROVE TypeOK'
  BY <1>10 DEF Snapshot, Live, Entry
<1>11. ASSUME RotateTracker PROVE TypeOK'
  <2>1. PICK e \in entries :
          /\ heap' = [heap EXCEPT ![e.t] = Rotate(@)]
          /\ staleKeys' = IF IsStale(Rotate(heap[e.t]))
                          THEN staleKeys \union {e.key} ELSE staleKeys
          /\ entries' = entries \ {e}
    BY <1>11 DEF RotateTracker
  <2>2. e.t \in TrackerIds /\ e.key \in Keys
    BY <2>1 DEF Entry
  <2>3. heap[e.t].idleEpochs < StaleSweepEpochs
    BY <2>1, EntryYoung
  <2>4. Rotate(heap[e.t]) \in Tracker
    BY <2>2, <2>3, RotateType
  <2> QED
    BY <1>11, <2>1, <2>2, <2>4 DEF RotateTracker
<1>12. ASSUME NothingStale PROVE TypeOK'
  BY <1>12, RegistryAssumption DEF NothingStale, NextShard
<1>13. ASSUME LockStale PROVE TypeOK'
  BY <1>13 DEF LockStale
<1>14. ASSUME DeleteStale PROVE TypeOK'
  BY <1>14 DEF DeleteStale
<1>15. ASSUME Uncount PROVE TypeOK'
  BY <1>15, RegistryAssumption DEF Uncount, NextShard
<1>16. ASSUME FinishRotate PROVE TypeOK'
  <2>1. Cardinality(Writing) \in Nat
    BY WritingFinite
  <2> QED
    BY <1>16, <2>1 DEF FinishRotate
<1> QED
  BY <1>1, <1>2, <1>3, <1>4, <1>5, <1>6, <1>7, <1>8, <1>9, <1>10, <1>11, <1>12,
     <1>13, <1>14, <1>15, <1>16 DEF Next, ThreadStep, RotatorStep

-----------------------------------------------------------------------------

\* A creator that holds its shard's lock keeps everybody else out of it.
LEMMA LockStep ==
  ASSUME RegistryInv, Next
  PROVE  LockDiscipline'
<1> USE NamesAssumption DEF RegistryInv, TypeOK, LockDiscipline, Creating, Sweeping,
                            limit, thread, rotator
<1>0. ShardOf \in [Keys -> Shards]
  BY RegistryAssumption
<1>1. ASSUME NEW th \in Threads, NEW k \in Keys, Call(th, k) PROVE LockDiscipline'
  BY <1>1 DEF Call
<1>2. ASSUME NEW th \in Threads, Lookup(th) PROVE LockDiscipline'
  BY <1>2 DEF Lookup
<1>3. ASSUME NEW th \in Threads, Acquire(th) PROVE LockDiscipline'
  <2>1. key[th] \in Keys /\ ShardOf[key[th]] \in Shards /\ locked[ShardOf[key[th]]] = Free
    BY <1>0, <1>3 DEF Acquire, ShardFree, LocalsValid
  <2>2. CASE UNCHANGED locked /\ pc' \in {[pc EXCEPT ![th] = "insert"], [pc EXCEPT ![th] = "reject"]}
    BY <1>3, <2>2 DEF Acquire
  <2>3. CASE /\ locked' = [locked EXCEPT ![ShardOf[key[th]]] = th]
             /\ pc' = [pc EXCEPT ![th] = "create"]
    BY <1>0, <1>3, <2>1, <2>3 DEF Acquire, LocalsValid
  <2> QED
    BY <1>3, <2>2, <2>3 DEF Acquire
<1>4. ASSUME NEW th \in Threads, Put(th) PROVE LockDiscipline'
  BY <1>4 DEF Put
<1>5. ASSUME NEW th \in Threads, Count(th) PROVE LockDiscipline'
  <2>1. key[th] \in Keys /\ ShardOf[key[th]] \in Shards /\ locked[ShardOf[key[th]]] = th
    BY <1>0, <1>5 DEF Count, LocalsValid
  <2>2. \A other \in Threads \ {th} : other \in Creating =>
          ShardOf[key[other]] \in Shards /\ ShardOf[key[other]] # ShardOf[key[th]]
    BY <1>0, <2>1 DEF LocalsValid
  <2> QED
    BY <1>5, <2>1, <2>2 DEF Count
<1>6. ASSUME NEW th \in Threads, Reject(th) PROVE LockDiscipline'
  BY <1>6 DEF Reject
<1>7. ASSUME NEW th \in Threads, Warn(th) \/ WriteLine(th) PROVE LockDiscipline'
  <2>1. CASE Warn(th) /\ rejectionWarned
    BY <2>1 DEF Warn
  <2>2. CASE Warn(th) /\ ~rejectionWarned
    BY <2>2 DEF Warn
  <2>3. CASE WriteLine(th)
    BY <2>3 DEF WriteLine
  <2> QED
    BY <1>7, <2>1, <2>2, <2>3
<1>8. ASSUME NEW th \in Threads, InsertValue(th) PROVE LockDiscipline'
  BY <1>8 DEF InsertValue
<1>9. ASSUME BeginRotate PROVE LockDiscipline'
  BY <1>9 DEF BeginRotate
<1>10. ASSUME Snapshot PROVE LockDiscipline'
  BY <1>10 DEF Snapshot
<1>11. ASSUME RotateTracker PROVE LockDiscipline'
  BY <1>11 DEF RotateTracker
<1>12. ASSUME NothingStale PROVE LockDiscipline'
  BY <1>12 DEF NothingStale, NextShard
<1>13. ASSUME LockStale PROVE LockDiscipline'
  BY <1>0, <1>13 DEF LockStale, LocalsValid
<1>14. ASSUME DeleteStale PROVE LockDiscipline'
  BY <1>14 DEF DeleteStale
<1>15. ASSUME Uncount PROVE LockDiscipline'
  <2>1. locked[rshard] = Rotator /\ rshard \in Shards
    BY <1>15 DEF Uncount
  <2>2. CASE staleKeys # {}
    BY <1>15, <2>1, <2>2 DEF Uncount
  <2>3. CASE staleKeys = {}
    <3>1. /\ locked' = [locked EXCEPT ![rshard] = Free] /\ rpc' \in {"finish", "snapshot"}
          /\ pc' = pc /\ key' = key
      BY <1>15, <2>3 DEF Uncount, NextShard
    <3>2. \A th \in Creating : ShardOf[key[th]] \in Shards /\ ShardOf[key[th]] # rshard
      BY <1>0, <2>1 DEF LocalsValid
    <3>3. \A s \in Shards : s # rshard => locked'[s] = locked[s] /\ locked[s] # Rotator
      BY <2>1, <3>1
    <3>4. locked'[rshard] = Free
      BY <2>1, <3>1
    <3> QED
      BY <2>1, <3>1, <3>2, <3>3, <3>4
  <2> QED
    BY <2>2, <2>3
<1>16. ASSUME FinishRotate PROVE LockDiscipline'
  BY <1>16 DEF FinishRotate
<1> QED
  BY <1>1, <1>2, <1>3, <1>4, <1>5, <1>6, <1>7, <1>8, <1>9, <1>10, <1>11, <1>12,
     <1>13, <1>14, <1>15, <1>16 DEF Next, ThreadStep, RotatorStep

-----------------------------------------------------------------------------

\* The write lock keeps what a creator and the sweep know of the map true.
LEMMA LocalsStep ==
  ASSUME RegistryInv, Next
  PROVE  LocalsValid'
<1> USE NamesAssumption
    DEF RegistryInv, TypeOK, LocalsValid, Live, limit, thread, rotator
<1>0. ShardOf \in [Keys -> Shards]
  BY RegistryAssumption
<1>1. ASSUME NEW th \in Threads, NEW k \in Keys, Call(th, k) PROVE LocalsValid'
  BY <1>1 DEF Call
<1>2. ASSUME NEW th \in Threads, Lookup(th) PROVE LocalsValid'
  BY <1>2 DEF Lookup
<1>3. ASSUME NEW th \in Threads, Acquire(th) PROVE LocalsValid'
  BY <1>3 DEF Acquire
<1>4. ASSUME NEW th \in Threads, Put(th) PROVE LocalsValid'
  <2>1. key[th] \in Keys /\ locked[ShardOf[key[th]]] = th
    BY <1>4 DEF Put, LockDiscipline, Creating
  <2>2. \A other \in Threads \ {th} : other \in Creating => key[other] # key[th]
    BY <2>1 DEF LockDiscipline
  <2>3. rpc = "uncount" => rkey # key[th]
    BY <2>1 DEF LockDiscipline, Sweeping
  <2>4. PICK id \in TrackerIds :
          /\ trackers' = [trackers EXCEPT ![key[th]] = id]
          /\ held' = [held EXCEPT ![th] = id]
    BY <1>4 DEF Put, Unreferenced
  <2> QED
    BY <1>4, <2>1, <2>2, <2>3, <2>4 DEF Put, Creating
<1>5. ASSUME NEW th \in Threads, Count(th) PROVE LocalsValid'
  BY <1>5 DEF Count
<1>6. ASSUME NEW th \in Threads, Reject(th) PROVE LocalsValid'
  BY <1>6 DEF Reject
<1>7. ASSUME NEW th \in Threads, Warn(th) \/ WriteLine(th) PROVE LocalsValid'
  BY <1>7 DEF Warn, WriteLine
<1>8. ASSUME NEW th \in Threads, InsertValue(th) PROVE LocalsValid'
  BY <1>8 DEF InsertValue
<1>9. ASSUME BeginRotate PROVE LocalsValid'
  BY <1>9 DEF BeginRotate
<1>10. ASSUME Snapshot PROVE LocalsValid'
  BY <1>10 DEF Snapshot
<1>11. ASSUME RotateTracker PROVE LocalsValid'
  BY <1>11 DEF RotateTracker
<1>12. ASSUME NothingStale PROVE LocalsValid'
  BY <1>12 DEF NothingStale, NextShard
<1>13. ASSUME LockStale PROVE LocalsValid'
  BY <1>13 DEF LockStale
<1>14. ASSUME DeleteStale PROVE LocalsValid'
  <2>1. PICK k \in staleKeys :
          trackers' = [trackers EXCEPT ![k] = NoTracker] /\ rkey' = k
    BY <1>14 DEF DeleteStale
  <2>2. k \in Keys /\ ShardOf[k] = rshard /\ locked[rshard] = Rotator
    BY <1>14, <2>1 DEF DeleteStale, SnapshotLive, LockDiscipline, Sweeping
  <2>3. \A th \in Creating : key[th] # k
    BY <2>2 DEF LockDiscipline, Creating
  <2> QED
    BY <1>14, <2>1, <2>2, <2>3 DEF DeleteStale, Creating
<1>15. ASSUME Uncount PROVE LocalsValid'
  BY <1>15 DEF Uncount, NextShard
<1>16. ASSUME FinishRotate PROVE LocalsValid'
  BY <1>16 DEF FinishRotate
<1> QED
  BY <1>1, <1>2, <1>3, <1>4, <1>5, <1>6, <1>7, <1>8, <1>9, <1>10, <1>11, <1>12,
     <1>13, <1>14, <1>15, <1>16 DEF Next, ThreadStep, RotatorStep

-----------------------------------------------------------------------------

\* While the rotator is at a shard without its lock, trackers can be added to it
\* but none can be replaced or taken away, so its snapshot does not go stale.
LEMMA SnapshotStep ==
  ASSUME RegistryInv, Next
  PROVE  SnapshotLive'
<1> USE NamesAssumption
    DEF RegistryInv, TypeOK, SnapshotLive, Live, limit, thread, rotator
<1>1. ASSUME NEW th \in Threads, NEW k \in Keys, Call(th, k) PROVE SnapshotLive'
  BY <1>1 DEF Call
<1>2. ASSUME NEW th \in Threads, Lookup(th) PROVE SnapshotLive'
  BY <1>2 DEF Lookup
<1>3. ASSUME NEW th \in Threads, Acquire(th) PROVE SnapshotLive'
  BY <1>3 DEF Acquire
<1>4. ASSUME NEW th \in Threads, Put(th) PROVE SnapshotLive'
  <2>1. key[th] \in Keys /\ key[th] \notin Live
    BY <1>4 DEF Put, LocalsValid
  <2>2. PICK id \in Unreferenced :
          /\ heap' = [heap EXCEPT ![id] = NewTracker]
          /\ trackers' = [trackers EXCEPT ![key[th]] = id]
    BY <1>4 DEF Put
  <2>3. id \in TrackerIds /\ \A k \in Keys : trackers[k] # id
    BY <2>2 DEF Unreferenced
  <2>4. /\ \A k \in Keys : k # key[th] => trackers'[k] = trackers[k]
        /\ \A k \in Live : heap'[trackers[k]] = heap[trackers[k]]
    BY <2>2, <2>3
  <2>5. \A e \in entries : e.key \in Live /\ e.t \in TrackerIds
    BY DEF Entry
  <2> QED
    BY <1>4, <2>1, <2>4, <2>5 DEF Put
<1>5. ASSUME NEW th \in Threads, Count(th) PROVE SnapshotLive'
  BY <1>5 DEF Count
<1>6. ASSUME NEW th \in Threads, Reject(th) PROVE SnapshotLive'
  BY <1>6 DEF Reject
<1>7. ASSUME NEW th \in Threads, Warn(th) \/ WriteLine(th) PROVE SnapshotLive'
  BY <1>7 DEF Warn, WriteLine
<1>8. ASSUME NEW th \in Threads, InsertValue(th) PROVE SnapshotLive'
  <2>1. held[th] \in TrackerIds
    BY <1>8 DEF InsertValue, LocalsValid
  <2>2. PICK v \in Values : heap' = [heap EXCEPT ![held[th]] = Insert(@, v)]
    BY <1>8 DEF InsertValue
  <2>3. Insert(heap[held[th]], v).idleEpochs = heap[held[th]].idleEpochs
    BY <2>1, InsertType
  <2>4. \A id \in TrackerIds : heap'[id].idleEpochs = heap[id].idleEpochs
    BY <2>1, <2>2, <2>3
  <2> QED
    BY <1>8, <2>4 DEF InsertValue
<1>9. ASSUME BeginRotate PROVE SnapshotLive'
  BY <1>9 DEF BeginRotate, LocalsValid
<1>10. ASSUME Snapshot PROVE SnapshotLive'
  BY <1>10 DEF Snapshot, LocalsValid
<1>11. ASSUME RotateTracker PROVE SnapshotLive'
  <2>1. PICK e \in entries :
          /\ heap' = [heap EXCEPT ![e.t] = Rotate(@)]
          /\ staleKeys' = IF IsStale(Rotate(heap[e.t]))
                          THEN staleKeys \union {e.key} ELSE staleKeys
          /\ entries' = entries \ {e}
    BY <1>11 DEF RotateTracker
  <2>2. e.t \in TrackerIds /\ e.key \in Live /\ trackers[e.key] = e.t /\ ShardOf[e.key] = rshard
    BY <2>1 DEF Entry
  <2>3. \A k \in Live : k # e.key => heap'[trackers[k]] = heap[trackers[k]]
    BY <2>1, <2>2 DEF TrackersDistinct
  <2>4. e.key \notin staleKeys
    BY <2>1 DEF TrackersDistinct
  <2>5. heap'[e.t] = Rotate(heap[e.t])
    BY <2>1, <2>2
  <2>6. heap[e.t].idleEpochs < StaleSweepEpochs
    BY <2>1, EntryYoung
  <2>7. IsStale(heap'[e.t]) => heap'[e.t].idleEpochs = StaleSweepEpochs
    BY <2>2, <2>5, <2>6, RotateType
  <2>8. UNCHANGED <<trackers, rshard>>
    BY <1>11 DEF RotateTracker
  <2> QED
    BY <2>1, <2>2, <2>3, <2>4, <2>5, <2>7, <2>8
<1>12. ASSUME NothingStale PROVE SnapshotLive'
  BY <1>12 DEF NothingStale, NextShard
<1>13. ASSUME LockStale PROVE SnapshotLive'
  BY <1>13 DEF LockStale
<1>14. ASSUME DeleteStale PROVE SnapshotLive'
  <2>1. PICK k \in staleKeys :
          trackers' = [trackers EXCEPT ![k] = NoTracker] /\ staleKeys' = staleKeys \ {k}
    BY <1>14 DEF DeleteStale
  <2>2. entries = {}
    BY <1>14 DEF DeleteStale, LocalsValid
  <2> QED
    BY <1>14, <2>1, <2>2 DEF DeleteStale
<1>15. ASSUME Uncount PROVE SnapshotLive'
  BY <1>15 DEF Uncount, NextShard, LocalsValid
<1>16. ASSUME FinishRotate PROVE SnapshotLive'
  BY <1>16 DEF FinishRotate, LocalsValid
<1> QED
  BY <1>1, <1>2, <1>3, <1>4, <1>5, <1>6, <1>7, <1>8, <1>9, <1>10, <1>11, <1>12,
     <1>13, <1>14, <1>15, <1>16 DEF Next, ThreadStep, RotatorStep

-----------------------------------------------------------------------------

LEMMA DistinctStep ==
  ASSUME RegistryInv, Next
  PROVE  TrackersDistinct'
<1> USE NamesAssumption
    DEF RegistryInv, TypeOK, TrackersDistinct, Live, limit, thread, rotator
<1>1. ASSUME NEW th \in Threads, NEW k \in Keys, Call(th, k) PROVE TrackersDistinct'
  BY <1>1 DEF Call
<1>2. ASSUME NEW th \in Threads, Lookup(th) PROVE TrackersDistinct'
  BY <1>2 DEF Lookup
<1>3. ASSUME NEW th \in Threads, Acquire(th) PROVE TrackersDistinct'
  BY <1>3 DEF Acquire
<1>4. ASSUME NEW th \in Threads, Put(th) PROVE TrackersDistinct'
  <2>1. key[th] \in Keys /\ key[th] \notin Live
    BY <1>4 DEF Put, LocalsValid
  <2>2. PICK id \in Unreferenced :
          /\ heap' = [heap EXCEPT ![id] = NewTracker]
          /\ trackers' = [trackers EXCEPT ![key[th]] = id]
    BY <1>4 DEF Put
  <2>3. id \in TrackerIds /\ \A k \in Keys : trackers[k] # id
    BY <2>2 DEF Unreferenced
  <2>4. /\ \A k \in Keys : k # key[th] => trackers'[k] = trackers[k]
        /\ trackers'[key[th]] = id
    BY <2>1, <2>2
  <2>5. /\ \A j \in TrackerIds : j # id => heap'[j] = heap[j]
        /\ heap'[id] = NewTracker
    BY <2>2, <2>3
  <2>6. IdleEmpty(NewTracker) /\ NewTracker.idleEpochs # StaleSweepEpochs
    BY NewTrackerType DEF StaleSweepEpochs, Tracker
  <2>7. \A j \in TrackerIds : IdleEmpty(heap'[j])
    BY <2>5, <2>6
  <2>8. UNCHANGED <<entries, staleKeys>>
    BY <1>4 DEF Put
  <2>9. \A k \in Live' : k = key[th] \/ (k \in Live /\ trackers'[k] = trackers[k])
    BY <2>4
  <2>10. \A k, l \in Live' : trackers'[k] = trackers'[l] => k = l
    BY <2>3, <2>4, <2>9
  <2>11. \A k \in Live' : heap'[trackers'[k]].idleEpochs = StaleSweepEpochs => k \in staleKeys'
    BY <2>3, <2>4, <2>5, <2>6, <2>8, <2>9
  <2> QED
    BY <2>7, <2>8, <2>10, <2>11
<1>5. ASSUME NEW th \in Threads, Count(th) PROVE TrackersDistinct'
  BY <1>5 DEF Count
<1>6. ASSUME NEW th \in Threads, Reject(th) PROVE TrackersDistinct'
  BY <1>6 DEF Reject
<1>7. ASSUME NEW th \in Threads, Warn(th) \/ WriteLine(th) PROVE TrackersDistinct'
  BY <1>7 DEF Warn, WriteLine
<1>8. ASSUME NEW th \in Threads, InsertValue(th) PROVE TrackersDistinct'
  <2>1. held[th] \in TrackerIds
    BY <1>8 DEF InsertValue, LocalsValid
  <2>2. PICK v \in Values : heap' = [heap EXCEPT ![held[th]] = Insert(@, v)]
    BY <1>8 DEF InsertValue
  <2>3. /\ Insert(heap[held[th]], v).idleEpochs = heap[held[th]].idleEpochs
        /\ IdleEmpty(Insert(heap[held[th]], v))
    BY <2>1, InsertType, InsertIdleEmpty
  <2>4. \A id \in TrackerIds :
          heap'[id].idleEpochs = heap[id].idleEpochs /\ IdleEmpty(heap'[id])
    BY <2>1, <2>2, <2>3
  <2>5. UNCHANGED <<trackers, entries, staleKeys>>
    BY <1>8 DEF InsertValue
  <2>6. \A k \in Live : trackers[k] \in TrackerIds
    OBVIOUS
  <2> QED
    BY <2>4, <2>5, <2>6
<1>9. ASSUME BeginRotate PROVE TrackersDistinct'
  BY <1>9 DEF BeginRotate
<1>10. ASSUME Snapshot PROVE TrackersDistinct'
  <2>1. staleKeys = {}
    BY <1>10 DEF Snapshot, LocalsValid
  <2> QED
    BY <1>10, <2>1 DEF Snapshot
<1>11. ASSUME RotateTracker PROVE TrackersDistinct'
  <2>1. PICK e \in entries :
          /\ heap' = [heap EXCEPT ![e.t] = Rotate(@)]
          /\ staleKeys' = IF IsStale(Rotate(heap[e.t]))
                          THEN staleKeys \union {e.key} ELSE staleKeys
          /\ entries' = entries \ {e}
    BY <1>11 DEF RotateTracker
  <2>2. /\ e.key \in Live /\ trackers[e.key] = e.t /\ e.key \notin staleKeys
        /\ e.t \in TrackerIds /\ heap[e.t].idleEpochs < StaleSweepEpochs
    BY <2>1, EntryYoung
  <2>3. heap'[e.t] = Rotate(heap[e.t])
    BY <2>1, <2>2
  <2>4. \A k \in Live : k # e.key => heap'[trackers[k]] = heap[trackers[k]]
    BY <2>1, <2>2
  <2>5. heap'[e.t].idleEpochs = StaleSweepEpochs => e.key \in staleKeys'
    BY <2>1, <2>2, <2>3, RotateType
  <2>6. IdleEmpty(Rotate(heap[e.t]))
    BY <2>2, RotateIdleEmpty
  <2>7. \A id \in TrackerIds : IdleEmpty(heap'[id])
    BY <2>1, <2>2, <2>6
  <2>8. UNCHANGED trackers
    BY <1>11 DEF RotateTracker
  <2>9. \A f \in entries : f # e => f.key # e.key
    <3>1. \A f \in entries : f.t = trackers[f.key] /\ f = [key |-> f.key, t |-> f.t]
      BY DEF SnapshotLive, Entry
    <3> QED
      BY <2>1, <3>1
  <2>10. \A f \in entries' : f.key \notin staleKeys'
    BY <2>1, <2>9
  <2>11. \A k \in Live : heap'[trackers[k]].idleEpochs = StaleSweepEpochs => k \in staleKeys'
    BY <2>1, <2>2, <2>4, <2>5
  <2> QED
    BY <2>7, <2>8, <2>10, <2>11
<1>12. ASSUME NothingStale PROVE TrackersDistinct'
  BY <1>12 DEF NothingStale, NextShard
<1>13. ASSUME LockStale PROVE TrackersDistinct'
  BY <1>13 DEF LockStale
<1>14. ASSUME DeleteStale PROVE TrackersDistinct'
  <2>1. PICK k \in staleKeys :
          trackers' = [trackers EXCEPT ![k] = NoTracker] /\ staleKeys' = staleKeys \ {k}
    BY <1>14 DEF DeleteStale
  <2>2. \A l \in Live' : l # k /\ l \in Live /\ trackers'[l] = trackers[l]
    BY <2>1
  <2>3. UNCHANGED <<heap, entries>>
    BY <1>14 DEF DeleteStale
  <2> QED
    BY <2>1, <2>2, <2>3
<1>15. ASSUME Uncount PROVE TrackersDistinct'
  BY <1>15 DEF Uncount, NextShard
<1>16. ASSUME FinishRotate PROVE TrackersDistinct'
  BY <1>16 DEF FinishRotate
<1> QED
  BY <1>1, <1>2, <1>3, <1>4, <1>5, <1>6, <1>7, <1>8, <1>9, <1>10, <1>11, <1>12,
     <1>13, <1>14, <1>15, <1>16 DEF Next, ThreadStep, RotatorStep

-----------------------------------------------------------------------------

\* What is counted is a finite set of keys.
LEMMA CountedFinite ==
  ASSUME RegistryInv
  PROVE  IsFiniteSet(Counted) /\ Cardinality(Counted) \in Nat
<1>1. Counted \in SUBSET Keys
  BY DEF RegistryInv, LocalsValid, Counted, Live
<1> QED
  BY <1>1, FinitenessAssumption, FS_Subset, FS_CardinalityType

\* The four steps that touch the count or what is counted: a put is not counted
\* before its Count, a deletion not uncounted before its Uncount.
LEMMA PutCounts ==
  ASSUME RegistryInv, NEW th \in Threads, Put(th)
  PROVE  Counted' = Counted /\ trackerCount' = trackerCount
<1> USE DEF RegistryInv, TypeOK, limit, thread, rotator
<1>1. key[th] \in Keys /\ key[th] \notin Live
  BY DEF Put, LocalsValid
<1>2. PICK id \in TrackerIds : trackers' = [trackers EXCEPT ![key[th]] = id]
  BY DEF Put, Unreferenced
<1>3. Live' = Live \union {key[th]}
  BY <1>1, <1>2, NamesAssumption DEF Live
<1>4. Counting' = Counting \union {th} /\ key' = key /\ rpc' = rpc /\ rkey' = rkey
  BY DEF Put, Counting
<1>5. rpc = "uncount" => rkey # key[th]
  <2>1. locked[ShardOf[key[th]]] = th
    BY DEF Put, LockDiscipline, Creating
  <2> QED
    BY <2>1, NamesAssumption DEF LockDiscipline, Sweeping, LocalsValid
<1>6. {key'[x] : x \in Counting'} = {key[x] : x \in Counting} \union {key[th]}
  BY <1>4
<1>7. Counted' = Counted
  BY <1>1, <1>3, <1>4, <1>6 DEF Counted
<1> QED
  BY <1>7 DEF Put

LEMMA CountCounts ==
  ASSUME RegistryInv, NEW th \in Threads, Count(th)
  PROVE  /\ Counted' = Counted \union {key[th]} /\ key[th] \notin Counted
         /\ trackerCount' = trackerCount + 1
<1> USE DEF RegistryInv, TypeOK, limit, thread, rotator
<1>1. key[th] \in Live /\ th \in Counting
  BY DEF Count, LocalsValid, Counting
<1>2. /\ Counting' = Counting \ {th} /\ key' = key /\ rpc' = rpc /\ rkey' = rkey
      /\ trackers' = trackers
  BY DEF Count, Counting
<1>3. locked[ShardOf[key[th]]] = th
  BY DEF Count, LockDiscipline, Creating
<1>4. \A other \in Counting \ {th} : key[other] # key[th]
  BY <1>3 DEF LockDiscipline, Creating, Counting
<1>5. rpc = "uncount" => rkey # key[th]
  BY <1>3, NamesAssumption DEF LockDiscipline, Sweeping, LocalsValid
<1>6. {key'[x] : x \in Counting'} = {key[x] : x \in Counting} \ {key[th]}
  BY <1>1, <1>2, <1>4
<1>7. Live' = Live
  BY <1>2 DEF Live
<1>8. key[th] \in {key[x] : x \in Counting}
  BY <1>1
<1>9. Counted' = Counted \union {key[th]} /\ key[th] \notin Counted
  BY <1>1, <1>2, <1>5, <1>6, <1>7, <1>8 DEF Counted
<1> QED
  BY <1>9 DEF Count

LEMMA DeleteCounts ==
  ASSUME RegistryInv, DeleteStale
  PROVE  Counted' = Counted /\ trackerCount' = trackerCount
<1> USE DEF RegistryInv, TypeOK, limit, thread, rotator
<1>1. PICK k \in staleKeys :
        trackers' = [trackers EXCEPT ![k] = NoTracker] /\ rkey' = k
  BY DEF DeleteStale
<1>2. k \in Live /\ ShardOf[k] = rshard /\ locked[rshard] = Rotator
  BY <1>1 DEF DeleteStale, SnapshotLive, LockDiscipline, Sweeping
<1>3. k \notin {key[x] : x \in Counting}
  BY <1>2, NamesAssumption DEF LockDiscipline, Creating, Counting
<1>4. Live' = Live \ {k}
  BY <1>1, <1>2 DEF Live
<1>5. /\ rpc = "delete" /\ rpc' = "uncount"
      /\ {key'[x] : x \in Counting'} = {key[x] : x \in Counting}
  BY DEF DeleteStale, Counting
<1>6. Counted' = Counted
  BY <1>1, <1>2, <1>3, <1>4, <1>5 DEF Counted
<1> QED
  BY <1>6 DEF DeleteStale

LEMMA UncountCounts ==
  ASSUME RegistryInv, Uncount
  PROVE  /\ Counted' = Counted \ {rkey} /\ rkey \in Counted
         /\ trackerCount' = trackerCount - 1
<1> USE DEF RegistryInv, TypeOK, limit, thread, rotator
<1>1. rpc = "uncount" /\ rkey \notin Live
  BY DEF Uncount, LocalsValid
<1>2. rpc' # "uncount" /\ Live' = Live
  BY DEF Uncount, NextShard, Live
<1>3. {key'[x] : x \in Counting'} = {key[x] : x \in Counting}
  BY DEF Uncount, Counting
<1>4. Counted' = Counted \ {rkey} /\ rkey \in Counted
  BY <1>1, <1>2, <1>3 DEF Counted
<1> QED
  BY <1>4 DEF Uncount

\* Every other step leaves both alone.
LEMMA OthersCount ==
  ASSUME RegistryInv, Next,
         ~\E th \in Threads : Put(th) \/ Count(th),
         ~DeleteStale, ~Uncount
  PROVE  Counted' = Counted /\ trackerCount' = trackerCount
<1> USE DEF limit, thread, rotator
<1> DEFINE Frame ==
      /\ trackers' = trackers /\ trackerCount' = trackerCount
      /\ (rpc = "uncount") = (rpc' = "uncount") /\ rkey' = rkey
      /\ \A th \in Threads : /\ pc'[th] = "count" <=> pc[th] = "count"
                             /\ pc[th] = "count" => key'[th] = key[th]
<1>1. ASSUME Frame PROVE Counted' = Counted /\ trackerCount' = trackerCount
  <2>1. Live' = Live /\ Counting' = Counting
    BY <1>1 DEF Live, Counting
  <2>2. {key'[x] : x \in Counting'} = {key[x] : x \in Counting}
    BY <1>1, <2>1 DEF Counting
  <2> QED
    BY <1>1, <2>1, <2>2 DEF Counted
<1>2. ASSUME NEW th \in Threads, NEW k \in Keys, Call(th, k) PROVE Frame
  BY <1>2 DEF RegistryInv, TypeOK, Call
<1>3. ASSUME NEW th \in Threads, Lookup(th) \/ Acquire(th) PROVE Frame
  BY <1>3 DEF RegistryInv, TypeOK, Lookup, Acquire
<1>4. ASSUME NEW th \in Threads, Reject(th) \/ Warn(th) \/ WriteLine(th) \/ InsertValue(th)
      PROVE  Frame
  BY <1>4 DEF RegistryInv, TypeOK, Reject, Warn, WriteLine, InsertValue
<1>5. ASSUME BeginRotate \/ Snapshot \/ RotateTracker \/ NothingStale PROVE Frame
  BY <1>5 DEF BeginRotate, Snapshot, RotateTracker, NothingStale, NextShard
<1>6. ASSUME LockStale \/ FinishRotate PROVE Frame
  BY <1>6 DEF LockStale, FinishRotate
<1>7. Frame
  BY <1>2, <1>3, <1>4, <1>5, <1>6 DEF Next, ThreadStep, RotatorStep
<1> QED
  BY <1>1, <1>7

LEMMA CountStep ==
  ASSUME RegistryInv, Next
  PROVE  CountAccurate'
<1>1. /\ trackerCount = Cardinality(Counted)
      /\ IsFiniteSet(Counted) /\ Cardinality(Counted) \in Nat
  BY CountedFinite DEF RegistryInv, CountAccurate
<1>2. ASSUME NEW th \in Threads, Put(th) PROVE CountAccurate'
  BY <1>1, <1>2, PutCounts DEF CountAccurate
<1>3. ASSUME NEW th \in Threads, Count(th) PROVE CountAccurate'
  <2>1. /\ Counted' = Counted \union {key[th]} /\ key[th] \notin Counted
        /\ trackerCount' = trackerCount + 1
    BY <1>3, CountCounts
  <2>2. Cardinality(Counted \union {key[th]}) = Cardinality(Counted) + 1
    BY <1>1, <2>1, FS_AddElement
  <2> QED
    BY <1>1, <2>1, <2>2 DEF CountAccurate
<1>4. ASSUME DeleteStale PROVE CountAccurate'
  BY <1>1, <1>4, DeleteCounts DEF CountAccurate
<1>5. ASSUME Uncount PROVE CountAccurate'
  <2>1. /\ Counted' = Counted \ {rkey} /\ rkey \in Counted
        /\ trackerCount' = trackerCount - 1
    BY <1>5, UncountCounts
  <2>2. Cardinality(Counted \ {rkey}) = Cardinality(Counted) - 1
    BY <1>1, <2>1, FS_RemoveElement
  <2> QED
    BY <1>1, <2>1, <2>2 DEF CountAccurate
<1> QED
  BY <1>1, <1>2, <1>3, <1>4, <1>5, OthersCount DEF CountAccurate

-----------------------------------------------------------------------------

\* Goroutines that hold the locks of different shards are no more than the
\* goroutines, nor than the shards.
LEMMA DistinctShards ==
  ASSUME NEW C \in SUBSET Threads, NEW f \in [Threads -> Keys \union {NoKey}],
         \A th \in C : f[th] \in Keys,
         \A a, b \in C : ShardOf[f[a]] = ShardOf[f[b]] => a = b
  PROVE  /\ IsFiniteSet(C) /\ Cardinality(C) \in Nat /\ MaxCreators \in Nat
         /\ Cardinality(C) <= MaxCreators
<1>1. /\ IsFiniteSet(C) /\ Cardinality(C) \in Nat
      /\ Cardinality(Threads) \in Nat /\ Cardinality(C) <= Cardinality(Threads)
  BY FinitenessAssumption, FS_Subset, FS_CardinalityType
<1>2. /\ IsFiniteSet(Shards) /\ Cardinality(Shards) = NumShards
      /\ NumShards \in Nat
  <2>1. NumShards \in Nat \ {0}
    BY RegistryAssumption
  <2> QED
    BY <2>1, FS_Interval
<1>3. Cardinality(C) <= NumShards
  <2> SUFFICES ASSUME Cardinality(C) > NumShards PROVE FALSE
    BY <1>1, <1>2
  <2> DEFINE g == [th \in C |-> ShardOf[f[th]]]
  <2>1. g \in [C -> Shards]
    BY RegistryAssumption
  <2> HIDE DEF g
  <2>2. \E x, y \in C : x # y /\ g[x] = g[y]
    BY <1>1, <1>2, <2>1, FS_PigeonHole
  <2> QED
    BY <2>2 DEF g
<1> QED
  BY <1>1, <1>2, <1>3 DEF MaxCreators

\* Those who are creating at once hold the locks of different shards.
LEMMA CreatorsApart ==
  ASSUME TypeOK, LockDiscipline, LocalsValid
  PROVE  /\ \A th \in Creating : key[th] \in Keys
         /\ \A a, b \in Creating : ShardOf[key[a]] = ShardOf[key[b]] => a = b
  BY DEF TypeOK, LockDiscipline, LocalsValid, Creating

LEMMA CreatingFinite ==
  ASSUME RegistryInv
  PROVE  IsFiniteSet(Creating) /\ Cardinality(Creating) \in Nat
  BY FinitenessAssumption, FS_Subset, FS_CardinalityType DEF Creating

LEMMA HeadroomStep ==
  ASSUME RegistryInv, Next, TypeOK', LockDiscipline', LocalsValid'
  PROVE  Headroom'
<1> USE DEF limit, thread, rotator
<1>1. /\ IsFiniteSet(Creating) /\ Cardinality(Creating) \in Nat
      /\ trackerCount \in Int /\ Headroom
      /\ MaxTrackerCount \in Nat
  BY CreatingFinite, RegistryAssumption DEF RegistryInv, TypeOK
<1>2. /\ Cardinality(Creating') \in Nat /\ MaxCreators \in Nat
      /\ Cardinality(Creating') <= MaxCreators
  <2>1. Creating' \in SUBSET Threads /\ key' \in [Threads -> Keys \union {NoKey}]
    BY DEF Creating, TypeOK
  <2>2. /\ \A th \in Creating' : key'[th] \in Keys
        /\ \A a, b \in Creating' : ShardOf[key'[a]] = ShardOf[key'[b]] => a = b
    BY DEF TypeOK, LockDiscipline, LocalsValid, Creating
  <2> QED
    BY <2>1, <2>2, DistinctShards
<1>3. ASSUME Creating' = Creating, trackerCount' = trackerCount PROVE Headroom'
  BY <1>1, <1>3 DEF Headroom
<1>4. ASSUME NEW th \in Threads, NEW k \in Keys, Call(th, k) PROVE Headroom'
  BY <1>3, <1>4 DEF RegistryInv, TypeOK, Call, Creating
<1>5. ASSUME NEW th \in Threads, Lookup(th) PROVE Headroom'
  BY <1>3, <1>5 DEF RegistryInv, TypeOK, Lookup, Creating
<1>6. ASSUME NEW th \in Threads, Acquire(th) PROVE Headroom'
  <2>1. CASE pc' \in {[pc EXCEPT ![th] = "insert"], [pc EXCEPT ![th] = "reject"]}
    <3>1. Creating' = Creating /\ trackerCount' = trackerCount
      BY <1>6, <2>1 DEF RegistryInv, TypeOK, Acquire, Creating
    <3> QED
      BY <1>3, <3>1
  <2>2. CASE ~Full
    <3>1. MaxTrackerCount > 0 => trackerCount < MaxTrackerCount
      BY <1>1, <2>2 DEF Full
    <3>2. trackerCount' = trackerCount
      BY <1>6 DEF Acquire
    <3> QED
      BY <1>1, <1>2, <3>1, <3>2 DEF Headroom
  <2> QED
    BY <1>6, <2>1, <2>2 DEF Acquire
<1>7. ASSUME NEW th \in Threads, Put(th) PROVE Headroom'
  BY <1>3, <1>7 DEF RegistryInv, TypeOK, Put, Creating
<1>8. ASSUME NEW th \in Threads, Count(th) PROVE Headroom'
  <2>1. Creating' = Creating \ {th} /\ th \in Creating /\ trackerCount' = trackerCount + 1
    BY <1>8 DEF RegistryInv, TypeOK, Count, Creating
  <2>2. Cardinality(Creating \ {th}) = Cardinality(Creating) - 1
    BY <1>1, <2>1, FS_RemoveElement
  <2> QED
    BY <1>1, <1>2, <2>1, <2>2 DEF Headroom
<1>9. ASSUME NEW th \in Threads, Reject(th) \/ Warn(th) \/ WriteLine(th) \/ InsertValue(th)
      PROVE  Headroom'
  BY <1>3, <1>9 DEF RegistryInv, TypeOK, Reject, Warn, WriteLine, InsertValue, Creating
<1>10. ASSUME Uncount PROVE Headroom'
  <2>1. Creating' = Creating /\ trackerCount' = trackerCount - 1
    BY <1>10 DEF Uncount, Creating
  <2> QED
    BY <1>1, <1>2, <2>1 DEF Headroom
<1>11. ASSUME RotatorStep, ~Uncount PROVE Headroom'
  <2>1. Creating' = Creating /\ trackerCount' = trackerCount
    BY <1>11 DEF RotatorStep, BeginRotate, Snapshot, RotateTracker, NothingStale,
                 LockStale, DeleteStale, FinishRotate, Creating
  <2> QED
    BY <1>3, <2>1
<1> QED
  BY <1>4, <1>5, <1>6, <1>7, <1>8, <1>9, <1>10, <1>11 DEF Next, ThreadStep

LEMMA StepInv == RegistryInv /\ [Next]_vars => RegistryInv'
<1>1. ASSUME RegistryInv, Next PROVE RegistryInv'
  <2>1. TypeOK' /\ LockDiscipline' /\ LocalsValid'
    BY <1>1, TypeStep, LockStep, LocalsStep
  <2> QED
    BY <1>1, <2>1, SnapshotStep, DistinctStep, CountStep, HeadroomStep DEF RegistryInv
<1>2. ASSUME RegistryInv, UNCHANGED vars PROVE RegistryInv'
  BY <1>2 DEF RegistryInv, vars, limit, thread, rotator, TypeOK, LockDiscipline,
     LocalsValid, SnapshotLive, TrackersDistinct, CountAccurate, Headroom, Live, Creating,
     Sweeping, Counting, Counted
<1> QED
  BY <1>1, <1>2

LEMMA InvAlways == Spec => []RegistryInv
  BY InitInv, StepInv, PTL DEF Spec

-----------------------------------------------------------------------------

\* The registry's variables keep their types: a tracker is never rotated past
\* the number of idle epochs at which it is evicted.
THEOREM TypeCorrect == Spec => []TypeOK
<1>1. RegistryInv => TypeOK
  BY DEF RegistryInv
<1> QED
  BY <1>1, InvAlways, PTL

\* Each shard's write lock is held by one goroutine, between its Lock and Unlock.
THEOREM LocksExclude == Spec => []LockDiscipline
<1>1. RegistryInv => LockDiscipline
  BY DEF RegistryInv
<1> QED
  BY <1>1, InvAlways, PTL

\* trackerCount, updated under 256 different locks, counts the trackers.
THEOREM CounterNeverDrifts == Spec => []CountAccurate
<1>1. RegistryInv => CountAccurate
  BY DEF RegistryInv
<1> QED
  BY <1>1, InvAlways, PTL

\* The snapshot rotate() works from, without the lock it was taken under, never
\* names a tracker that is no longer the one in the map.
THEOREM SnapshotNeverStale == Spec => []SnapshotLive
<1>1. RegistryInv => SnapshotLive
  BY DEF RegistryInv
<1> QED
  BY <1>1, InvAlways, PTL

\* max_tracker_count is exceeded by less than the goroutines that can hold the
\* locks of different shards at once, for every number of either.
THEOREM LimitNearlyKept == Spec => []TrackerBound
<1>1. RegistryInv => TrackerBound
  <2> SUFFICES ASSUME RegistryInv, MaxTrackerCount > 0
               PROVE  Cardinality(Live) <= MaxTrackerCount + MaxCreators - 1
    BY DEF TrackerBound
  <2> DEFINE CK == {key[th] : th \in Counting}
  <2>1. CK \in SUBSET Keys /\ Live \in SUBSET (Counted \union CK)
    BY DEF RegistryInv, LocalsValid, Counting, Counted, Live
  <2>2. /\ IsFiniteSet(Counted) /\ Cardinality(Counted) \in Nat
        /\ trackerCount = Cardinality(Counted)
    BY CountedFinite DEF RegistryInv, CountAccurate
  <2>3. /\ IsFiniteSet(Creating) /\ Cardinality(Creating) \in Nat
    BY CreatingFinite
  <2>4. /\ IsFiniteSet(Counting) /\ Cardinality(Counting) \in Nat
        /\ Cardinality(Counting) <= Cardinality(Creating)
    <3>1. Counting \in SUBSET Creating
      BY DEF Counting, Creating
    <3> QED
      BY <2>3, <3>1, FS_Subset, FS_CardinalityType
  <2>5. IsFiniteSet(CK) /\ Cardinality(CK) \in Nat
    BY <2>1, FinitenessAssumption, FS_Subset, FS_CardinalityType
  <2>6. Cardinality(CK) <= Cardinality(Counting)
    <3> SUFFICES ASSUME Cardinality(Counting) < Cardinality(CK) PROVE FALSE
      BY <2>4, <2>5
    <3> DEFINE g == [k \in CK |-> CHOOSE th \in Counting : key[th] = k]
    <3>1. \A k \in CK : g[k] \in Counting /\ key[g[k]] = k
      OBVIOUS
    <3>2. g \in [CK -> Counting]
      BY <3>1
    <3> HIDE DEF g, CK
    <3>3. \E x, y \in CK : x # y /\ g[x] = g[y]
      BY <2>4, <2>5, <3>2, FS_PigeonHole
    <3> QED
      BY <3>1, <3>3
  <2> HIDE DEF CK
  <2>7. /\ IsFiniteSet(Counted \union CK)
        /\ Cardinality(Counted \union CK) <= Cardinality(Counted) + Cardinality(CK)
    <3>1. IsFiniteSet(Counted \intersect CK) /\ Cardinality(Counted \intersect CK) \in Nat
      BY <2>2, FS_Intersection, FS_CardinalityType
    <3>2. /\ IsFiniteSet(Counted \union CK)
          /\ Cardinality(Counted \union CK) =
               Cardinality(Counted) + Cardinality(CK) - Cardinality(Counted \intersect CK)
      BY <2>2, <2>5, FS_Union
    <3> QED
      BY <2>2, <2>5, <3>1, <3>2
  <2>8. /\ Cardinality(Live) <= Cardinality(Counted \union CK)
        /\ Cardinality(Live) \in Nat /\ Cardinality(Counted \union CK) \in Nat
    BY <2>1, <2>7, FS_Subset, FS_CardinalityType
  <2>9. trackerCount + Cardinality(Creating) <= MaxTrackerCount + MaxCreators - 1
    BY DEF RegistryInv, Headroom
  <2>10. MaxTrackerCount \in Nat /\ MaxCreators \in Nat
    <3>1. Cardinality(Threads) \in Nat
      BY FinitenessAssumption, FS_CardinalityType
    <3> QED
      BY <3>1, RegistryAssumption DEF MaxCreators
  <2> QED
    BY <2>2, <2>3, <2>4, <2>5, <2>6, <2>7, <2>8, <2>9, <2>10
<1> QED
  BY <1>1, InvAlways, PTL

\* No goroutine replaces a tracker that another one has put in the map.
THEOREM TrackersNeverReplaced == Spec => NoOverwrite
<1>1. RegistryInv /\ [Next]_vars =>
        [\A k \in Live : trackers'[k] \in {trackers[k], NoTracker}]_vars
  <2> SUFFICES ASSUME RegistryInv, Next, NEW k \in Live
               PROVE  trackers'[k] \in {trackers[k], NoTracker}
    OBVIOUS
  <2>1. k \in Keys
    BY DEF Live
  <2>2. ASSUME NEW th \in Threads, Put(th) PROVE trackers'[k] = trackers[k]
    BY <2>1, <2>2 DEF Put, RegistryInv, TypeOK, LocalsValid
  <2>3. ASSUME DeleteStale PROVE trackers'[k] \in {trackers[k], NoTracker}
    BY <2>1, <2>3 DEF DeleteStale, RegistryInv, TypeOK
  <2>4. ASSUME ~DeleteStale, ~\E th \in Threads : Put(th) PROVE trackers' = trackers
    BY <2>4 DEF Next, ThreadStep, RotatorStep, Call, Lookup, Acquire, Count, Reject, Warn,
                WriteLine, InsertValue, BeginRotate, Snapshot, RotateTracker, NothingStale, LockStale,
                Uncount, FinishRotate
  <2> QED
    BY <2>2, <2>3, <2>4
<1> QED
  BY <1>1, InvAlways, PTL DEF Spec, NoOverwrite

\* A tracker is evicted only after two idle epochs, and takes no baseline with it.
THEOREM EvictionsJustified == Spec => EvictionJustified
<1>1. RegistryInv /\ [Next]_vars =>
        [\A k \in Live : trackers'[k] = NoTracker =>
           /\ heap[trackers[k]].idleEpochs >= StaleSweepEpochs
           /\ heap[trackers[k]].previous = {}]_vars
  <2> SUFFICES ASSUME RegistryInv, Next, NEW k \in Live, trackers'[k] = NoTracker
               PROVE  /\ heap[trackers[k]].idleEpochs >= StaleSweepEpochs
                      /\ heap[trackers[k]].previous = {}
    OBVIOUS
  <2>1. k \in Keys /\ trackers[k] \in TrackerIds
    BY DEF Live, RegistryInv, TypeOK
  <2>2. ASSUME NEW th \in Threads, Put(th) PROVE FALSE
    BY <2>1, <2>2, NamesAssumption DEF Put, RegistryInv, TypeOK, LocalsValid, Live
  <2>3. DeleteStale
    BY <2>1, <2>2, NamesAssumption
       DEF Next, ThreadStep, RotatorStep, Call, Lookup, Acquire, Count, Reject, Warn,
           WriteLine, InsertValue, BeginRotate, Snapshot, RotateTracker, NothingStale, LockStale,
           Uncount, FinishRotate, Live
  <2>4. k \in staleKeys
    BY <2>1, <2>3, NamesAssumption DEF DeleteStale, RegistryInv, TypeOK
  <2>5. heap[trackers[k]].idleEpochs = StaleSweepEpochs /\ IdleEmpty(heap[trackers[k]])
    BY <2>1, <2>4 DEF RegistryInv, SnapshotLive, TrackersDistinct
  <2> QED
    BY <2>5 DEF IdleEmpty, StaleSweepEpochs
<1> QED
  BY <1>1, InvAlways, PTL DEF Spec, EvictionJustified

\* However many goroutines are turned away together, one limit warning is logged
\* between two resets of the flag, beyond those the last reset found on their way
\* to the log.
THEOREM WarningsCounted == Spec => []WarningsAccounted
<1> DEFINE W == warnings + Cardinality(Writing) = late + (IF rejectionWarned THEN 1 ELSE 0)
<1>1. Init => W
  <2> SUFFICES ASSUME Init PROVE W
    OBVIOUS
  <2>1. Writing = {}
    BY DEF Init, Writing
  <2> QED
    BY <2>1, FS_EmptySet DEF Init
<1>2. ASSUME RegistryInv, W, [Next]_vars PROVE W'
  <2> USE DEF limit, thread, rotator
  <2>1. /\ rejectionWarned \in BOOLEAN /\ warnings \in Nat /\ late \in Nat
        /\ pc \in [Threads -> {"idle", "lookup", "lock", "create", "count", "reject",
                               "warn", "write", "insert"}]
        /\ IsFiniteSet(Writing) /\ Cardinality(Writing) \in Nat
    BY <1>2, WritingFinite DEF RegistryInv, TypeOK
  <2>2. ASSUME NEW th \in Threads, Warn(th), ~rejectionWarned PROVE W'
    <3>1. Writing' = Writing \union {th} /\ th \notin Writing
      BY <2>1, <2>2 DEF Warn, Writing
    <3>2. Cardinality(Writing') = Cardinality(Writing) + 1
      BY <2>1, <3>1, FS_AddElement
    <3> QED
      BY <1>2, <2>1, <2>2, <3>2 DEF Warn
  <2>3. ASSUME NEW th \in Threads, WriteLine(th) PROVE W'
    <3>1. Writing' = Writing \ {th} /\ th \in Writing
      BY <2>1, <2>3 DEF WriteLine, Writing
    <3>2. Cardinality(Writing') = Cardinality(Writing) - 1
      BY <2>1, <3>1, FS_RemoveElement
    <3> QED
      BY <1>2, <2>1, <2>3, <3>2 DEF WriteLine
  <2>4. CASE FinishRotate
    <3>1. Writing' = Writing
      BY <2>4 DEF FinishRotate, Writing
    <3> QED
      BY <2>1, <2>4, <3>1 DEF FinishRotate
  <2>5. ASSUME UNCHANGED <<rejectionWarned, warnings, late>>,
               \A th \in Threads : (pc[th] = "write") = (pc'[th] = "write")
        PROVE  W'
    <3>1. Writing' = Writing
      BY <2>5 DEF Writing
    <3> QED
      BY <1>2, <2>5, <3>1
  <2>6. ASSUME NEW th \in Threads,
               \/ (\E k \in Keys : Call(th, k)) \/ Lookup(th) \/ Acquire(th) \/ Put(th)
               \/ Count(th) \/ Reject(th) \/ (Warn(th) /\ rejectionWarned) \/ InsertValue(th)
        PROVE  W'
    <3>1. /\ UNCHANGED <<rejectionWarned, warnings, late>>
          /\ pc[th] # "write" /\ pc'[th] # "write"
          /\ \A other \in Threads \ {th} : pc'[other] = pc[other]
      BY <2>1, <2>6 DEF Call, Lookup, Acquire, Put, Count, Reject, Warn, InsertValue
    <3> QED
      BY <2>1, <2>5, <3>1
  <2>7. CASE RotatorStep /\ ~FinishRotate
    BY <2>5, <2>7
       DEF RotatorStep, BeginRotate, Snapshot, RotateTracker, NothingStale, LockStale,
           DeleteStale, Uncount
  <2>8. CASE UNCHANGED vars
    BY <2>5, <2>8 DEF vars
  <2> QED
    BY <1>2, <2>2, <2>3, <2>4, <2>6, <2>7, <2>8 DEF Next, ThreadStep
<1>3. W => WarningsAccounted
  BY DEF WarningsAccounted
<1> HIDE DEF W
<1> QED
  BY <1>1, <1>2, <1>3, InvAlways, PTL DEF Spec

-----------------------------------------------------------------------------

\* What each tracker's fields say of one another, in the maps or not.  A tracker
\* that counts an insert holds a value.
HeapSound ==
  \A id \in TrackerIds :
    Sound(heap[id]) /\ (heap[id].insertCount > 0 => heap[id].current # {})

\* The trackers at all addresses are sound, whether a map leads to them or not.
LEMMA HeapInit == Init => HeapSound
BY NewTrackerSound DEF Init, HeapSound, NewTracker, FreshSketch

LEMMA HeapStep == RegistryInv /\ HeapSound /\ [Next]_vars => HeapSound'
<1> SUFFICES ASSUME RegistryInv, HeapSound, [Next]_vars
             PROVE  HeapSound'
  OBVIOUS
<1>1. ASSUME NEW th \in Threads, Put(th) PROVE HeapSound'
  <2>1. PICK id \in TrackerIds : heap' = [heap EXCEPT ![id] = NewTracker]
    BY <1>1 DEF Put, Unreferenced
  <2>2. Sound(NewTracker) /\ ~(NewTracker.insertCount > 0)
    BY NewTrackerSound DEF NewTracker
  <2> QED
    BY <2>1, <2>2 DEF HeapSound, RegistryInv, TypeOK
<1>2. ASSUME NEW th \in Threads, InsertValue(th) PROVE HeapSound'
  <2>1. PICK v \in Values : heap' = [heap EXCEPT ![held[th]] = Insert(@, v)]
    BY <1>2 DEF InsertValue
  <2>2. held[th] \in TrackerIds
    BY <1>2 DEF InsertValue, RegistryInv, LocalsValid
  <2>3. Sound(Insert(heap[held[th]], v))
    BY <2>2, InsertSound DEF HeapSound
  <2>4. v \in Insert(heap[held[th]], v).current
    BY <2>2, InsertType DEF HeapSound, Sound
  <2> QED
    BY <2>1, <2>2, <2>3, <2>4 DEF HeapSound, RegistryInv, TypeOK
<1>3. ASSUME RotateTracker PROVE HeapSound'
  <2>1. PICK e \in entries : heap' = [heap EXCEPT ![e.t] = Rotate(@)]
    BY <1>3 DEF RotateTracker
  <2>2. e.t \in TrackerIds /\ heap[e.t].idleEpochs < StaleSweepEpochs
    BY EntryYoung
  <2>3. Sound(Rotate(heap[e.t]))
    BY <2>2, RotateSound DEF HeapSound
  <2>4. ~(Rotate(heap[e.t]).insertCount > 0)
    BY DEF Rotate
  <2> QED
    BY <2>1, <2>2, <2>3, <2>4 DEF HeapSound, RegistryInv, TypeOK
<1>4. CASE UNCHANGED heap
  BY <1>4 DEF HeapSound
<1> QED
  BY <1>1, <1>2, <1>3, <1>4
     DEF Next, ThreadStep, RotatorStep, Call, Lookup, Acquire, Count, Reject, Warn, WriteLine,
         BeginRotate, Snapshot, NothingStale, LockStale, DeleteStale, Uncount, FinishRotate, vars

\* Where the contents of the pairs are the same, the limiters stand still.
LEMMA SameContent ==
  ASSUME \A k \in Keys : Content(k)' = Content(k)
  PROVE  UNCHANGED Limiters!mvars
BY DEF Limiters!mvars

\* An estimate of a sketch is one of the numbers a limiter may close its epoch with.
LEMMA EstimatesListed ==
  ASSUME NEW x, NEW sketch, NEW a, Estimates(x, sketch, a)
  PROVE  /\ x \in {Estimate(S) : S \in SUBSET sketch}
         /\ Limiters!Estimates(x, sketch, a)
<1>1. PICK S \in SUBSET sketch : x = Estimate(S) /\ Cardinality(sketch \ S) <= a
  BY DEF Estimates
<1>2. x \in {Estimate(T) : T \in SUBSET sketch}
  BY <1>1
<1>3. Limiters!Estimates(x, sketch, a)
  BY <1>1, Zenon DEF Limiters!Estimates, Limiters!Cardinality, Cardinality
<1> QED
  BY <1>2, <1>3

\* Without trackers, no pair's limiter has seen anything.
LEMMA InitImplementsLimiters == Init => Limiters!MInit
BY DEF Init, Limiters!MInit, Content, NewTracker, FreshSketch

\* An insert is counted by its pair's limiter, or by none if the tracker has been
\* evicted since it was looked up.
LEMMA InsertObserved ==
  ASSUME RegistryInv, HeapSound, NEW th \in Threads, InsertValue(th)
  PROVE  [Limiters!MNext]_(Limiters!mvars)
<1>1. PICK v \in Values : heap' = [heap EXCEPT ![held[th]] = Insert(@, v)]
  BY DEF InsertValue
<1>2. held[th] \in TrackerIds /\ UNCHANGED trackers /\ heap \in [TrackerIds -> Tracker]
  BY DEF InsertValue, RegistryInv, LocalsValid, TypeOK
<1>3. \A id \in TrackerIds : heap'[id] = IF id = held[th] THEN Insert(heap[id], v) ELSE heap[id]
  BY <1>1, <1>2
<1>4. \A l \in Keys : trackers[l] \in TrackerIds \union {NoTracker}
  BY DEF RegistryInv, TypeOK
<1>5. CASE \A k \in Keys : trackers[k] # held[th]
  <2>1. \A k \in Keys : Content(k)' = Content(k)
    BY <1>2, <1>3, <1>4, <1>5 DEF Content
  <2> QED
    BY <2>1, SameContent
<1>6. ASSUME NEW k \in Keys, trackers[k] = held[th]
      PROVE  Limiters!Observe(k, v)
  <2>1. k \in Live /\ \A l \in Live : trackers[l] = trackers[k] => l = k
    BY <1>2, <1>6, NamesAssumption DEF Live, RegistryInv, TrackersDistinct
  <2>2. \A l \in Keys : l # k => Content(l)' = Content(l)
    BY <1>2, <1>3, <1>4, <1>6, <2>1 DEF Content, Live
  <2>3. Content(k) = heap[held[th]] /\ Content(k)' = Insert(heap[held[th]], v)
    BY <1>2, <1>3, <1>6, NamesAssumption DEF Content
  <2>4. /\ Content(k)'.current = Content(k).current \union {v}
        /\ Content(k)'.cachedPrev = Content(k).cachedPrev
        /\ Content(k)'.idleEpochs = Content(k).idleEpochs
    <3>1. /\ Insert(heap[held[th]], v).current = heap[held[th]].current \union {v}
          /\ Insert(heap[held[th]], v).cachedPrev = heap[held[th]].cachedPrev
          /\ Insert(heap[held[th]], v).idleEpochs = heap[held[th]].idleEpochs
      BY <1>2, InsertType
    <3> QED
      BY <2>3, <3>1
  <2> QED
    BY <2>2, <2>4 DEF Limiters!Observe
<1> QED
  BY <1>5, <1>6 DEF Limiters!MNext

\* The turn of a tracker is the end of its pair's epoch.
LEMMA RotateRolls ==
  ASSUME RegistryInv, HeapSound, RotateTracker
  PROVE  \E k \in Keys : Limiters!Roll(k)
<1>1. PICK e \in entries : heap' = [heap EXCEPT ![e.t] = Rotate(@)]
  BY DEF RotateTracker
<1>2. /\ e.key \in Live /\ trackers[e.key] = e.t /\ e.t \in TrackerIds
      /\ heap[e.t].idleEpochs < StaleSweepEpochs
  BY EntryYoung
<1>3. UNCHANGED trackers /\ heap \in [TrackerIds -> Tracker]
      /\ \A l \in Keys : trackers[l] \in TrackerIds \union {NoTracker}
  BY DEF RotateTracker, RegistryInv, TypeOK
<1> DEFINE k == e.key
           t == heap[e.t]
<1>4. k \in Keys /\ \A l \in Live : trackers[l] = trackers[k] => l = k
  BY <1>2 DEF Live, RegistryInv, TrackersDistinct
<1>5. \A id \in TrackerIds : heap'[id] = IF id = e.t THEN Rotate(heap[id]) ELSE heap[id]
  BY <1>1, <1>2, <1>3
<1>6. \A l \in Keys : l # k => Content(l)' = Content(l)
  BY <1>2, <1>3, <1>4, <1>5 DEF Content, Live
<1>7. Content(k) = t /\ Content(k)' = Rotate(t)
  BY <1>2, <1>3, <1>4, <1>5, NamesAssumption DEF Content
<1>8. /\ Sound(t) /\ t \in Tracker /\ t.insertCount \in Nat
      /\ t.insertCount > 0 => t.current # {}
      /\ t.insertCount = 0 => t.current = {}
  BY <1>2 DEF HeapSound, Sound, Tracker, IdleEmpty
<1>9. /\ Content(k)'.current = {} /\ Content(k)'.cachedPrev = t.cachedCurr
      /\ Content(k)'.idleEpochs = IF t.current = {} THEN t.idleEpochs + 1 ELSE 0
  BY <1>7, <1>8 DEF Rotate, FreshSketch
<1>10. Estimates(t.cachedCurr, t.current, EstimateInterval - 1)
  BY <1>2, <1>8, RotateSound
<1>11. /\ t.cachedCurr \in {Estimate(S) : S \in SUBSET t.current}
       /\ Limiters!Estimates(t.cachedCurr, t.current, EstimateInterval - 1)
  BY <1>10, EstimatesListed
<1> HIDE DEF k, t
<1>12. Limiters!Roll(k)
  BY <1>4, <1>6, <1>7, <1>9, <1>11 DEF Limiters!Roll
<1> QED
  BY <1>4, <1>12

\* An eviction forgets a pair that has been quiet and has no baseline.
LEMMA DeleteForgets ==
  ASSUME RegistryInv, HeapSound, DeleteStale
  PROVE  \E k \in Keys : Limiters!Forget(k)
<1>1. PICK k \in staleKeys : trackers' = [trackers EXCEPT ![k] = NoTracker]
  BY DEF DeleteStale
<1>2. /\ k \in Keys /\ k \in Live /\ trackers[k] \in TrackerIds
      /\ heap[trackers[k]].idleEpochs = StaleSweepEpochs
  BY DEF RegistryInv, TypeOK, SnapshotLive, Live
<1>3. UNCHANGED heap /\ \A l \in Keys : trackers'[l] = IF l = k THEN NoTracker ELSE trackers[l]
  BY <1>1 DEF DeleteStale, RegistryInv, TypeOK
<1>4. \A l \in Keys : l # k => Content(l)' = Content(l)
  BY <1>3 DEF Content
<1>5. Content(k) = heap[trackers[k]] /\ Content(k)' = NewTracker
  BY <1>2, <1>3, NamesAssumption DEF Content
<1>6. Content(k).previous = {} /\ Content(k).idleEpochs = StaleSweepEpochs
  BY <1>2, <1>5 DEF RegistryInv, TrackersDistinct, IdleEmpty, StaleSweepEpochs
<1>7. Content(k).cachedPrev = 0
  <2>1. Estimates(Content(k).cachedPrev, {}, EstimateInterval - 1)
    BY <1>2, <1>5, <1>6 DEF HeapSound, Sound
  <2> QED
    BY <2>1, EstimateAssumption DEF Estimates
<1>8. Content(k)'.current = {} /\ Content(k)'.cachedPrev = 0 /\ Content(k)'.idleEpochs = 0
  BY <1>5 DEF NewTracker, FreshSketch
<1>9. \A l \in Keys : Content(l)'.cachedPrev = Content(l).cachedPrev
  BY <1>4, <1>7, <1>8
<1>10. Limiters!Forget(k)
  <2>1. Content(k).idleEpochs >= Limiters!StaleSweepEpochs
    BY <1>6 DEF Limiters!StaleSweepEpochs, StaleSweepEpochs
  <2>2. [l \in Keys |-> Content(l).current]' =
          [[l \in Keys |-> Content(l).current] EXCEPT ![k] = {}]
    BY <1>4, <1>8
  <2>3. [l \in Keys |-> Content(l).idleEpochs]' =
          [[l \in Keys |-> Content(l).idleEpochs] EXCEPT ![k] = 0]
    BY <1>4, <1>8
  <2>4. UNCHANGED [l \in Keys |-> Content(l).cachedPrev]
    BY <1>9
  <2> QED
    BY <1>2, <1>7, <2>1, <2>2, <2>3, <2>4 DEF Limiters!Forget
<1> QED
  BY <1>2, <1>10

\* A tracker that is put in the map is as empty as no tracker.
LEMMA PutShowsNothing ==
  ASSUME RegistryInv, NEW th \in Threads, Put(th)
  PROVE  UNCHANGED Limiters!mvars
<1>1. PICK id \in Unreferenced :
        /\ heap' = [heap EXCEPT ![id] = NewTracker]
        /\ trackers' = [trackers EXCEPT ![key[th]] = id]
  BY DEF Put
<1>2. /\ id \in TrackerIds /\ (\A l \in Keys : trackers[l] # id) /\ id # NoTracker
      /\ key[th] \in Keys /\ trackers[key[th]] = NoTracker
  BY NamesAssumption DEF Put, Unreferenced, RegistryInv, LocalsValid, Live
<1>3. \A l \in Keys : trackers'[l] = IF l = key[th] THEN id ELSE trackers[l]
  BY <1>1 DEF RegistryInv, TypeOK
<1>4. \A j \in TrackerIds : heap'[j] = IF j = id THEN NewTracker ELSE heap[j]
  BY <1>1 DEF RegistryInv, TypeOK
<1>5. \A l \in Keys : trackers[l] \in TrackerIds \union {NoTracker}
  BY DEF RegistryInv, TypeOK
<1>6. \A l \in Keys : Content(l)' = Content(l)
  BY <1>2, <1>3, <1>4, <1>5 DEF Content
<1> QED
  BY <1>6, SameContent

\* Every step of a goroutine or of the rotation is one limiter's step, or none's.
LEMMA StepImplementsLimiters ==
  RegistryInv /\ HeapSound /\ [Next]_vars => [Limiters!MNext]_(Limiters!mvars)
<1> SUFFICES ASSUME RegistryInv, HeapSound, [Next]_vars
             PROVE  [Limiters!MNext]_(Limiters!mvars)
  OBVIOUS
<1>1. ASSUME NEW th \in Threads, Put(th) PROVE UNCHANGED Limiters!mvars
  BY <1>1, PutShowsNothing
<1>2. ASSUME NEW th \in Threads, InsertValue(th) PROVE [Limiters!MNext]_(Limiters!mvars)
  BY <1>2, InsertObserved
<1>3. ASSUME RotateTracker PROVE Limiters!MNext
  BY <1>3, RotateRolls DEF Limiters!MNext
<1>4. ASSUME DeleteStale PROVE Limiters!MNext
  BY <1>4, DeleteForgets DEF Limiters!MNext
<1>5. CASE UNCHANGED <<trackers, heap>>
  <2>1. \A k \in Keys : Content(k)' = Content(k)
    BY <1>5 DEF Content
  <2> QED
    BY <2>1, SameContent
<1> QED
  BY <1>1, <1>2, <1>3, <1>4, <1>5
     DEF Next, ThreadStep, RotatorStep, Call, Lookup, Acquire, Count, Reject, Warn, WriteLine,
         BeginRotate, Snapshot, NothingStale, LockStale, Uncount, FinishRotate, vars

\* The registry keeps one limiter for each pair, for any goroutines, keys and
\* shards and whatever the steps of shouldDrop and rotate() meet.
THEOREM RegistryImplementsLimiters == Spec => ImplementsLimiters
<1>1. Init => RegistryInv /\ HeapSound
  BY InitInv, HeapInit
<1>2. RegistryInv /\ HeapSound /\ [Next]_vars => (RegistryInv /\ HeapSound)'
  BY StepInv, HeapStep
<1> QED
  BY <1>1, <1>2, InitImplementsLimiters, StepImplementsLimiters, PTL
     DEF Spec, ImplementsLimiters, Limiters!MSpec
=============================================================================
