------------------------------- MODULE Registry -------------------------------
(***************************************************************************)
(* The sharded registry of trackers: the goroutines of ConsumeMetrics that *)
(* run shouldDrop, with its double-checked creation and the global tracker *)
(* limit, against the one goroutine that runs rotate(), with its snapshot  *)
(* of a shard, the turn of each tracker and the eviction of stale ones.    *)
(*                                                                         *)
(* A read-locked section of the code only reads the shard's map, so it is  *)
(* one step that waits for the write lock to be free.  A write-locked one  *)
(* is split wherever it touches the atomic trackerCount, which other       *)
(* shards' owners read and write at the same time.  Each tracker method    *)
(* holds the tracker's own mutex throughout and is one step.               *)
(***************************************************************************)
EXTENDS TrackerOps

CONSTANTS
  Threads,          \* goroutines inside ConsumeMetrics
  Keys,             \* trackerKey: (metric, label) pairs
  NumShards,        \* numShards, 256 in the code
  ShardOf,          \* getShard: the shard of each key
  TrackerIds,       \* pointers to trackers
  NoTracker,        \* the nil pointer
  NoKey,            \* the argument of no call
  Rotator,          \* the ticker goroutine
  Free,             \* no holder of a write lock
  MaxTrackerCount,  \* 0 for no limit
  MaxCalls          \* bound: calls of shouldDrop in a behaviour

Shards == 0 .. NumShards - 1

ASSUME RegistryAssumption ==
  /\ NumShards \in Nat \ {0}
  /\ ShardOf \in [Keys -> Shards]
  /\ MaxTrackerCount \in Nat
  /\ MaxCalls \in Nat

ASSUME FinitenessAssumption == IsFiniteSet(Threads) /\ IsFiniteSet(Keys)

ASSUME NamesAssumption ==
  /\ NoTracker \notin TrackerIds
  /\ NoKey \notin Keys
  /\ Rotator \notin Threads
  /\ Free \notin Threads \union {Rotator}

VARIABLES
  trackers,         \* the shard maps: key -> pointer
  heap,             \* pointer -> tracker
  locked,           \* shard -> holder of its write lock
  trackerCount,     \* p.trackerCount
  rejected,         \* p.trackersRejected
  rejectionWarned,  \* p.rejectionWarned
  warnings,         \* limit warnings logged since the flag was last reset
  late,             \* goroutines that reset caught between the flag and the log
  pc,               \* where each goroutine is in shouldDrop
  key,              \* its argument
  held,             \* its tracker pointer t
  calls,            \* calls of shouldDrop so far
  rpc,              \* where the rotator is in rotate()
  rshard,           \* the shard it is at
  entries,          \* its snapshot of the shard: what is still to be rotated
  staleKeys,        \* what it found stale and has not deleted yet
  rkey              \* the key it deleted last

limit == <<trackerCount, rejected, rejectionWarned, warnings, late>>
thread == <<pc, key, held, calls>>
rotator == <<rpc, rshard, entries, staleKeys, rkey>>
vars == <<trackers, heap, locked, limit, thread, rotator>>

Live == {k \in Keys : trackers[k] # NoTracker}

Entry == [key : Keys, t : TrackerIds]

\* A new tracker never shares its address with one somebody still points to.
Unreferenced ==
  TrackerIds \ ({trackers[k] : k \in Keys} \union {held[th] : th \in Threads}
                  \union {e.t : e \in entries})

Init ==
  /\ trackers = [k \in Keys |-> NoTracker]
  /\ heap = [id \in TrackerIds |-> NewTracker]
  /\ locked = [s \in Shards |-> Free]
  /\ trackerCount = 0
  /\ rejected = 0
  /\ rejectionWarned = FALSE
  /\ warnings = 0
  /\ late = 0
  /\ pc = [th \in Threads |-> "idle"]
  /\ key = [th \in Threads |-> NoKey]
  /\ held = [th \in Threads |-> NoTracker]
  /\ calls = 0
  /\ rpc = "idle"
  /\ rshard = 0
  /\ entries = {}
  /\ staleKeys = {}
  /\ rkey = NoKey

-----------------------------------------------------------------------------
\* shouldDrop.  A call that returns leaves its locals behind.

ShardFree(k) == locked[ShardOf[k]] = Free

Call(th, k) ==
  /\ pc[th] = "idle"
  /\ calls < MaxCalls
  /\ calls' = calls + 1
  /\ key' = [key EXCEPT ![th] = k]
  /\ pc' = [pc EXCEPT ![th] = "lookup"]
  /\ UNCHANGED <<trackers, heap, locked, limit, held, rotator>>

\* Phase 1: the read-locked lookup.
Lookup(th) ==
  LET t == trackers[key[th]]
  IN  /\ pc[th] = "lookup"
      /\ ShardFree(key[th])
      /\ held' = [held EXCEPT ![th] = t]
      /\ pc' = [pc EXCEPT ![th] = IF t = NoTracker THEN "lock" ELSE "insert"]
      /\ UNCHANGED <<trackers, heap, locked, limit, key, calls, rotator>>

FullOffByOne == MaxTrackerCount > 0 /\ trackerCount > MaxTrackerCount
Full == MaxTrackerCount > 0 /\ trackerCount >= MaxTrackerCount

\* Phase 2: under the write lock, look again; give up if the registry is full,
\* keep the lock to create the tracker if it is not.
AcquireNoRecheck(th) ==
  /\ pc[th] = "lock"
  /\ ShardFree(key[th])
  /\ IF Full
     THEN /\ pc' = [pc EXCEPT ![th] = "reject"]
          /\ UNCHANGED locked
     ELSE /\ locked' = [locked EXCEPT ![ShardOf[key[th]]] = th]
          /\ pc' = [pc EXCEPT ![th] = "create"]
  /\ UNCHANGED <<trackers, heap, limit, key, held, calls, rotator>>
Acquire(th) ==
  LET t == trackers[key[th]]
  IN  /\ pc[th] = "lock"
      /\ ShardFree(key[th])
      /\ \/ /\ t # NoTracker
            /\ held' = [held EXCEPT ![th] = t]
            /\ pc' = [pc EXCEPT ![th] = "insert"]
            /\ UNCHANGED locked
         \/ /\ t = NoTracker /\ Full
            /\ pc' = [pc EXCEPT ![th] = "reject"]
            /\ UNCHANGED <<locked, held>>
         \/ /\ t = NoTracker /\ ~Full
            /\ locked' = [locked EXCEPT ![ShardOf[key[th]]] = th]
            /\ pc' = [pc EXCEPT ![th] = "create"]
            /\ UNCHANGED held
      /\ UNCHANGED <<trackers, heap, limit, key, calls, rotator>>

Put(th) ==
  /\ pc[th] = "create"
  /\ \E id \in Unreferenced :
       /\ heap' = [heap EXCEPT ![id] = NewTracker]
       /\ trackers' = [trackers EXCEPT ![key[th]] = id]
       /\ held' = [held EXCEPT ![th] = id]
  /\ pc' = [pc EXCEPT ![th] = "count"]
  /\ UNCHANGED <<locked, limit, key, calls, rotator>>

CountKeepingLock(th) ==
  /\ pc[th] = "count"
  /\ trackerCount' = trackerCount + 1
  /\ pc' = [pc EXCEPT ![th] = "insert"]
  /\ UNCHANGED <<trackers, heap, locked, rejected, rejectionWarned, warnings, late, key,
                 held, calls, rotator>>
Count(th) ==
  /\ pc[th] = "count"
  /\ trackerCount' = trackerCount + 1
  /\ locked' = [locked EXCEPT ![ShardOf[key[th]]] = Free]
  /\ pc' = [pc EXCEPT ![th] = "insert"]
  /\ UNCHANGED <<trackers, heap, rejected, rejectionWarned, warnings, late, key,
                 held, calls, rotator>>

\* trackersRejected.Add, then the compare-and-swap that picks who warns, then
\* the logger's call, which no lock and no flag ties to the epoch any more.
Reject(th) ==
  /\ pc[th] = "reject"
  /\ rejected' = rejected + 1
  /\ pc' = [pc EXCEPT ![th] = "warn"]
  /\ UNCHANGED <<trackers, heap, locked, trackerCount, rejectionWarned, warnings,
                 late, key, held, calls, rotator>>

WarnUnguarded(th) ==
  /\ pc[th] = "warn"
  /\ rejectionWarned' = TRUE
  /\ pc' = [pc EXCEPT ![th] = "write"]
  /\ UNCHANGED <<trackers, heap, locked, trackerCount, rejected, warnings, late, key,
                 held, calls, rotator>>
Warn(th) ==
  /\ pc[th] = "warn"
  /\ rejectionWarned' = TRUE
  /\ IF rejectionWarned
     THEN /\ pc' = [pc EXCEPT ![th] = "idle"]
          /\ key' = [key EXCEPT ![th] = NoKey]
     ELSE /\ pc' = [pc EXCEPT ![th] = "write"]
          /\ UNCHANGED key
  /\ UNCHANGED <<trackers, heap, locked, trackerCount, rejected, warnings, late, held,
                 calls, rotator>>

WriteLine(th) ==
  /\ pc[th] = "write"
  /\ warnings' = warnings + 1
  /\ pc' = [pc EXCEPT ![th] = "idle"]
  /\ key' = [key EXCEPT ![th] = NoKey]
  /\ UNCHANGED <<trackers, heap, locked, trackerCount, rejected, rejectionWarned, late,
                 held, calls, rotator>>
Writing == {th \in Threads : pc[th] = "write"}

\* t.insert: under the tracker's mutex only, whatever became of the map since.
InsertValue(th) ==
  /\ pc[th] = "insert"
  /\ \E v \in Values : heap' = [heap EXCEPT ![held[th]] = Insert(@, v)]
  /\ held' = [held EXCEPT ![th] = NoTracker]
  /\ key' = [key EXCEPT ![th] = NoKey]
  /\ pc' = [pc EXCEPT ![th] = "idle"]
  /\ UNCHANGED <<trackers, locked, limit, calls, rotator>>

-----------------------------------------------------------------------------
\* rotate()

\* Where the rotator goes when it is done with a shard.
NextShard ==
  IF rshard + 1 = NumShards
  THEN rpc' = "finish" /\ UNCHANGED rshard
  ELSE rpc' = "snapshot" /\ rshard' = rshard + 1

BeginRotate ==
  /\ rpc = "idle"
  /\ rpc' = "snapshot"
  /\ rshard' = 0
  /\ UNCHANGED <<trackers, heap, locked, limit, thread, entries, staleKeys, rkey>>

\* The trackers of the shard, copied under its read lock.
Snapshot ==
  /\ rpc = "snapshot"
  /\ locked[rshard] = Free
  /\ entries' = {[key |-> k, t |-> trackers[k]] : k \in {l \in Live : ShardOf[l] = rshard}}
  /\ rpc' = "rotate"
  /\ UNCHANGED <<trackers, heap, locked, limit, thread, rshard, staleKeys, rkey>>

\* One tracker of the snapshot, in the map's order, which is any.
RotateTracker ==
  /\ rpc = "rotate"
  /\ \E e \in entries :
       /\ heap' = [heap EXCEPT ![e.t] = Rotate(@)]
       /\ staleKeys' = IF IsStale(Rotate(heap[e.t]))
                       THEN staleKeys \union {e.key} ELSE staleKeys
       /\ entries' = entries \ {e}
  /\ UNCHANGED <<trackers, locked, limit, thread, rpc, rshard, rkey>>

\* The shard has no stale tracker: on to the next one, without its lock.
NothingStale ==
  /\ rpc = "rotate" /\ entries = {} /\ staleKeys = {}
  /\ NextShard
  /\ UNCHANGED <<trackers, heap, locked, limit, thread, entries, staleKeys, rkey>>

LockStale ==
  /\ rpc = "rotate" /\ entries = {} /\ staleKeys # {}
  /\ locked[rshard] = Free
  /\ locked' = [locked EXCEPT ![rshard] = Rotator]
  /\ rpc' = "delete"
  /\ UNCHANGED <<trackers, heap, limit, thread, rshard, entries, staleKeys, rkey>>

DeleteStale ==
  /\ rpc = "delete"
  /\ \E k \in staleKeys :
       /\ trackers' = [trackers EXCEPT ![k] = NoTracker]
       /\ staleKeys' = staleKeys \ {k}
       /\ rkey' = k
  /\ rpc' = "uncount"
  /\ UNCHANGED <<heap, locked, limit, thread, rshard, entries>>

\* trackerCount.Add(-1), and the unlock after the last one.
UncountLeaking ==
  /\ rpc = "uncount"
  /\ rkey' = NoKey
  /\ IF staleKeys = {}
     THEN NextShard /\ locked' = [locked EXCEPT ![rshard] = Free]
     ELSE rpc' = "delete" /\ UNCHANGED <<locked, rshard>>
  /\ trackerCount' = IF staleKeys = {} THEN trackerCount - 1 ELSE trackerCount
  /\ UNCHANGED <<trackers, heap, rejected, rejectionWarned, warnings, late, thread,
                 entries, staleKeys>>
UncountKeepingLock ==
  /\ rpc = "uncount"
  /\ rkey' = NoKey
  /\ trackerCount' = trackerCount - 1
  /\ IF staleKeys = {} THEN NextShard ELSE rpc' = "delete" /\ UNCHANGED rshard
  /\ UNCHANGED <<trackers, heap, locked, rejected, rejectionWarned, warnings, late,
                 thread, entries, staleKeys>>
Uncount ==
  /\ rpc = "uncount"
  /\ rkey' = NoKey
  /\ trackerCount' = trackerCount - 1
  /\ IF staleKeys = {}
     THEN NextShard /\ locked' = [locked EXCEPT ![rshard] = Free]
     ELSE rpc' = "delete" /\ UNCHANGED <<locked, rshard>>
  /\ UNCHANGED <<trackers, heap, rejected, rejectionWarned, warnings, late, thread,
                 entries, staleKeys>>

\* After the last shard: the warning may be logged again.
FinishRotate ==
  /\ rpc = "finish"
  /\ rejectionWarned' = FALSE
  /\ warnings' = 0
  /\ late' = Cardinality(Writing)
  /\ rpc' = "idle"
  /\ UNCHANGED <<trackers, heap, locked, trackerCount, rejected, thread, rshard,
                 entries, staleKeys, rkey>>

-----------------------------------------------------------------------------

ThreadStep(th) ==
  \/ \E k \in Keys : Call(th, k)
  \/ Lookup(th) \/ Acquire(th) \/ Put(th) \/ Count(th)
  \/ Reject(th) \/ Warn(th) \/ WriteLine(th) \/ InsertValue(th)

RotatorStep ==
  \/ BeginRotate \/ Snapshot \/ RotateTracker \/ NothingStale
  \/ LockStale \/ DeleteStale \/ Uncount \/ FinishRotate

Next == RotatorStep \/ \E th \in Threads : ThreadStep(th)

Spec == Init /\ [][Next]_vars

\* A goroutine that can run does so, and a sync.RWMutex starves nobody: a blocked
\* Lock keeps new readers out, and an Unlock admits the readers that waited.  The
\* ticker fires forever.  Nothing forces a caller to call.
Fairness ==
  /\ \A th \in Threads :
       /\ SF_vars(Lookup(th)) /\ SF_vars(Acquire(th))
       /\ WF_vars(Put(th)) /\ WF_vars(Count(th))
       /\ WF_vars(Reject(th)) /\ WF_vars(Warn(th)) /\ WF_vars(WriteLine(th))
       /\ WF_vars(InsertValue(th))
  /\ SF_vars(Snapshot) /\ SF_vars(LockStale)
  /\ WF_vars(BeginRotate) /\ WF_vars(RotateTracker) /\ WF_vars(NothingStale)
  /\ WF_vars(DeleteStale) /\ WF_vars(Uncount) /\ WF_vars(FinishRotate)

FairSpec == Spec /\ Fairness

-----------------------------------------------------------------------------

TypeOK ==
  /\ trackers \in [Keys -> TrackerIds \union {NoTracker}]
  /\ heap \in [TrackerIds -> Tracker]
  /\ locked \in [Shards -> Threads \union {Rotator, Free}]
  /\ trackerCount \in Int /\ rejected \in Nat
  /\ rejectionWarned \in BOOLEAN /\ warnings \in Nat /\ late \in Nat
  /\ pc \in [Threads -> {"idle", "lookup", "lock", "create", "count", "reject",
                         "warn", "write", "insert"}]
  /\ key \in [Threads -> Keys \union {NoKey}]
  /\ held \in [Threads -> TrackerIds \union {NoTracker}]
  /\ calls \in 0 .. MaxCalls
  /\ rpc \in {"idle", "snapshot", "rotate", "delete", "uncount", "finish"}
  /\ rshard \in Shards
  /\ entries \in SUBSET Entry
  /\ staleKeys \in SUBSET Keys
  /\ rkey \in Keys \union {NoKey}

\* A shard's write lock is held by exactly the goroutine that is between taking
\* and releasing it: two creators, or a creator and the sweep, never share a
\* shard, and no early return leaves a shard locked.
Creating == {th \in Threads : pc[th] \in {"create", "count"}}
Sweeping == rpc \in {"delete", "uncount"}
LockDiscipline ==
  /\ \A th \in Creating : locked[ShardOf[key[th]]] = th
  /\ Sweeping => locked[rshard] = Rotator
  /\ \A s \in Shards :
       /\ locked[s] \in Threads =>
            locked[s] \in Creating /\ ShardOf[key[locked[s]]] = s
       /\ locked[s] = Rotator => Sweeping /\ rshard = s

\* The global counter and the 256 maps are updated under different locks, yet
\* never drift apart: the counter is the number of trackers in the maps, but for
\* those just put and not yet counted and the one just deleted and not yet
\* uncounted.
Counting == {th \in Threads : pc[th] = "count"}
Counted ==
  (Live \ {key[th] : th \in Counting})
    \union (IF rpc = "uncount" THEN {rkey} ELSE {})
CountAccurate == trackerCount = Cardinality(Counted)

\* The limit is checked and taken in two steps, so that creators in different
\* shards can pass it together; they exceed it by at most one less than the
\* goroutines that can be creating at once.
MaxCreators == IF Cardinality(Threads) <= NumShards THEN Cardinality(Threads) ELSE NumShards
TrackerBound ==
  MaxTrackerCount > 0 => Cardinality(Live) <= MaxTrackerCount + MaxCreators - 1

\* What rotate() remembers of a shard after letting its lock go stays true: each
\* tracker it has still to rotate is the one in the map, and each key it has
\* found stale still leads to a tracker with StaleSweepEpochs idle epochs, so
\* that deleting by key deletes the tracker it judged.
SnapshotLive ==
  /\ \A e \in entries : trackers[e.key] = e.t /\ ShardOf[e.key] = rshard
  /\ \A k \in staleKeys :
       /\ k \in Live /\ ShardOf[k] = rshard
       /\ heap[trackers[k]].idleEpochs = StaleSweepEpochs

\* What the locals of the goroutines stand for between the steps that set them
\* and the steps that use them.  A creator still finds its key missing when it
\* puts the tracker, though it looked before; the key the sweep uncounts is gone.
LocalsValid ==
  /\ \A th \in Threads :
       /\ pc[th] # "idle" => key[th] \in Keys
       /\ pc[th] \in {"count", "insert"} => held[th] \in TrackerIds
       /\ pc[th] = "create" => key[th] \notin Live
       /\ pc[th] = "count" => key[th] \in Live
  /\ rpc = "uncount" => rkey \in Keys \ Live /\ ShardOf[rkey] = rshard
  /\ rpc \in {"idle", "snapshot", "finish"} => staleKeys = {}
  /\ rpc # "rotate" => entries = {}

\* Two keys never share a tracker, and every tracker that is due for eviction is
\* on the sweep's list before it is rotated again; one that was idle is empty.
TrackersDistinct ==
  /\ \A k, l \in Live : trackers[k] = trackers[l] => k = l
  /\ \A k \in Live : heap[trackers[k]].idleEpochs = StaleSweepEpochs => k \in staleKeys
  /\ \A e \in entries : e.key \notin staleKeys
  /\ \A id \in TrackerIds : IdleEmpty(heap[id])

\* A creator that holds its shard's lock has already been let in: the limit
\* allows for all who hold one.
Headroom ==
  MaxTrackerCount > 0 =>
    trackerCount + Cardinality(Creating) <= MaxTrackerCount + MaxCreators - 1

\* The inductive invariant behind the properties above.
RegistryInv ==
  /\ TypeOK /\ LockDiscipline /\ LocalsValid /\ SnapshotLive
  /\ TrackersDistinct /\ CountAccurate /\ Headroom

\* However many goroutines are turned away at once, one of them logs it between
\* two resets of the flag: what is logged, or about to be, is one line if the flag
\* is up, and one of each goroutine that the last reset found between the flag and
\* the log.  No line is doubled and none is lost.
WarningsAccounted ==
  warnings + Cardinality(Writing) = late + (IF rejectionWarned THEN 1 ELSE 0)

\* A tracker in the map is never replaced by another: two goroutines that miss
\* the same pair together end up counting into one tracker.
NoOverwrite ==
  [][\A k \in Live : trackers'[k] \in {trackers[k], NoTracker}]_vars

\* Only a tracker that two epochs' ends in a row found idle is evicted, and with
\* it no baseline is lost: its previous sketch is empty.
EvictionJustified ==
  [][\A k \in Live : trackers'[k] = NoTracker =>
       /\ heap[trackers[k]].idleEpochs >= StaleSweepEpochs
       /\ heap[trackers[k]].previous = {}]_vars

\* Maps, pointers, locks and the sweep together keep one limiter for each pair:
\* inserts of any goroutines are counted one by one, an epoch's end takes over an
\* estimate of what the epoch saw, and an eviction forgets only a pair that was
\* idle for two epochs and has no baseline.
Content(k) == IF trackers[k] = NoTracker THEN NewTracker ELSE heap[trackers[k]]
Limiters == INSTANCE LimiterMap
              WITH seen  <- [k \in Keys |-> Content(k).current],
                   base  <- [k \in Keys |-> Content(k).cachedPrev],
                   quiet <- [k \in Keys |-> Content(k).idleEpochs]
ImplementsLimiters == Limiters!MSpec

\* Every call of shouldDrop returns, whatever the others and the rotator do.
EveryCallReturns == \A th \in Threads : pc[th] # "idle" ~> pc[th] = "idle"

\* A rotation that has begun comes to its end, past every shard.
RotationCompletes == rpc # "idle" ~> rpc = "idle"

\* Once no goroutine works on a pair any more, its tracker is evicted for good.
InUse(k) == \E th \in Threads : key[th] = k
IdleEvicted == \A k \in Keys : <>[]~InUse(k) => <>[](trackers[k] = NoTracker)

\* README.md: "Trackers that haven't been seen for two epochs are cleaned up";
\* processor.go: "only trackers that received zero inserts for staleSweepEpochs
\* consecutive epochs are removed": an evicted tracker has not been inserted into
\* since its last rotation either.
EvictsOnlyUnseen ==
  [][\A k \in Live : trackers'[k] = NoTracker =>
       heap[trackers[k]].insertCount = 0]_vars
=============================================================================
