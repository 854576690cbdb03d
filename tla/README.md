# A TLA+ development of the cardinality_guardian processor

The processor sits in an OpenTelemetry Collector pipeline. It counts, for each
(metric, label) pair, how many distinct values the label shows in an epoch, and
acts on the attributes of labels that grow by more than a limit: it tags the
data point, replaces the value, or removes the attribute and merges the points
that have become alike. The code is in `cardinalityprocessor/`; line numbers
below are of `processor.go` unless another file is named.

## The system

| Part | State | Operations | Talks to |
|---|---|---|---|
| Tracker (171-280) | two HyperLogLog sketches, two cached estimates, an insert counter, an idle counter; its own mutex | `newTracker`, `insert`, `rotate` | called by `shouldDrop` and `rotate()` |
| Registry (300-314, 982-1032) | 256 maps of trackers with an RWMutex each; `trackerCount`, `trackersRejected`, `rejectionWarned` | `shouldDrop`: look up, create under the write lock, insert, compare | hot path of every pipeline goroutine |
| Rotation (755-827) | a snapshot of one shard at a time | turn every tracker, evict the stale ones, reset the epoch's counters, publish the top offenders | the ticker goroutine; shares maps, trackers and counters with the hot path |
| Enforcement (541-735) | the attribute map of one data point, two locals that hold deferred mutations | `processMetric`, `handleAttributesWithMode` | asks `shouldDrop`, forwards to the next consumer |
| Drop-log sampling (386-389, 676-681, 816-824) | `dropsThisEpoch`, `dropLogCount` | count, log up to a cap, summarise | goroutines and rotation, through atomics |
| Reaggregation (`reaggregation.go`) | none between calls | group by hash, merge gauges or delta sums, compact | called by `processMetric` after removal |
| Top offenders (829-916) | a bounded buffer, the published list with an RWMutex | collect, sort, publish, observe | rotation writes, the metrics SDK reads |
| Lifecycle (409-500, 918-964, `factory.go`, `generated_telemetry.go`) | five callback registrations, a context, a once-flag | construct, Start, Shutdown | the Collector host, the metrics SDK, the ticker goroutine |
| Configuration (`config.go`) | read-only | `Validate`, `ResolvedEnforcementMode` | everything |

What is hard here: any number of goroutines call `ConsumeMetrics` at once and
share the maps, the trackers and the counters with one rotating goroutine. Most
of it is protected by three kinds of lock (shard, tracker, offender list), but
the tracker limit and the log cap are atomics outside the locks, the sweep
judges a tracker under one lock and deletes it under another, and the decision
is taken from a cache. Nothing is persisted and nothing is sent over a network
by the processor, so crash recovery and lost messages do not arise: a restart
is a fresh construction.

What makes each part correct:

* tracker: decisions follow the number of values up to the documented lag and
  the sketch's errors, a quiet label is not cut, epochs do not leak into each
  other;
* registry: one tracker per pair, a counter that agrees with the maps, a limit
  that bounds memory, locks that are always released, slots that come free;
* rotation: it ends, it acts on nothing stale, it evicts only the idle;
* enforcement: each decision shows on the point, protected labels are left
  alone, and nothing is removed where it is not merged;
* log sampling: each removal is counted once and each log number up to the cap
  is used once;
* reaggregation: one point per identity, in the place of the first; latest
  values, sums, intervals and exemplars preserved;
* top offenders: the N largest of the deltas this rotation read, each read
  before the turn that resets it;
* lifecycle: one rotating goroutine, epochs that go on until the context is
  done and end then, every callback unregistered;
* configuration: what Validate lets through is what the rest relies on.

## Modules

| Module | Models | Correspondence |
|---|---|---|
| `TrackerOps` | the tracker as a record and its methods | `NewTracker`, `Insert`, `Rotate` are the three functions; each holds the mutex throughout, so each is one operator. `RefreshDue` is the two-phase test of line 238, `OverLimit` the end of `shouldDrop`, with `Minus` as wrapping uint64 subtraction |
| `Tracker` | one pair alone over many epochs | `ShouldDrop(v)` creates if needed, inserts and decides; `RotateEpoch` turns the epoch and evicts |
| `GrowthLimiter` | what the tracker promises: no cache, no phases, no eviction | `Observe`, `Roll` |
| `TrackerHistory` | `Tracker` with a memory of all values of earlier epochs | used to state what the FAQ says of stable labels |
| `Registry` | `shouldDrop` of any number of goroutines against `rotate()` | one action per critical section, split where it touches an atomic: `Call`, `Lookup`, `Acquire`, `Put`, `Count`, `Reject`, `Warn` (the compare-and-swap), `WriteLine` (the logger's call after it), `InsertValue`; `BeginRotate`, `Snapshot`, `RotateTracker`, `NothingStale`, `LockStale`, `DeleteStale`, `Uncount`, `FinishRotate` |
| `LimiterMap` | what the registry promises of all pairs: one limiter each; no maps, addresses, shards, locks | `Observe`, `Roll`, `Forget` |
| `Configuration` | `Config`: defaults, `Validate`, the mode of the processor and of a metric | operators on a configuration record, with the names of the Go functions |
| `Enforcement` | data points going through `handleAttributesWithMode`, and the drop counters | `Receive`, `Keep`, `Flag`, `CountDrop`, `Draw` (the number), `WriteLine` (the line), each with `Strip` at its end, `Mutate`, `Forward`; `SwapDrops`, `SwapLogged`, `EmitSummary` |
| `Reaggregation` | one call of `reaggregateNumberDataPoints` on any slice | `ReturnEarly`, `BeginMerge`: phase 1; `Lead`, `Merge`: an iteration of phase 2; `Compact`, `Truncate`: the callback and the end of `RemoveIf` in phase 3. The helper functions keep their names |
| `ProcessMetric` | one metric through `processMetric`: `Enforcement`'s outcome on all points of the slice, then `Reaggregation` where the mode and the type ask for it | `Enforce`, then the actions of `Reaggregation` |
| `TopOffenders` | `rotate()` as the top-offenders gauge sees it, against inserts | `Snapshot`, `Collect` (one tracker under its mutex), `EndCollect`, `RotateTracker`, `EndShard`, `Publish`; `Refresh` is an insert that refreshes a cached estimate |
| `Lifecycle` | the Collector's calls, the callback registrations and the ticker goroutine, around `TopOffenders` | `ValidateConfig`, `newCardinalityProcessor` up to its `NewTelemetryBuilder`, `RegisterCallback`, `Start`, `Unregister`, `Cancel`, `ParentCancelled`, `ConsumeMetrics`; `NewTicker`, `Tick`, `TakeTick`, `Done`, `RotateStep`, `RotateReturns` |
| `MC...` | instances for TLC | |
| `...Proofs` | the theorems | |

`Tracker` and `Registry` extend `TrackerOps`, so both run the same tracker, and
their abstract specifications `GrowthLimiter` and `LimiterMap` share its notion
of an estimate. `ImplementsLimiters` maps each pair to what its tracker holds,
or to a new tracker's contents if there is none.
`Enforcement`, `ProcessMetric` and `Lifecycle` extend `Configuration`;
`ProcessMetric` extends `Reaggregation` and `Lifecycle` extends `TopOffenders`,
whose actions they run. `rotate()` appears three times, each time with the
steps that the question needs: in `Registry` for the maps, in `Enforcement` for
the drop counters, in `TopOffenders` for the deltas. The three share no data.
That `Registry` has one rotator is what `SingleRotator` of `Lifecycle` shows.
`Enforcement` leaves `shouldDrop`'s answer open (any answer, at any time), which
covers every answer the registry can give.

Abstractions:

* A sketch is the set of hashes inserted into it and `Estimate` a constant
  operator: 0 for an empty sketch, and for another whatever fits a machine word,
  more or less than there is, and less of a larger set too. `Below` and `Above`
  name the largest of its errors on either side, which exist for every estimator
  of finitely many hashes. `tracker` runs with one that errs by one on both
  sides and falls as a certain value comes in; the runs that show a disagreement
  count exactly, so that it is not the sketch's. Hashes are values: xxhash
  collisions are two values that are one.
* A line of the log is a step of its own wherever what allows it is an atomic: a
  rotation may reset the flag or the counter before the line is written. `late`
  counts the goroutines that a reset catches there.
* A read-locked section only reads the map, so it is one step that waits for
  the write lock to be free. Creation is split between the map and the counter,
  since other shards' creators read the counter in between.
* `TrackerIds` are addresses. `Put` takes one that nobody points to, as the
  allocator and the garbage collector guarantee.
* A label's fate on a point is one of raw, sentinel, absent. `Forward` ends the
  call and its locals with it. Points of one batch are taken one by one.
* Reaggregation: the XOR of 64-bit hashes is the set of what is hashed, keys
  with the text of their values, so that it conflates exactly what `AsString`
  conflates (the integer 1 and the string "1"). Doubles are exact integers,
  integers wrap at a small word. Each point brings one exemplar named by its
  index, which says at the end which points a result was merged from.
  `processMetric` calls the function for gauges and delta sums only, which
  `ProcessTypeOK` checks; what its switch would do for another type is left out.
* `ProcessMetric` lets `shouldDrop` give any answers and takes all points of a
  slice in one step: the batch is this goroutine's own copy. A point that comes
  in does not carry `otel.metric.overflow` yet.
* In `TopOffenders` a tracker is its two cached estimates. A refresh sets the
  running one to anything the estimator may say, more, as much or less, and
  stands for up to 63 inserts before it, which change no cache. Eviction does not show: an evicted tracker
  has both at 0, as one that does not exist.
* In `Lifecycle` a configuration is the record of what the program reads. The
  ticker's channel holds one tick; a goroutine that panics ends the process;
  the constructor's context may be cancelled at any time. That a registration
  fails is a choice of the SDK's.
* Actions whose name ends the name of another with a qualifier
  (`AcquireNoRecheck`, `RotateKeepingBaseline`, `MergeGaugeAlways`) are plausible mistakes, kept
  beside the definition they vary to show that the properties notice them. No
  specification uses them.

## Runs

| Run | Instance | Question |
|---|---|---|
| `tracker` | 5 values, estimates off by up to one on both sides, interval 4, limit 2, up to 9 inserts an epoch | does the lazy tracker keep its promise over many epochs? |
| `tracker_churn` | 5 values, exact estimates, limit 1 | is every new value counted against the limit? No |
| `tracker_stable` | 3 values, exact estimates | is a stable label never touched? No |
| `registry` | 2 goroutines, 4 keys in 2 shards, limit 2, 4 calls | is the registry right under every interleaving? |
| `registry_liveness` | 2 goroutines, 2 keys in 2 shards, limit 1, 2 calls, fair | does everything that begins end, and are idle pairs evicted? |
| `registry_evict_race` | as `registry` | is only a tracker without inserts evicted? No |
| `enforcement` | 2 goroutines, 2 droppable labels and a protected one, 2 points, log cap 1, every mode and metric type | does each decision reach the point, and do the counters hold? |
| `enforcement_summary` | as `enforcement` | is a suppressed drop reported? No |
| `reaggregation` | every slice of up to 3 points: 3 attribute sets of 2 identities, 3 kinds of number, 2 timestamps, with a start or none; every metric type and mode, any answers of `shouldDrop` | is what is stripped merged as the comments say, and nothing else touched? |
| `reaggregation_latest` | same | does a gauge keep what its latest point says? No |
| `lifecycle` | 13 configurations, 3 pairs in 2 shards, 0 or 2 offenders kept, 3 refreshes to 1 or 2, 2 goroutine names, fair | is there one rotation at a time, for as long as there should be, does it publish what it read, and is everything released? |
| `lifecycle_gauge` | as `lifecycle` | does the gauge always tell of the last rotation? No |

Why the bounds are enough. *Tracker*: 9 inserts with interval 4 pass through
phase 1, the first insert of phase 2 that does not refresh, a refresh in phase 2
and the lag after it; two sets of values that differ and two idle epochs in a
row are reached, as the number of epochs is not bounded; a value that brings the
estimate from above the limit back to it comes after a drop. *Registry*: two keys
in each of two shards make creators meet in a shard and across shards; limit 2
is reached, exceeded and freed, and leaves room for two creators of one pair to
race; 4 calls are enough for a pair to be created, evicted, created again and
rejected, and for two trackers of a shard to go stale together, and for two
warnings to follow one reset, while rotations are not bounded. There are as many addresses as can be referenced at once:
three in the maps and one more held by a goroutine. Addresses, goroutines and
the keys of a shard are interchangeable, and this symmetry is used in the
runs without liveness. *Enforcement*: two
points in flight at once of any type, with any labels, 4 drops against a cap of
1, any number of rotations, which come between a number and its line too.
*Reaggregation*: three
points of one identity come in every order of time, with ties, and in every
mixture of kinds, so a sum wraps and is then promoted; two of one identity
around one of another make leader and index differ; integers have two bits.
*Lifecycle*: three refreshes fill the
buffer of two and push its smaller entry out, in the second shard or the same;
they also come between the reading of a tracker and its turn, where they raise
the estimate or lower it, and in an epoch followed by one without growth. The number of rotations, ticks and calls of
Start is not bounded; a second goroutine name is there for a Start that would
launch twice. There is one configuration for each error of `Validate`, one with
a mode in capitals, one whose epoch overflows; machine integers have 20 bits
and a second 1000 units, so that an epoch of 300 seconds fits and one of 600
does not.
Deadlock is not checked, as the call returns and the bounds on calls and
inserts, where the process would go on, are reached, and a rotation needs no
tracker.

### What the runs show

* `CacheLag`, `DropIsJustified`, `OvershootBounded`: the estimate a decision is
  taken from misses no more than the values since the last refresh; no value is
  dropped without that many values above the baseline having been seen, or
  invented by the sketch; and a value is let through late by at most the lag and
  what the sketch misses.
* `StickyVerdict`: a label that was cut in an epoch comes back in it only by the
  sketch's variance. With exact counting it stays cut.
* `ImplementsLimiter`: the tracker refines `GrowthLimiter`; an eviction shows only as the end of
  an epoch.
* `LockDiscipline`, `CountAccurate`, `SnapshotLive`, `NoOverwrite`,
  `WarningsAccounted`: locks exclude, the counter agrees
  with 256 maps it is not locked with, the sweep deletes what it judged, two
  creators end up with one tracker, and of the rejections since a reset of the
  flag one is logged, besides those the reset caught before their line.
* `ImplementsLimiters`: all the steps of goroutines and rotation come to one
  growth limiter per pair. An insert is counted by its own pair's limiter; an
  epoch's end takes the estimate over; only a pair that was quiet for two epochs and
  has no baseline is forgotten. What the map of limiters allows and a reader
  might not expect: values that come between the sweep's judgment and the delete
  are forgotten with the pair, and an insert into a tracker already evicted is
  counted by none.
* `TrackerBound`: the limit is exceeded by at most the goroutines that can
  create at once, less one.
* `EveryCallReturns`, `RotationCompletes`, `IdleEvicted`: no call and no
  rotation is stuck and slots come free.
* `StrippedOnlyIfReaggregated`, `EnforcementShows`, `DropsCountedOnce`,
  `LogBudget`: what the pipeline sees and what the log says follow the decisions:
  a flagged label meets the fate its mode says, and no other; a drop is counted in
  one epoch; the numbers drawn since a reset have their lines up to the cap, besides
  those the reset caught before their line.
* `SingleWriter`, `LeadersKept`, `LatestWins`, `IntervalIsHull`,
  `TotalsPreserved`, `ExemplarsPreserved`: after removal one point is left per
  identity, where the first one was, and it says what the points it stands for
  said.

* `ProcessTypeOK`, `UnmergedKept`: the merge is entered in one mode and for two
  types; elsewhere each point stays its own and loses no label, and no two
  become alike, provided none came in with `otel.metric.overflow`.
* `KeepsLargest`, `GaugeTellsRotation`, `ReadBeforeReset`: over all shards and
  against inserts, a rotation that has seen growth leaves on the gauge the N
  largest of what it read, in order; what it read is what the turn throws away,
  unless an estimate was refreshed in between.
* `SingleRotator`, `RotationsGoOn`, `GoroutineExits`: repeated Start launches
  one goroutine; it turns epochs until the context is done and then exits.
* `CallbacksReleased`, `AssumptionsMet`, `TickerStarts`: Shutdown leaves no
  callback behind; a processor that was built has the limits the code relies
  on; `NewTicker` panics for no accepted epoch but one that overflows.

Some of these hold only with a condition that a reader of the documentation
would not expect:

* `TrackerBound`: `config.go`:114 calls `max_tracker_count` "the absolute maximum",
  but creators in different shards pass the check together (line 1005) and exceed it
  by up to the number of them less one.
* `LogBudget`: `drop_log_max_per_epoch` caps the lines of an epoch in `config.go`:132,
  but a goroutine that has drawn its number before the reset writes its line after
  it (lines 677 and 818), beyond the cap of the epoch that has begun.
* `WarningsAccounted`: the comment at line 384 has the limit warning logged "once
  per epoch", but in the same way two lines may follow one reset (lines 1008 and 814).
* `UnmergedKept` leaves out `overflow_attribute`: `config.go`:80-82 and
  `README.md`:153 say that this mode avoids the Single-Writer violation because
  all overflow points share one identity, but nothing merges them.
* `GoroutineExits` needs fairness of `select`: the comment at line 955 has the
  goroutine exit "on its next select iteration", but a tick that is ready too
  may be chosen, and Shutdown does not wait.
* `TickerStarts` excepts an `epoch_duration_seconds` above 9223372036, which
  `Validate` accepts: the Collector may then panic after a start that succeeded.
* `CallbacksReleased` is about Shutdown. A construction that fails at the second
  callback or later returns no processor to shut down, and leaves the callbacks
  registered and the child context not cancelled (lines 451-497).
* `RotationsGoOn` ends with the constructor's context (line 415).
* `IntervalIsHull` takes a delta sum's start of 0 as the smallest, as the code does
  (`reaggregation.go`:96), where the gauge case treats it as unknown.

The six violation runs are disagreements between the code and its
documentation; `PROJECT.json` quotes both sides. `GaugeFromLastRotation` finds
the gauge on an earlier rotation's offenders after an epoch without growth (line
883), where `metadata.yaml`:34 has it "from the last epoch rotation". Two are bugs
in the plain sense. A gauge point without a value leaves the leader's value in
place and moves its timestamp, so an old value is reported as the latest. And
the number subtracted as "logged" is incremented by
suppressed drops as well, so the summary does not appear when drops were
suppressed, and appears, claiming all were, when the cap is off.

Fairness (`registry_liveness`). Weak fairness of a step that is not blocked is
the scheduler's. Strong fairness of the four steps that take a shard's lock is
sync.RWMutex's: a waiting writer keeps new readers out, and an unlocking writer
admits the waiting readers. Weak fairness of `BeginRotate` is the ticker. No
goroutine is made to call.

Fairness (`lifecycle`). Weak fairness of each step of the goroutine is the
scheduler's, of `Tick` the clock's. Strong fairness of `Done` is `select`'s: of
several ready cases it chooses uniformly at random, so that a case which is
ready again and again is chosen. Nothing is assumed of the Collector's calls.

## Proofs

TLAPS checks these for all values of the constants, from the `ASSUME`s of
`TrackerOps`, `Tracker`, `Registry`, `Enforcement`, `Configuration`,
`TopOffenders`, `Lifecycle`, `Reaggregation` and `ProcessMetric`: the
estimator's range, positive interval and limit, bounds on its errors, finite sets of values,
goroutines and keys, names that do not clash, configurations and points whose
integers are the machine's, and sets of attribute sets that contain what removing
labels makes of their members.

* `TrackerOpsProofs`: `DecisionExact` (the guard makes wrapping subtraction
  exact) and the lemmas about `Insert` and `Rotate`.
* `TrackerProofs`: all the properties of the `tracker` run. The inductive
  invariant `TrackerInv` adds `IdleIsEmpty` to the type and the lag: without it
  an eviction, which throws away a tracker's sketches, could not be mapped to the
  end of an empty epoch. `AnswerHolds` (the last answer of the epoch is what the
  tracker would answer now) ties an answer to the sketches. What an answer
  says of the true counts depends on the estimator's errors, `Below` and `Above`,
  and on nothing else of it: no theorem needs that it is exact, or that it does not
  fall as values are added. `EstimateNearCount` puts the error and the lag together.
  `VerdictMeasuresGrowth`, which no run checks, takes the baseline apart as
  well: a verdict is right about the growth from one epoch to the next up to the
  errors and the lags of both caches.
* `RegistryProofs`: all the safety properties of the `registry` run, and
  `EvictionJustified`, which no run checks: only a tracker idle for two epochs,
  with an empty previous sketch, is evicted. The
  inductive invariant `RegistryInv` adds to them `LocalsValid` (what a
  goroutine's pc says of its locals, above all that a creator's key is still
  missing), `TrackersDistinct` (no two keys share a tracker and every tracker
  that is due is on the sweep's list) and `Headroom` (the counter plus those let
  in, which bounds the overshoot: a creator is let in only below the limit, and
  creators that hold locks hold different shards, which is a pigeon-hole
  argument). `RegistryImplementsLimiters` adds `HeapSound`: the trackers at all
  addresses keep their estimates close, the evicted ones with a goroutine still
  about to insert included. Each action is then one limiter's step or none:
  `InsertObserved`, `RotateRolls`, `DeleteForgets`, `PutShowsNothing`.
* `EnforcementProofs`: all the invariants of the `enforcement` run.
  `EnforcementInv` adds `PointInv`: while a point is visited, every flagged
  label is dealt with or held in one of the locals that its mode uses, and no
  other local is touched. `LogBudget` is inductive because a goroutine between its
  number and its line is counted with the lines; the same holds for
  `WarningsAccounted` of `RegistryProofs`.

* `TopOffendersProofs`: the invariant `OffendersInv` and that each step of
  `rotate()` and each insert preserves it. `KeepsLargest` needs `ReadOnce`: a
  tracker is read once per rotation, so that an entry is never about an old
  reading. That the buffer then holds the largest (`OfferKeepsLargest`) needs
  that the scan finds a least entry, which is the well-foundedness of the
  naturals. `ReadBeforeReset` needs `ReadingsHold`, which says of a tracker from
  its reading to its turn what the property says of the turn, and that none is
  marked as refreshed in between but those that wait. The insertion sort
  before publishing is a recursion over a sequence, and `SortIsSorted` says of it
  what a sort should: in descending order, with the same entries, each key once.
* `LifecycleProofs`: all the safety properties of the `lifecycle` run. Every step
  of the processor is a step of `TopOffendersProofs` or leaves its variables alone (`StepsRefine`); `Checked`
  carries what `Validate` accepted to the stages after it, `Registrations`
  relates what the SDK holds to what the builder has kept, and `Launched` says
  that before the first `Start` there is no goroutine.

* `ReaggregationProofs`: all the properties of the merge, for slices of any length, with any attributes, values and text conversion. The
  inductive invariant `ReaggregationInv` says of each loop what it has done so
  far: while merging, an index is marked if and only if an earlier one has its identity,
  an unvisited point is as it came in, and a leader holds the result of the
  visited members of its group; while compacting, what is kept is the unmarked
  indices passed, in order. The step of `Merge` shows that the result of a
  group and one more member is what the loop makes of the leader and that point.
  For the totals of `TotalsPreserved` this needs that a sum over a set
  does not depend on which element is taken out first (`SumIsSums`; the community
  modules define it by a choice), and that wrapping leaves whole words
  (`WrapTurns`), so that a sum that has wrapped and is promoted to a double
  afterwards is still accounted for.
* `ProcessMetricProofs`: the same for a metric of any type in any mode.
  Enforcement changes the attributes only, so what it hands to the merge is a
  slice that the merge's invariant starts from (`StripKeepsPoints`); a metric that
  is forwarded never enters it. `ForwardedStayApart`
  (`UnmergedKept`): in the tag mode a point's new set of attributes still tells
  its old one, since what is added is known and did not come in.

What the provers cannot do, and how far it mattered. They cannot apply the
library's induction theorems, so facts about folds and recursive functions are
shown by a least counterexample: the sequence of intermediate results is a
function whose existence is proved (`PassesExist`, `SumsExist`), and the
naturals are well founded. Only model-checked is liveness: `RotationsGoOn`,
`GoroutineExits`, `EveryCallReturns`, `RotationCompletes`, `IdleEvicted`. The
violation runs are counterexamples and need no proof.

## Not modelled, and the plan

What could be added: the answers of `shouldDrop` in the map of limiters, which
`Registry` leaves out as nothing in it depends on them, and from there the
composition of `Registry` with `Enforcement`, which now takes any answer.

Left out for good: what the callbacks observe (each is one read of an atomic or
of a list under its lock; the active-trackers gauge sums the shards one lock at
a time, so its value is of no single moment, and nothing relies on it), the
rounding of the savings, the load generator, benchmarks, test helpers and
end-to-end tests, the hashing of metric names to shards, and the parsing and
merging of the configuration, which the Collector does.
