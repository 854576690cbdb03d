--------------------------- MODULE LifecycleProofs ---------------------------
(***************************************************************************)
(* What holds of the processor's life for any configurations, any number   *)
(* of calls of Start and any interleaving of the goroutine with metrics,   *)
(* cancellation and Shutdown.                                              *)
(*                                                                         *)
(* The invariant adds to TopOffendersProofs' that nothing gets past        *)
(* Validate unchecked (Checked), that the builder has kept every           *)
(* registration the SDK took (Registrations), and that only Start launches *)
(* a goroutine, once (Launched).                                           *)
(***************************************************************************)
EXTENDS Lifecycle, TopOffendersProofs, FiniteSetTheorems

Names == {Instruments[n] : n \in DOMAIN Instruments}

Checked ==
  /\ stage \notin {"config", "refused"} => Validate(cfg)
  /\ stage = "crashed" => TickerInterval(cfg) <= 0

\* The SDK holds the instruments registered so far, and the builder their
\* registrations, until Shutdown.
Registrations ==
  /\ registrations \in Seq(Names)
  /\ shut = "no" =>
       /\ registered = {registrations[n] : n \in DOMAIN registrations}
       /\ registered = {Instruments[n] : n \in 1..Len(registrations)}
       /\ IsFiniteSet(registered) /\ Cardinality(registered) = Len(registrations)
  /\ stage \in {"config", "refused", "build", "register"} => Len(registrations) < Len(Instruments)
  /\ shut # "no" => registered = {} /\ stage \in {"built", "crashed"}

Launched == ~once => \A g \in Ids : goroutine[g] = "none"

LifecycleInv ==
  LTypeOK /\ OffendersInv /\ Checked /\ Registrations /\ Launched /\ SingleRotator

-----------------------------------------------------------------------------

\* Every step of the processor is one of rotate() or of an insert, or leaves
\* them alone.
LEMMA StepsRefine == [LNext]_lvars => [OffendersStep]_ovars
BY DEF LNext, lvars, OffendersStep, GoroutineStep, ValidateConfig, newCardinalityProcessor,
   NewTelemetryBuilder,
       RegisterCallback, Start, Unregister, Cancel, ParentCancelled, ConsumeMetrics, NewTicker,
       Tick, TakeTick, Done, RotateStep, RotateReturns

\* The instruments are different ones, so that each registration adds one.
LEMMA InstrumentsDistinct ==
  /\ Len(Instruments) = 5 /\ DOMAIN Instruments = 1..5
  /\ \A m, n \in 1..5 : Instruments[m] = Instruments[n] => m = n
BY DEF Instruments

\* The assumption on the counts, without the rest.
LEMMA CountIsInteger ==
  ASSUME NEW c \in Configs
  PROVE  c.TopOffendersCount \in Int
BY LifecycleAssumption

\* The modes that Validate lets through are the three there are.
LEMMA ResolvedIsMode ==
  ASSUME NEW c \in Configs, Validate(c)
  PROVE  Resolved(c.EnforcementMode, c.TagOnly) \in Modes
<1>1. ValidMode(c.EnforcementMode)
  BY SMT DEF Validate
<1> QED
  BY <1>1, Zenon DEF ValidMode, Resolved, Modes

\* A product that fits 64 bits is the ticker's interval.
LEMMA IntervalFits ==
  ASSUME NEW c \in Configs, Validate(c), c.EpochDurationSeconds * Second < Word \div 2
  PROVE  TickerInterval(c) > 0
<1> USE LifecycleAssumption
<1> DEFINE product == c.EpochDurationSeconds * Second
           half == Word \div 2
<1>1. product \in Nat \ {0}
  <2>1. c.EpochDurationSeconds \in Int /\ c.EpochDurationSeconds >= 10
    BY DEF Validate, ValidEpoch
  <2> QED
    BY <2>1
<1>2. half \in Nat /\ half + half <= Word /\ Word \in Nat \ {0}
  OBVIOUS
<1>3. product + half \in Nat /\ product + half < Word
  BY <1>1, <1>2
<1>4. (product + half) % Word = product + half
  <2> HIDE DEF product, half
  <2>1. \A y \in Nat : y < Word => y % Word = y
    OBVIOUS
  <2> QED
    BY <1>3, <2>1
<1> QED
  BY <1>1, <1>2, <1>4 DEF TickerInterval

-----------------------------------------------------------------------------

\* Before the configuration is validated nothing has happened.
LEMMA LifecycleInit == LInit => LifecycleInv
<1> SUFFICES ASSUME LInit
             PROVE  LifecycleInv
  OBVIOUS
<1>1. LTypeOK
  <2>1. 0 \in Shards
    BY OffendersAssumption DEF Shards
  <2> QED
    BY <2>1 DEF LInit, OInit, LTypeOK
<1>2. OffendersInv
  <2>1. OInit /\ cfg \in Configs /\ topN = cfg.TopOffendersCount
    BY DEF LInit
  <2>2. topN \in Int
    BY <2>1, CountIsInteger
  <2> QED
    BY <2>1, <2>2, OffendersInit
<1>3. Checked
  BY DEF LInit, Checked
<1>4. Registrations
  <2>1. registered = {} /\ registrations = <<>> /\ shut = "no"
    BY DEF LInit
  <2>2. registrations \in Seq(Names) /\ Len(registrations) = 0 /\ DOMAIN registrations = {}
    BY <2>1
  <2>3. IsFiniteSet(registered) /\ Cardinality(registered) = 0
    BY <2>1, FS_EmptySet
  <2> QED
    BY <2>1, <2>2, <2>3, InstrumentsDistinct DEF Registrations
<1>5. Launched /\ SingleRotator
  BY DEF LInit, Launched, SingleRotator, OInit
<1> QED
  BY <1>1, <1>2, <1>3, <1>4, <1>5 DEF LifecycleInv

LEMMA TypesKept == LifecycleInv /\ [LNext]_lvars => LTypeOK'
<1> SUFFICES ASSUME LifecycleInv, [LNext]_lvars
             PROVE  LTypeOK'
  OBVIOUS
<1> DEFINE Host ==
      /\ cfg \in Configs /\ topN = cfg.TopOffendersCount
      /\ stage \in {"config", "refused", "build", "failed", "register", "built", "crashed"}
      /\ stage \notin {"config", "refused", "build"} => enforcementMode \in Modes
      /\ {cancelled, once} \subseteq BOOLEAN
      /\ goroutine \in [Ids -> {"none", "launched", "select", "rotating", "exited"}]
      /\ ticked \in [Ids -> BOOLEAN]
      /\ shut \in {"no", "unregistered", "done"}
<1>1. Host
  BY DEF LifecycleInv, LTypeOK
<1>2. OffendersInv'
  BY StepsRefine, OffendersStepKeepsInv DEF LifecycleInv
<1>3. topN' = topN /\ cfg' = cfg
  BY DEF LNext, lvars, ovars, rotation, trackers, host, GoroutineStep, ValidateConfig,
         newCardinalityProcessor, NewTelemetryBuilder,
         RegisterCallback, Start, Unregister, Cancel, ParentCancelled,
         ConsumeMetrics, NewTicker, Tick, TakeTick, Done, RotateStep, RotateReturns, Refresh,
         BeginRotate, InsideRotate, Snapshot, Collect, EndCollect, RotateTracker, EndShard, Publish
<1>4. stage' \notin {"config", "refused", "build"} => enforcementMode' \in Modes
  <2>1. CASE newCardinalityProcessor
    BY <1>1, <2>1, ResolvedIsMode DEF newCardinalityProcessor, NewTelemetryBuilder, LifecycleInv,
       Checked
  <2>2. CASE ~newCardinalityProcessor
    BY <1>1, <2>2 DEF LNext, lvars, host, GoroutineStep, ValidateConfig, RegisterCallback, Start,
       Unregister, Cancel, ParentCancelled, ConsumeMetrics, NewTicker, Tick, TakeTick, Done,
       RotateStep, RotateReturns
  <2> QED
    BY <2>1, <2>2
<1>5. Host'
  BY <1>1, <1>3, <1>4 DEF LNext, lvars, host, loop, GoroutineStep, ValidateConfig,
     newCardinalityProcessor, NewTelemetryBuilder,
     RegisterCallback, Start, Launch, Unregister, Cancel, ParentCancelled,
     ConsumeMetrics, NewTicker, Tick, TakeTick, Done, RotateStep, RotateReturns, NextSelect
<1>6. (registered \subseteq Names)'
  <2>1. CASE RegisterCallback
    <3>1. CASE UNCHANGED registered
      BY <3>1 DEF LifecycleInv, LTypeOK, Names
    <3>2. CASE ~UNCHANGED registered
      <4>1. PICK n : n = Cardinality(registered) + 1 /\ registered' = registered \union {Instruments[n]}
        BY <2>1, <3>2 DEF RegisterCallback, Register
      <4>2. n \in DOMAIN Instruments
        <5>1. shut = "no" /\ Cardinality(registered) = Len(registrations)
              /\ Len(registrations) \in Nat /\ Len(registrations) < 5
          BY <2>1, InstrumentsDistinct, LenProperties
          DEF RegisterCallback, LifecycleInv, LTypeOK, Registrations
        <5> QED
          BY <4>1, <5>1, InstrumentsDistinct
      <4> QED
        BY <4>1, <4>2 DEF LifecycleInv, LTypeOK, Names
    <3> QED
      BY <3>1, <3>2
  <2>2. CASE ~RegisterCallback
    <3>1. registered' \subseteq registered
      BY <2>2 DEF LNext, lvars, host, GoroutineStep, ValidateConfig, newCardinalityProcessor,
         NewTelemetryBuilder, Start,
         Unregister, Cancel, ParentCancelled, ConsumeMetrics, NewTicker, Tick, TakeTick, Done,
         RotateStep, RotateReturns
    <3> QED
      BY <3>1 DEF LifecycleInv, LTypeOK, Names
  <2> QED
    BY <2>1, <2>2
<1> QED
  BY <1>2, <1>5, <1>6 DEF LTypeOK, Names, OffendersInv, RotationTypes

\* The stages come in one order, and only NewTicker ends in a crash.
LEMMA CheckedKept == LifecycleInv /\ [LNext]_lvars => Checked'
<1> SUFFICES ASSUME LifecycleInv, [LNext]_lvars
             PROVE  Checked'
  OBVIOUS
<1>1. cfg' = cfg /\ Checked /\ stage \in {"config", "refused", "build", "failed", "register", "built", "crashed"}
  BY DEF LifecycleInv, LTypeOK, LNext, lvars, host, GoroutineStep, ValidateConfig,
         newCardinalityProcessor, NewTelemetryBuilder,
         RegisterCallback, Start, Unregister, Cancel, ParentCancelled,
         ConsumeMetrics, NewTicker, Tick, TakeTick, Done, RotateStep, RotateReturns
<1>2. CASE ValidateConfig
  BY <1>1, <1>2 DEF ValidateConfig, Checked
<1>3. CASE \E g \in Ids : NewTicker(g)
  <2>1. TickerInterval(cfg) \in Int
    <3>1. Second \in Int /\ Word \in Int /\ Word # 0 /\ Word > 0 /\ cfg.EpochDurationSeconds \in Int
      BY LifecycleAssumption DEF LifecycleInv, LTypeOK
    <3> QED
      BY <3>1 DEF TickerInterval
  <2> QED
    BY <1>1, <1>3, <2>1 DEF NewTicker, Checked
<1>4. CASE ~ValidateConfig /\ ~\E g \in Ids : NewTicker(g)
  <2>1. stage' # stage => stage \notin {"config", "refused"} /\ stage' # "crashed"
    BY <1>4 DEF LNext, lvars, host, GoroutineStep, newCardinalityProcessor, NewTelemetryBuilder,
       RegisterCallback, Start,
       Unregister, Cancel, ParentCancelled, ConsumeMetrics, Tick, TakeTick, Done, RotateStep,
       RotateReturns
  <2> QED
    BY <1>1, <2>1 DEF Checked
<1> QED
  BY <1>2, <1>3, <1>4

\* What Register adds to the one it adds to the other, and Unregister takes
\* all of it away.
LEMMA RegistrationsKept == LifecycleInv /\ [LNext]_lvars => Registrations'
<1> SUFFICES ASSUME LifecycleInv, [LNext]_lvars
             PROVE  Registrations'
  OBVIOUS
<1>1. Registrations /\ Len(registrations) \in Nat /\ DOMAIN registrations = 1..Len(registrations)
      /\ stage \in {"config", "refused", "build", "failed", "register", "built", "crashed"}
  BY LenProperties DEF LifecycleInv, LTypeOK, Registrations
<1> DEFINE Refused == stage' = "failed" /\ UNCHANGED <<registered, registrations>>
<1>2. CASE RegisterCallback /\ ~Refused
  <2> DEFINE n == Len(registrations) + 1
  <2>1. shut = "no" /\ shut' = "no" /\ stage = "register" /\ n \in 1..5
    BY <1>1, <1>2, InstrumentsDistinct DEF RegisterCallback, Registrations
  <2>2. /\ Instruments[n] \in Names
        /\ registered' = registered \union {Instruments[n]}
        /\ registrations' = Append(registrations, Instruments[n])
        /\ stage' = IF n = 5 THEN "built" ELSE "register"
    BY <1>1, <1>2, <2>1, InstrumentsDistinct
    DEF RegisterCallback, Register, Keep, Registrations, Names
  <2> HIDE DEF n
  <2>3. /\ registrations' \in Seq(Names) /\ Len(registrations') = n
        /\ DOMAIN registrations' = 1..n
        /\ registrations'[n] = Instruments[n]
        /\ \A m \in 1..Len(registrations) : registrations'[m] = registrations[m]
    BY <1>1, <2>2, AppendProperties, LenProperties DEF Registrations, n
  <2>4. 1..n = 1..Len(registrations) \union {n}
    BY <1>1 DEF n
  <2>5. /\ registered' = {registrations'[m] : m \in 1..n}
        /\ registered' = {Instruments[m] : m \in 1..n}
    BY <1>1, <2>1, <2>2, <2>3, <2>4 DEF Registrations
  <2>6. IsFiniteSet(registered') /\ Cardinality(registered') = n
    <3>1. Instruments[n] \notin registered
      BY <1>1, <2>1, InstrumentsDistinct DEF Registrations, n
    <3> QED
      BY <1>1, <2>1, <2>2, <3>1, FS_AddElement DEF Registrations, n
  <2>7. stage' = "register" => n < Len(Instruments)
    BY <2>1, <2>2, InstrumentsDistinct
  <2> QED
    BY <2>1, <2>2, <2>3, <2>5, <2>6, <2>7 DEF Registrations
<1>3. CASE Unregister
  BY <1>1, <1>3 DEF Unregister, Registrations
<1>4. CASE ~(RegisterCallback /\ ~Refused) /\ ~Unregister
  <2>1. UNCHANGED <<registered, registrations>>
    BY <1>4 DEF LNext, lvars, host, GoroutineStep, ValidateConfig, newCardinalityProcessor,
       NewTelemetryBuilder, Start,
       Cancel, ParentCancelled, ConsumeMetrics, NewTicker, Tick, TakeTick, Done, RotateStep,
       RotateReturns
  <2>2. /\ stage' \in {"config", "refused", "build", "register"} =>
             stage \in {"config", "refused", "build", "register"}
        /\ shut' # "no" => shut # "no"
        /\ shut' = "no" => shut = "no"
        /\ stage \in {"built", "crashed"} => stage' \in {"built", "crashed"}
    BY <1>4 DEF LNext, lvars, host, GoroutineStep, ValidateConfig, newCardinalityProcessor,
       NewTelemetryBuilder,
       RegisterCallback, Start, Cancel, ParentCancelled, ConsumeMetrics, NewTicker,
       Tick, TakeTick, Done, RotateStep, RotateReturns
  <2> QED
    BY <1>1, <2>1, <2>2 DEF Registrations
<1> QED
  BY <1>2, <1>3, <1>4

\* sync.Once, and the one goroutine that is in rotate() or is not.
LEMMA RotatorKept == LifecycleInv /\ [LNext]_lvars => Launched' /\ SingleRotator'
<1> SUFFICES ASSUME LifecycleInv, [LNext]_lvars
             PROVE  Launched' /\ SingleRotator'
  OBVIOUS
<1> USE DEF Launched, SingleRotator
<1>1. Launched /\ SingleRotator
      /\ goroutine \in [Ids -> {"none", "launched", "select", "rotating", "exited"}]
      /\ rpc \in {"idle", "snapshot", "collect", "rotate", "publish"}
  BY DEF LifecycleInv, LTypeOK
<1>2. CASE Start
  <2>1. rpc' = rpc
    BY <1>2 DEF Start, ovars, rotation
  <2>2. CASE once
    BY <1>1, <1>2, <2>1, <2>2 DEF Start, Launch
  <2>3. CASE ~once
    <3>1. goroutine' = [goroutine EXCEPT ![NewGoroutine] = "launched"] /\ once'
      BY <1>2, <2>3 DEF Start, Launch
    <3>2. \A g \in Ids : goroutine[g] = "none" /\ goroutine'[g] \in {"none", "launched"}
                         /\ (goroutine'[g] # "none" => g = NewGoroutine)
      BY <1>1, <2>3, <3>1
    <3> QED
      BY <1>1, <2>1, <3>1, <3>2
  <2> QED
    BY <2>2, <2>3
<1>3. CASE \E g \in Ids : GoroutineStep(g)
  <2> PICK g \in Ids : GoroutineStep(g)
    BY <1>3
  <2>1. once' = once
    BY DEF GoroutineStep, host, NewTicker, Tick, TakeTick, Done, RotateStep, RotateReturns
  <2>2. /\ \A h \in Ids \ {g} : goroutine'[h] = goroutine[h]
        /\ goroutine'[g] # "none" => goroutine[g] # "none"
    BY <1>1 DEF GoroutineStep, host, loop, NewTicker, Tick, TakeTick, Done, RotateStep,
       RotateReturns, NextSelect
  <2>3. /\ goroutine[g] = "none" => goroutine'[g] = "none"
        /\ goroutine[g] = "none" => rpc' = rpc
        /\ goroutine[g] # "none" => (rpc' # "idle" <=> goroutine'[g] = "rotating")
    <3>1. CASE NewTicker(g) \/ Tick(g) \/ Done(g)
      BY <1>1, <3>1 DEF NewTicker, Tick, Done, ovars, rotation, loop, host
    <3>2. CASE TakeTick(g)
      BY <1>1, <3>2 DEF TakeTick, BeginRotate
    <3>3. CASE RotateStep(g)
      BY <1>1, <3>3 DEF RotateStep, loop, InsideRotate, Snapshot, Collect, EndCollect,
         RotateTracker, EndShard
    <3>4. CASE RotateReturns(g)
      BY <1>1, <3>4 DEF RotateReturns, NextSelect, Publish
    <3> QED
      BY <3>1, <3>2, <3>3, <3>4 DEF GoroutineStep
  <2> QED
    BY <1>1, <2>1, <2>2, <2>3
<1>4. CASE ~Start /\ ~\E g \in Ids : GoroutineStep(g)
  <2>1. UNCHANGED <<goroutine, rpc, once>>
    BY <1>4 DEF LNext, lvars, ovars, rotation, host, loop, ValidateConfig, newCardinalityProcessor,
       NewTelemetryBuilder,
       RegisterCallback, Unregister, Cancel, ParentCancelled, ConsumeMetrics, Refresh
  <2> QED
    BY <1>1, <2>1
<1> QED
  BY <1>2, <1>3, <1>4

LEMMA LifecycleStep == LifecycleInv /\ [LNext]_lvars => LifecycleInv'
<1> SUFFICES ASSUME LifecycleInv, [LNext]_lvars
             PROVE  LifecycleInv'
  OBVIOUS
<1>1. OffendersInv'
  BY StepsRefine, OffendersStepKeepsInv DEF LifecycleInv
<1> QED
  BY <1>1, TypesKept, CheckedKept, RegistrationsKept, RotatorKept DEF LifecycleInv

LEMMA LifecycleAlways == LSpec => []LifecycleInv
BY LifecycleInit, LifecycleStep, PTL DEF LSpec

-----------------------------------------------------------------------------

\* Every variable keeps to its type.
THEOREM LifecycleTyped == LSpec => []LTypeOK
<1>1. LifecycleInv => LTypeOK
  BY DEF LifecycleInv
<1> QED
  BY <1>1, LifecycleAlways, PTL

\* The bounded buffer holds the largest of the deltas read so far, for any
\* pairs, shards and bound on the offenders.
THEOREM LargestKept == LSpec => []KeepsLargest
<1>1. LifecycleInv => KeepsLargest
  BY DEF LifecycleInv, OffendersInv
<1> QED
  BY <1>1, LifecycleAlways, PTL

\* The growth that a tracker's turn throws away was read before it, unless the
\* estimate was refreshed in between, and whatever came in at the other trackers.
THEOREM ReadingIsTrue == LSpec => ReadBeforeReset
<1>1. LifecycleInv =>
        [\A k \in Keys : rpc = "rotate" /\ k \in (todo \ todo') \ moved /\ topN > 0 =>
           read[k] = IF curr[k] > prev[k] THEN curr[k] - prev[k] ELSE 0]_ovars
  <2> SUFFICES ASSUME LifecycleInv, NEW k \in Keys, rpc = "rotate", k \in todo \ moved, topN > 0
               PROVE  read[k] = Delta(k)
    BY DEF Delta
  <2>1. k \in Waiting \ moved
    BY DEF LifecycleInv, LTypeOK, Waiting
  <2> QED
    BY <2>1 DEF LifecycleInv, OffendersInv, ReadingsHold
<1> QED
  BY <1>1, LifecycleAlways, PTL DEF ReadBeforeReset

\* What a rotation that has seen growth leaves on the gauge are the largest deltas
\* it has read, in descending order.
THEOREM GaugeTold == LSpec => GaugeTellsRotation
<1>1. LifecycleInv /\ [LNext]_lvars =>
        [rpc = "publish" /\ rpc' = "idle" /\ topN > 0 /\ (\E k \in Keys : read[k] > 0) =>
           /\ TopOf(topOffenders', read)
           /\ \A i, j \in DOMAIN topOffenders' :
                i < j => topOffenders'[i].delta >= topOffenders'[j].delta]_ovars
  <2> SUFFICES ASSUME LifecycleInv, OffendersStep, rpc = "publish", rpc' = "idle",
                      topN > 0, \E k \in Keys : read[k] > 0
               PROVE  /\ TopOf(topOffenders', read)
                      /\ \A i, j \in DOMAIN topOffenders' :
                           i < j => topOffenders'[i].delta >= topOffenders'[j].delta
    BY StepsRefine
  <2>1. Publish
    BY DEF OffendersStep, Refresh, rotation, BeginRotate, InsideRotate, Snapshot, Collect,
       EndCollect, RotateTracker, EndShard
  <2> QED
    BY <2>1, PublishTells DEF LifecycleInv
<1> QED
  BY <1>1, LifecycleAlways, PTL DEF LSpec, GaugeTellsRotation

\* A processor that was built has limits and caps that the rest relies on,
\* whatever was configured.
THEOREM LimitsAreUsable == LSpec => []AssumptionsMet
<1>1. LifecycleInv => AssumptionsMet
  <2> SUFFICES ASSUME LifecycleInv, stage = "built"
               PROVE  /\ \A name \in MetricNames : getLimit(cfg, name) \in 1..Word \div 2 - 1
                      /\ {cfg.TopOffendersCount, cfg.MaxTrackerCount, cfg.DropLogMaxPerEpoch} \subseteq Nat
    BY DEF AssumptionsMet
  <2>1. Validate(cfg) /\ cfg \in Configs
    BY DEF LifecycleInv, LTypeOK, Checked
  <2>2. {cfg.TopOffendersCount, cfg.MaxTrackerCount, cfg.DropLogMaxPerEpoch} \subseteq Nat
    BY <2>1, LifecycleAssumption DEF Validate
  <2>3. ASSUME NEW name \in MetricNames
        PROVE  getLimit(cfg, name) \in 1..Word \div 2 - 1
    <3> DEFINE limit == IF name \in DOMAIN cfg.MetricOverrides THEN cfg.MetricOverrides[name]
                        ELSE cfg.MaxCardinalityDeltaPerEpoch
               half == Word \div 2
    <3>1. limit \in Int /\ limit > 0 /\ limit <= half - 1
      <4>1. CASE name \in DOMAIN cfg.MetricOverrides
        <5>1. cfg.MetricOverrides[name] \in -half..half - 1
          BY <2>1, <4>1, LifecycleAssumption
        <5>2. cfg.MetricOverrides[name] > 0
          BY <2>1, <4>1 DEF Validate, ValidOverrides
        <5> QED
          BY <4>1, <5>1, <5>2
      <4>2. CASE name \notin DOMAIN cfg.MetricOverrides
        <5>1. cfg.MaxCardinalityDeltaPerEpoch \in -half..half - 1
          BY <2>1, LifecycleAssumption
        <5>2. cfg.MaxCardinalityDeltaPerEpoch > 0
          BY <2>1 DEF Validate
        <5> QED
          BY <4>2, <5>1, <5>2
      <4> QED
        BY <4>1, <4>2
    <3>2. half \in Nat /\ half <= Word /\ Word \in Nat \ {0}
      BY LifecycleAssumption
    <3> HIDE DEF limit, half
    <3>3. \A y \in Nat : y < Word => y % Word = y
      BY <3>2
    <3>4. limit % Word = limit
      BY <3>1, <3>2, <3>3
    <3> QED
      BY <3>1, <3>2, <3>4 DEF getLimit, limit, half
  <2> QED
    BY <2>2, <2>3
<1> QED
  BY <1>1, LifecycleAlways, PTL

\* NewTicker panics for no epoch that Validate accepts and whose nanoseconds fit.
THEOREM TickerPanicsOnOverflow == LSpec => []TickerStarts
<1>1. LifecycleInv => TickerStarts
  <2> SUFFICES ASSUME LifecycleInv, stage = "crashed"
               PROVE  cfg.EpochDurationSeconds * Second >= Word \div 2
    BY DEF TickerStarts
  <2>1. Validate(cfg) /\ cfg \in Configs /\ TickerInterval(cfg) <= 0
    BY DEF LifecycleInv, LTypeOK, Checked
  <2>2. cfg.EpochDurationSeconds \in Int /\ Second \in Int /\ Word \in Nat \ {0}
    BY <2>1, LifecycleAssumption
  <2>3. TickerInterval(cfg) \in Int
    BY <2>2 DEF TickerInterval
  <2>4. ~(cfg.EpochDurationSeconds * Second < Word \div 2)
    BY <2>1, <2>3, IntervalFits
  <2>5. cfg.EpochDurationSeconds * Second \in Int /\ Word \div 2 \in Int
    BY <2>2
  <2> QED
    BY <2>4, <2>5
<1> QED
  BY <1>1, LifecycleAlways, PTL

\* One goroutine is in rotate(), exactly while an epoch is being turned.
THEOREM OneRotator == LSpec => []SingleRotator
<1>1. LifecycleInv => SingleRotator
  BY DEF LifecycleInv
<1> QED
  BY <1>1, LifecycleAlways, PTL

\* After Shutdown the SDK holds no callback.
THEOREM NothingStaysRegistered == LSpec => []CallbacksReleased
<1>1. LifecycleInv => CallbacksReleased
  BY DEF LifecycleInv, Registrations, CallbacksReleased
<1> QED
  BY <1>1, LifecycleAlways, PTL
=============================================================================
