------------------------------ MODULE Lifecycle ------------------------------
(***************************************************************************)
(* The processor's life: the Collector has the configuration validated,    *)
(* constructs the processor, which registers its callbacks with the        *)
(* metrics SDK, starts it, sends it metrics and shuts it down.  Start      *)
(* launches the goroutine that turns the epoch at every tick until the     *)
(* context is cancelled.                                                   *)
(*                                                                         *)
(* What that goroutine does in rotate() is TopOffenders', step by step, so *)
(* that metrics, ticks, cancellation and shutdown come anywhere in it.     *)
(***************************************************************************)
EXTENDS TopOffenders, Configuration

CONSTANTS
  Configs,      \* what users write, merged with the defaults
  MetricNames,  \* metrics they send
  Second, Word, \* time.Second, and the size of int64 and uint64
  Ids           \* names for goroutines Start may launch

\* The integers of a configuration are Go's, of 64 bits.
ASSUME LifecycleAssumption ==
  /\ Second \in Nat \ {0} /\ Word \in Nat \ {0} /\ IsFiniteSet(Ids)
  /\ LET Int64 == -(Word \div 2)..Word \div 2 - 1
     IN  \A c \in Configs :
           /\ {c.MaxCardinalityDeltaPerEpoch, c.EpochDurationSeconds, c.TopOffendersCount,
               c.MaxTrackerCount, c.DropLogMaxPerEpoch} \subseteq Int64
           /\ \A name \in DOMAIN c.MetricOverrides : c.MetricOverrides[name] \in Int64
           /\ c.EnforcementMode \in Spellings

VARIABLES
  cfg,              \* p.config
  stage,            \* how far the processor has come
  enforcementMode,  \* p.enforcementMode
  registered,       \* callbacks the SDK holds
  registrations,    \* builder.registrations
  cancelled,        \* p.ctx is done
  once,             \* p.startOnce
  goroutine,        \* where each goroutine that Start launched is
  ticked,           \* a tick waits in its ticker's channel
  shut              \* where Shutdown is

host == <<cfg, stage, enforcementMode, registered, registrations, once, shut>>
loop == <<cancelled, goroutine, ticked>>
lvars == <<ovars, host, loop>>

Instruments == <<"trackers_active", "labels_stripped", "savings_estimated",
                 "trackers_rejected", "top_offenders">>

LInit ==
  /\ cfg \in Configs
  /\ OInit /\ topN = cfg.TopOffendersCount
  /\ stage = "config" /\ enforcementMode = ""
  /\ registered = {} /\ registrations = <<>>
  /\ cancelled = FALSE /\ once = FALSE
  /\ goroutine = [g \in Ids |-> "none"] /\ ticked = [g \in Ids |-> FALSE]
  /\ shut = "no"

-----------------------------------------------------------------------------
\* The Collector's calls

ValidateConfig ==
  /\ stage = "config"
  /\ stage' = IF Validate(cfg) THEN "build" ELSE "refused"
  /\ UNCHANGED <<ovars, cfg, enforcementMode, registered, registrations, once, shut, loop>>

\* Any of its instruments may fail.
NewTelemetryBuilder == stage' \in {"register", "failed"}

\* The constructor, up to the callbacks: the mode is resolved, the builder made.
newCardinalityProcessor ==
  /\ stage = "build"
  /\ enforcementMode' = Resolved(cfg.EnforcementMode, cfg.TagOnly)
  /\ NewTelemetryBuilder
  /\ UNCHANGED <<ovars, cfg, registered, registrations, once, shut, loop>>

KeepLast(regs, reg) == <<reg>>
Keep(regs, reg) == Append(regs, reg)

\* TelemetryBuilder.Register...Callback: what the SDK took is kept for Shutdown.
Register(inst) ==
  /\ registered' = registered \union {inst}
  /\ registrations' = Keep(registrations, inst)

\* The Register...Callback calls, one after the other; the first that fails ends
\* the construction.
RegisterCallback ==
  /\ stage = "register"
  /\ LET n == Cardinality(registered) + 1
     IN  \/ /\ Register(Instruments[n])
            /\ stage' = IF n = Len(Instruments) THEN "built" ELSE "register"
         \/ /\ stage' = "failed"
            /\ UNCHANGED <<registered, registrations>>
  /\ UNCHANGED <<ovars, cfg, enforcementMode, once, shut, loop>>

NewGoroutine == CHOOSE g \in Ids : goroutine[g] = "none"
LaunchAlways == goroutine' = [goroutine EXCEPT ![NewGoroutine] = "launched"]
Launch ==
  IF once THEN UNCHANGED goroutine
  ELSE goroutine' = [goroutine EXCEPT ![NewGoroutine] = "launched"]

Start ==
  /\ stage = "built" /\ shut = "no"
  /\ Launch
  /\ once' = TRUE
  /\ UNCHANGED <<ovars, cfg, stage, enforcementMode, registered, registrations, shut,
                 cancelled, ticked>>

\* Shutdown, whether or not Start was called: first the callbacks, then the context.
Unregister ==
  /\ stage = "built" /\ shut = "no"
  /\ registered' = registered \ {registrations[n] : n \in DOMAIN registrations}
  /\ shut' = "unregistered"
  /\ UNCHANGED <<ovars, cfg, stage, enforcementMode, registrations, once, loop>>

Cancel ==
  /\ stage = "built" /\ shut = "unregistered"
  /\ cancelled' = TRUE
  /\ shut' = "done"
  /\ UNCHANGED <<ovars, cfg, stage, enforcementMode, registered, registrations, once,
                 goroutine, ticked>>

\* The context is a child of the one the constructor was called with.
ParentCancelled ==
  /\ stage = "built" /\ ~cancelled
  /\ cancelled' = TRUE
  /\ UNCHANGED <<ovars, host, goroutine, ticked>>

\* The Collector sends metrics between Start and Shutdown.
ConsumeMetrics ==
  /\ stage = "built" /\ once /\ shut = "no"
  /\ \E k \in Keys, n \in Sizes : Refresh(k, n)
  /\ UNCHANGED <<host, loop>>

-----------------------------------------------------------------------------
\* The goroutine

\* The product of two int64.
TickerInterval(c) ==
  ((c.EpochDurationSeconds * Second + Word \div 2) % Word) - Word \div 2

\* NewTicker panics unless the interval is positive, and the process ends.
NewTicker(g) ==
  /\ stage = "built" /\ goroutine[g] = "launched"
  /\ IF TickerInterval(cfg) > 0
     THEN goroutine' = [goroutine EXCEPT ![g] = "select"] /\ UNCHANGED stage
     ELSE stage' = "crashed" /\ UNCHANGED goroutine
  /\ UNCHANGED <<ovars, cfg, enforcementMode, registered, registrations, once, shut,
                 cancelled, ticked>>

\* The channel holds one tick, the others are dropped.
Tick(g) ==
  /\ stage = "built" /\ goroutine[g] \in {"select", "rotating"} /\ ~ticked[g]
  /\ ticked' = [ticked EXCEPT ![g] = TRUE]
  /\ UNCHANGED <<ovars, host, cancelled, goroutine>>

\* Of two cases that are ready select chooses either.
TakeTick(g) ==
  /\ stage = "built" /\ goroutine[g] = "select" /\ ticked[g]
  /\ BeginRotate
  /\ ticked' = [ticked EXCEPT ![g] = FALSE]
  /\ goroutine' = [goroutine EXCEPT ![g] = "rotating"]
  /\ UNCHANGED <<host, cancelled>>

DoneUnlessTicked(g) ==
  /\ stage = "built" /\ goroutine[g] = "select" /\ cancelled /\ ~ticked[g]
  /\ goroutine' = [goroutine EXCEPT ![g] = "exited"]
  /\ UNCHANGED <<ovars, host, cancelled, ticked>>
Done(g) ==
  /\ stage = "built" /\ goroutine[g] = "select" /\ cancelled
  /\ goroutine' = [goroutine EXCEPT ![g] = "exited"]
  /\ UNCHANGED <<ovars, host, cancelled, ticked>>

\* Nothing inside rotate() looks at the context.
RotateStep(g) ==
  /\ stage = "built" /\ goroutine[g] = "rotating"
  /\ InsideRotate
  /\ UNCHANGED <<host, loop>>

Returned(g) == [goroutine EXCEPT ![g] = "exited"]
NextSelect(g) == [goroutine EXCEPT ![g] = "select"]

RotateReturns(g) ==
  /\ stage = "built" /\ goroutine[g] = "rotating"
  /\ Publish
  /\ goroutine' = NextSelect(g)
  /\ UNCHANGED <<host, cancelled, ticked>>

-----------------------------------------------------------------------------
GoroutineStep(g) ==
  NewTicker(g) \/ Tick(g) \/ TakeTick(g) \/ Done(g) \/ RotateStep(g) \/ RotateReturns(g)

LNext ==
  \/ ValidateConfig \/ newCardinalityProcessor \/ RegisterCallback
  \/ Start \/ Unregister \/ Cancel \/ ParentCancelled \/ ConsumeMetrics
  \/ \E g \in Ids : GoroutineStep(g)

\* A goroutine that can run does, and time passes.  A select that always finds
\* both cases ready does not choose the same one for ever.
LFairness ==
  \A g \in Ids :
    /\ WF_lvars(NewTicker(g)) /\ WF_lvars(Tick(g)) /\ WF_lvars(TakeTick(g))
    /\ WF_lvars(RotateStep(g)) /\ WF_lvars(RotateReturns(g))
    /\ SF_lvars(Done(g))

LSpec == LInit /\ [][LNext]_lvars /\ LFairness

-----------------------------------------------------------------------------
\* Every variable keeps to its type; the mode is one that the switch over it has
\* a case for, whatever the spelling that was accepted.
LTypeOK ==
  /\ cfg \in Configs /\ topN = cfg.TopOffendersCount
  /\ stage \in {"config", "refused", "build", "failed", "register", "built", "crashed"}
  /\ stage \notin {"config", "refused", "build"} => enforcementMode \in Modes
  /\ registered \subseteq {Instruments[n] : n \in DOMAIN Instruments}
  /\ {cancelled, once} \subseteq BOOLEAN 
  /\ goroutine \in [Ids -> {"none", "launched", "select", "rotating", "exited"}]
  /\ ticked \in [Ids -> BOOLEAN]
  /\ shut \in {"no", "unregistered", "done"}
  /\ live \subseteq Keys /\ entries \subseteq live /\ todo \subseteq entries
  /\ rshard \in Shards
  /\ rpc \in {"idle", "snapshot", "collect", "rotate", "publish"}

\* getLimit, which converts what it finds to uint64.
getLimit(c, metricName) ==
  (IF metricName \in DOMAIN c.MetricOverrides THEN c.MetricOverrides[metricName]
   ELSE c.MaxCardinalityDeltaPerEpoch) % Word

\* Whatever the user writes, a processor that was built has the limits and caps
\* that the code after Validate relies on without another look: a limit that was
\* not positive would, as a uint64, be 0 or so large that nothing is cut.
AssumptionsMet ==
  stage = "built" =>
    /\ \A name \in MetricNames : getLimit(cfg, name) \in 1..Word \div 2 - 1
    /\ {cfg.TopOffendersCount, cfg.MaxTrackerCount, cfg.DropLogMaxPerEpoch} \subseteq Nat

\* Validate keeps NewTicker from panicking, but for an epoch so long that its
\* nanoseconds do not fit an int64.
TickerStarts ==
  stage = "crashed" => cfg.EpochDurationSeconds * Second >= Word \div 2

\* However often Start is called there is one goroutine in rotate(), as the reset
\* of the counters and the eviction take for granted, and it is in rotate()
\* exactly when an epoch is being turned.
SingleRotator ==
  /\ \A g, h \in Ids : goroutine[g] # "none" /\ goroutine[h] # "none" => g = h
  /\ rpc # "idle" <=> \E g \in Ids : goroutine[g] = "rotating"

\* After Shutdown the SDK holds no callback, through which it would keep the
\* processor alive and go on observing it.
CallbacksReleased == shut = "done" => registered = {}

\* Once the context is done the goroutine ends, after the rotation it is in and
\* any ticks that select prefers to the end.
GoroutineExits ==
  \A g \in Ids :
    cancelled /\ goroutine[g] # "none" ~> goroutine[g] = "exited" \/ stage = "crashed"

\* After Start epochs are turned again and again until the context is done.
RotationsGoOn == once ~> rpc = "publish" \/ cancelled \/ stage = "crashed"
=============================================================================
