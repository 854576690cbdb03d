----------------------------- MODULE LimiterMap -----------------------------
(***************************************************************************)
(* What the registry promises about all (metric, label) pairs, without     *)
(* maps, pointers, shards and locks: each pair has a growth limiter of its *)
(* own, an insert is counted by one limiter at once, and a limiter's epoch *)
(* ends at a moment of its own.  A pair may be forgotten when two of its   *)
(* epochs in a row have ended without a value, and its baseline is 0 then. *)
(***************************************************************************)
EXTENDS TrackerOps

CONSTANT Keys

VARIABLES
  seen,    \* the values of each pair's running epoch
  base,    \* the closing estimate of its epoch before
  quiet    \* how many epochs in a row have ended without a value

mvars == <<seen, base, quiet>>

MInit ==
  /\ seen = [k \in Keys |-> {}]
  /\ base = [k \in Keys |-> 0]
  /\ quiet = [k \in Keys |-> 0]

Observe(k, v) ==
  /\ seen' = [seen EXCEPT ![k] = @ \union {v}]
  /\ UNCHANGED <<base, quiet>>

Roll(k) ==
  /\ \E number \in {Estimate(S) : S \in SUBSET seen[k]} :
       /\ Estimates(number, seen[k], EstimateInterval - 1)
       /\ base' = [base EXCEPT ![k] = number]
  /\ quiet' = [quiet EXCEPT ![k] = IF seen[k] = {} THEN @ + 1 ELSE 0]
  /\ seen' = [seen EXCEPT ![k] = {}]

\* Values that came after the last of the idle epochs are forgotten too.
Forget(k) ==
  /\ quiet[k] >= StaleSweepEpochs /\ base[k] = 0
  /\ seen' = [seen EXCEPT ![k] = {}]
  /\ quiet' = [quiet EXCEPT ![k] = 0]
  /\ UNCHANGED base

MNext == \E k \in Keys : Roll(k) \/ Forget(k) \/ \E v \in Values : Observe(k, v)

MSpec == MInit /\ [][MNext]_mvars
=============================================================================
