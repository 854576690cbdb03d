----------------------------- MODULE MCRegistry -----------------------------
(***************************************************************************)
(* Registry for TLC.  One value per label is enough, as what a tracker     *)
(* counts is checked in Tracker: here it matters whether it was inserted   *)
(* into.  Two pairs of keys share a shard each.                            *)
(***************************************************************************)
EXTENDS Registry, TLC

CONSTANTS k1, k2, k3, k4, t1, t2

ExactEstimate(S) == Cardinality(S)

TwoShards == k1 :> 0 @@ k2 :> 0 @@ k3 :> 1 @@ k4 :> 1

KeyPerShard == k1 :> 0 @@ k3 :> 1

Symmetry ==
  Permutations(TrackerIds) \union Permutations({t1, t2})
    \union Permutations({k1, k2}) \union Permutations({k3, k4})
=============================================================================
