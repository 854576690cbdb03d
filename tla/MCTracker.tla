------------------------------ MODULE MCTracker ------------------------------
(***************************************************************************)
(* Tracker for TLC: a sketch over a few values, exact or slightly wrong,   *)
(* and an interval small enough that an epoch enters phase 2 and is        *)
(* refreshed in it.                                                        *)
(***************************************************************************)
EXTENDS Tracker

CONSTANTS Twice, Hidden   \* two of Values

ExactEstimate(S) == Cardinality(S)

\* Twice is counted for two, until Hidden comes: it is not counted, and brings the
\* estimate down.
RoughEstimate(S) ==
  IF Hidden \in S THEN Cardinality(S) - 1
  ELSE IF Twice \in S THEN Cardinality(S) + 1 ELSE Cardinality(S)
=============================================================================
