--------------------------- MODULE TrackerHistory ---------------------------
(***************************************************************************)
(* Tracker with a memory the code does not have: every value the label     *)
(* showed in an epoch that has ended.                                      *)
(***************************************************************************)
EXTENDS Tracker

VARIABLE known

hvars == <<vars, known>>

HInit == Init /\ known = {}

HNext ==
  \/ RotateEpoch /\ known' = known \union State.current
  \/ (\E v \in Values : ShouldDrop(v)) /\ UNCHANGED known

HSpec == HInit /\ [][HNext]_hvars

ExactEstimate(S) == Cardinality(S)

\* FAQ.md: "A label with 100,000 stable values will never be touched".  A label
\* that shows only values it had shown before is not cut.
StableNeverCut == answer = "drop" => ~(State.current \subseteq known)
=============================================================================
