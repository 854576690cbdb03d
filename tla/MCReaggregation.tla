--------------------------- MODULE MCReaggregation ---------------------------
(***************************************************************************)
(* Reaggregation for TLC: up to three points; one key whose integer and    *)
(* string value read the same, and the point it was stripped from; two     *)
(* timestamps; a start or none; two-bit integers, so that 1 + 1 wraps.     *)
(***************************************************************************)
EXTENDS ProcessMetric

CONSTANTS key, intOne, stringOne

MCAttributes == {[k \in {} |-> intOne], [k \in {key} |-> intOne], [k \in {key} |-> stringOne]}

MCText == [v \in {intOne, stringOne, True, Sentinel} |->
             IF v \in {intOne, stringOne} THEN "1" ELSE "other"]

MCToLower == [s \in Spellings |-> s]

MCNumbers == {[kind |-> "int", val |-> 1], [kind |-> "double", val |-> 1],
              [kind |-> "empty", val |-> 0]}
=============================================================================
