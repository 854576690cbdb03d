--------------------------- MODULE MCEnforcement ---------------------------
(***************************************************************************)
(* Enforcement for TLC: two goroutines, two labels that may be dropped and *)
(* one that may not, and one drop logged per epoch; a mode that is set, in *)
(* capitals or not, or misspelt, or not set.                               *)
(***************************************************************************)
EXTENDS Enforcement, TLC

CONSTANTS t1, t2, a, b, p

MCToLower == [s \in Spellings |->
  CASE s = "Strip_And_Reaggregate" -> "strip_and_reaggregate" [] OTHER -> s]

Symmetry == Permutations({t1, t2}) \union Permutations({a, b})
=============================================================================
