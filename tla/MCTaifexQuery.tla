--------------------------- MODULE MCTaifexQuery ---------------------------
(***************************************************************************)
(* Instances of TaifexQuery for TLC.                                       *)
(***************************************************************************)
EXTENDS TaifexQuery, TLC

CONSTANTS c1, c2

Symmetry == Permutations(Callers)
=============================================================================
