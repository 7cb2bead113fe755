------------------------- MODULE MCReadThroughCache -------------------------
(* Constants for TLC: see the .cfg files of the same prefix.               *)
EXTENDS ReadThroughCache, TLC

CallerSymmetry == Permutations(Callers)
=============================================================================
