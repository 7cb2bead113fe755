-------------------------- MODULE MCResilientClient --------------------------
(* Constants for TLC: see the .cfg files of the same prefix.               *)
EXTENDS ResilientClient, TLC

CONSTANTS k1, k2, c1, c2, c3, c4

OneClient      == [c \in Callers |-> k1]
(* c4 calls MIS at its default pace, the others another client of its host. *)
MisApart       == [c \in Callers |-> IF c = c4 THEN k2 ELSE k1]
CallerSymmetry == Permutations(Callers \ {c4})
=============================================================================
