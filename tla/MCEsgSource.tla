---------------------------- MODULE MCEsgSource ----------------------------
(***************************************************************************)
(* Instances of EsgSource for TLC.                                         *)
(***************************************************************************)
EXTENDS EsgSource, TLC
=============================================================================
