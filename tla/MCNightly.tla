----------------------------- MODULE MCNightly -----------------------------
(***************************************************************************)
(* Instances of Nightly for TLC.                                           *)
(***************************************************************************)
EXTENDS Nightly, TLC
=============================================================================
