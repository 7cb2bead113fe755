-------------------------- MODULE MCIntradayEngine --------------------------
(***************************************************************************)
(* Instances of IntradayEngine for TLC.                                    *)
(***************************************************************************)
EXTENDS IntradayEngine, TLC
=============================================================================
