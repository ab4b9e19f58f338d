------------------------------- MODULE MCHLApp -------------------------------
(***************************************************************************)
(* An instance of HLApp for TLC: one stored network, which comes and goes, *)
(* so that the count of the last tick may be more or less than there is.   *)
(***************************************************************************)
EXTENDS HLApp

OneNetwork == 1
=============================================================================
