-------------------------- MODULE MCLoginThrottle --------------------------
(* LoginThrottle for TLC.  Attempts, identifiers and addresses are alike,  *)
(* but the run checks liveness, and so declares no symmetry.               *)
EXTENDS LoginThrottle
=============================================================================
