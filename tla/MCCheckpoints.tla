----------------------------- MODULE MCCheckpoints ----------------------------
(* Small instances of Checkpoints for TLC.  Its run checks liveness, so that *)
(* the callers are not taken as symmetric.                                   *)
EXTENDS Checkpoints, TLC
=============================================================================
