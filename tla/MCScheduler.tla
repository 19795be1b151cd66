---------------------------- MODULE MCScheduler ----------------------------
(***************************************************************************)
(* Model values for Scheduler.                                             *)
(***************************************************************************)
EXTENDS Scheduler, TLC

CONSTANTS s1, h1, h2

RequestSymmetry == Permutations(Requests)
=============================================================================
