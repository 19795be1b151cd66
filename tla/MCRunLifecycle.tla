--------------------------- MODULE MCRunLifecycle ---------------------------
(***************************************************************************)
(* Small instances of RunLifecycle for TLC.                                *)
(***************************************************************************)
EXTENDS RunLifecycle, TLC

\* Workers are interchangeable; used by the runs without liveness.
WorkerSymmetry == Permutations(Workers)
=============================================================================
