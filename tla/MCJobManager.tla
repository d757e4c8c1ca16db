---------------------------- MODULE MCJobManager ----------------------------
(* Small instances of JobManager.                                          *)
EXTENDS JobManager, TLC

CONSTANTS a, r, x

OneRecorder == a :> x
=============================================================================
