---------------------------- MODULE MCEvaluation ----------------------------
(* Small instances of Evaluation.                                          *)
EXTENDS Evaluation
=============================================================================
