-------------------------- MODULE MCContextWindow --------------------------
(* Small instances of ContextWindow.                                       *)
EXTENDS ContextWindow

OneOrThree == {1, 3}
=============================================================================
