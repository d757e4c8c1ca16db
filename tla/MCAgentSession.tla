--------------------------- MODULE MCAgentSession ---------------------------
(* Small instances of AgentSession.  Files are interchangeable, but the    *)
(* runs check liveness, so they declare no symmetry.                       *)
EXTENDS AgentSession
=============================================================================
