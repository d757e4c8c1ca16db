------------------------- MODULE ExperimentSession -------------------------
(***************************************************************************)
(* What the orchestrator relies on when it runs one experiment: it makes   *)
(* at most Limit model calls, one after the other, it ends, and it ends    *)
(* once, submitted or not.  ModelCall and FinishExperiment of Orchestrator *)
(* are the two actions below; AgentSession is shown to implement them.     *)
(***************************************************************************)
EXTENDS Naturals

CONSTANT Limit  \* max_steps

VARIABLES
  status,  \* "running", then "submitted" or "unsubmitted"
  spent    \* model calls made

taskVars == <<status, spent>>

TaskInit == status = "running" /\ spent = 0

Call ==
  /\ status = "running"
  /\ spent < Limit
  /\ spent' = spent + 1
  /\ UNCHANGED status

End(outcome) ==
  /\ status = "running"
  /\ status' = outcome
  /\ UNCHANGED spent

Ends == \E outcome \in {"submitted", "unsubmitted"} : End(outcome)

TaskNext == Call \/ Ends

TaskSafety == TaskInit /\ [][TaskNext]_taskVars

TaskSpec == TaskSafety /\ <>(status # "running")
=============================================================================
