---------------------------- MODULE Orchestrator ----------------------------
(***************************************************************************)
(* Orchestrator.run (orchestrator.py), for a set of jobs that share one    *)
(* store.  A job is one Orchestrator instance running as an asyncio task   *)
(* of the monitor (or the process of the CLI).  Its coroutine creates the  *)
(* run, starts one task per experiment under a semaphore, gathers them,    *)
(* records every experiment, evaluates the submitted ones out of sample in *)
(* a worker thread, records every evaluation and closes the run.           *)
(*                                                                         *)
(* What happens inside one experiment is ResearchAgent.run; here it makes  *)
(* some model calls and ends submitted or not.  An exception inside the    *)
(* agent is caught and counts as not submitted; one before the agent runs  *)
(* (the workspace, the tool context) ends the job, and as gather does not  *)
(* cancel the others then, they go on without it.                          *)
(***************************************************************************)
EXTENDS ExperimentStore

CONSTANTS
  Jobs,         \* Orchestrator instances
  MaxExp,       \* bound: experiments of any job
  NExp,         \* n_experiments of each job
  MaxParallel,  \* max_parallel: initial value of the semaphore
  MaxCalls      \* bound: model calls per experiment

ASSUME NExpAssumption == MaxExp \in Nat /\ NExp \in [Jobs -> 0 .. MaxExp]
ASSUME MaxParallelAssumption == MaxParallel \in Nat \ {0}
ASSUME MaxCallsAssumption == MaxCalls \in Nat

VARIABLES
  pc,        \* where the coroutine of each job is
  runId,     \* the id create_run returned, 0 before
  exp,       \* status of each experiment task
  calls,     \* model calls each experiment has made (the cost ledger)
  slots,     \* value of the semaphore
  cursor,    \* next experiment of the loop over results or evaluations
  survived,  \* the evaluation report: the surviving experiments
  pbo,       \* the evaluation report: probability of overfitting, or NaN
  journal    \* experiments whose holdout outcome the journal holds

jobVars == <<pc, runId, exp, calls, slots, cursor, survived, pbo, journal>>
expVars == <<exp, calls, slots>>

Exps == 0 .. MaxExp - 1
ExpsOf(j) == 0 .. NExp[j] - 1

\* A job that is "stopped" may have experiments that go on; one that is "dead"
\* went with its process.
Ended == {"done", "stopped", "dead"}
PCs == {"new", "gather", "cancelling", "persist", "evaluate", "report"} \cup Ended

JobInit ==
  /\ pc = [j \in Jobs |-> "new"]
  /\ runId = [j \in Jobs |-> 0]
  /\ exp = [j \in Jobs |-> [e \in Exps |->
                           IF e \in ExpsOf(j) THEN "waiting" ELSE "none"]]
  /\ calls = [j \in Jobs |-> [e \in Exps |-> 0]]
  /\ slots = [j \in Jobs |-> MaxParallel]
  /\ cursor = [j \in Jobs |-> 0]
  /\ survived = [j \in Jobs |-> {}]
  /\ pbo = [j \in Jobs |-> Null]
  /\ journal = [j \in Jobs |-> {}]

\* Experiments are tasks of their own: they run until they are cancelled or the
\* process dies, whether or not the job that gathers them is still there.
Live(j) == pc[j] \notin {"new", "cancelling", "dead"}

Goto(j, label) == pc' = [pc EXCEPT ![j] = label]
Candidates(j) == {e \in ExpsOf(j) : exp[j][e] = "submitted"}
Finished(j, e) == exp[j][e] \in {"submitted", "unsubmitted"}

(***************************************************************************)
(* The run row, then the experiment tasks.                                 *)
(***************************************************************************)
OpensRun(j) ==
  /\ create_run(j)
  /\ runId' = [runId EXCEPT ![j] = NextRunId]

CreateRun(j) ==
  /\ pc[j] = "new"
  /\ OpensRun(j)
  /\ Goto(j, "gather")
  /\ UNCHANGED <<expVars, cursor, survived, pbo, journal>>

\* An exception before gather, from loading the data on: the run may have been
\* created, experiments there are none.
FailsToStart(j) ==
  /\ pc[j] = "new"
  /\ OpensRun(j) \/ UNCHANGED <<storeVars, runId>>
  /\ exp' = [exp EXCEPT ![j] = [e \in Exps |-> "none"]]
  /\ Goto(j, "stopped")
  /\ UNCHANGED <<calls, slots, cursor, survived, pbo, journal>>

\* asyncio.Semaphore wakes its waiters in order, and gather schedules the
\* tasks in order, so experiments start in the order of their ids.
Admitted(j, e) ==
  /\ Live(j)
  /\ exp[j][e] = "waiting"
  /\ \A d \in ExpsOf(j) : d < e => exp[j][d] # "waiting"
  /\ slots[j] > 0

\* Mutant: the semaphore is tested but not taken.
StartsWithoutSlot(j, e) ==
  /\ Admitted(j, e)
  /\ exp' = [exp EXCEPT ![j][e] = "running"]
  /\ UNCHANGED <<storeVars, pc, runId, calls, slots, cursor, survived, pbo, journal>>

StartExperiment(j, e) ==
  /\ Admitted(j, e)
  /\ slots' = [slots EXCEPT ![j] = @ - 1]
  /\ exp' = [exp EXCEPT ![j][e] = "running"]
  /\ UNCHANGED <<storeVars, pc, runId, calls, cursor, survived, pbo, journal>>

\* The workspace or the tool context raises, outside the inner try: async with
\* gives the slot back, and gather raises in the job at once if it still waits.
StartFails(j, e) ==
  /\ Admitted(j, e)
  /\ exp' = [exp EXCEPT ![j][e] = "raised"]
  /\ IF pc[j] = "gather" THEN Goto(j, "stopped") ELSE UNCHANGED pc
  /\ UNCHANGED <<storeVars, runId, calls, slots, cursor, survived, pbo, journal>>

\* on_usage: the ledger, then the usage table, in the event loop; the store may
\* refuse the row.
ModelCall(j, e) ==
  /\ Live(j)
  /\ exp[j][e] = "running"
  /\ calls[j][e] < MaxCalls
  /\ calls' = [calls EXCEPT ![j][e] = @ + 1]
  /\ add_usage(runId[j], j, e, calls[j][e] + 1) \/ UNCHANGED storeVars
  /\ UNCHANGED <<pc, runId, exp, slots, cursor, survived, pbo, journal>>

\* Mutant: a failed experiment leaves without releasing the semaphore.
KeepsSlotOnFailure(j, e, outcome) ==
  /\ Live(j)
  /\ exp[j][e] = "running"
  /\ exp' = [exp EXCEPT ![j][e] = outcome]
  /\ slots' = IF outcome = "submitted" THEN [slots EXCEPT ![j] = @ + 1] ELSE slots
  /\ UNCHANGED <<storeVars, pc, runId, calls, cursor, survived, pbo, journal>>

FinishExperiment(j, e, outcome) ==
  /\ Live(j)
  /\ exp[j][e] = "running"
  /\ exp' = [exp EXCEPT ![j][e] = outcome]
  /\ slots' = [slots EXCEPT ![j] = @ + 1]
  /\ UNCHANGED <<storeVars, pc, runId, calls, cursor, survived, pbo, journal>>

(***************************************************************************)
(* gather, and one add_experiment per result, in the order of the ids.     *)
(***************************************************************************)
AllFinished(j) == \A e \in ExpsOf(j) : Finished(j, e)

Gather(j) ==
  /\ pc[j] = "gather"
  /\ AllFinished(j)
  /\ cursor' = [cursor EXCEPT ![j] = 0]
  /\ Goto(j, "persist")
  /\ UNCHANGED <<storeVars, runId, expVars, survived, pbo, journal>>

AddExperiment(j) ==
  /\ pc[j] = "persist"
  /\ cursor[j] \in ExpsOf(j)
  /\ add_experiment(runId[j], j, cursor[j], exp[j][cursor[j]] = "submitted")
  /\ cursor' = [cursor EXCEPT ![j] = @ + 1]
  /\ UNCHANGED <<pc, runId, expVars, survived, pbo, journal>>

BeginEvaluation(j) ==
  /\ pc[j] = "persist"
  /\ cursor[j] = NExp[j]
  /\ Goto(j, "evaluate")
  /\ UNCHANGED <<storeVars, runId, expVars, cursor, survived, pbo, journal>>

(***************************************************************************)
(* The report of OutOfSampleEvaluator.evaluate: candidates that crash on   *)
(* the holdout do not survive, and PBO needs two that do not crash (and    *)
(* enough steps, so it may be NaN even then).                              *)
(***************************************************************************)
Reports(j) ==
  {report \in [survived : SUBSET Candidates(j), pbo : {Null, Computed}] :
     report.pbo = Computed => Cardinality(Candidates(j)) >= 2}

Evaluate(j) ==
  /\ pc[j] = "evaluate"
  /\ \E report \in Reports(j) :
       /\ survived' = [survived EXCEPT ![j] = report.survived]
       /\ pbo' = [pbo EXCEPT ![j] = report.pbo]
  /\ cursor' = [cursor EXCEPT ![j] = 0]
  /\ Goto(j, "report")
  /\ UNCHANGED <<storeVars, runId, expVars, journal>>

AddEvaluation(j) ==
  /\ pc[j] = "report"
  /\ cursor[j] \in Candidates(j)
  /\ add_evaluation(runId[j], j, cursor[j], cursor[j] \in survived[j])
  /\ journal' = [journal EXCEPT ![j] = @ \cup {cursor[j]}]
  /\ cursor' = [cursor EXCEPT ![j] = @ + 1]
  /\ UNCHANGED <<pc, runId, expVars, survived, pbo>>

\* No evaluation belongs to an experiment that did not submit.
SkipUnsubmitted(j) ==
  /\ pc[j] = "report"
  /\ cursor[j] \in ExpsOf(j) \ Candidates(j)
  /\ cursor' = [cursor EXCEPT ![j] = @ + 1]
  /\ UNCHANGED <<storeVars, pc, runId, expVars, survived, pbo, journal>>

\* Mutant: the run is closed before its evaluations are written.
ClosesEarly(j) ==
  /\ pc[j] = "report"
  /\ update_run(runId[j], j, pbo[j], Cardinality(survived[j]))
  /\ IF cursor[j] = NExp[j] THEN Goto(j, "done") ELSE UNCHANGED pc
  /\ UNCHANGED <<runId, expVars, cursor, survived, pbo, journal>>

CloseRun(j) ==
  /\ pc[j] = "report"
  /\ cursor[j] = NExp[j]
  /\ update_run(runId[j], j, pbo[j], Cardinality(survived[j]))
  /\ Goto(j, "done")
  /\ UNCHANGED <<runId, expVars, cursor, survived, pbo, journal>>

(***************************************************************************)
(* How a job ends early.  Cancellation is delivered at an await; between   *)
(* two awaits only an exception or the death of the process ends the job.  *)
(* None of them touches the store: there is no handler that closes the run.*)
(***************************************************************************)
Cancelled(j) ==
  /\ pc[j] = "evaluate"
  /\ Goto(j, "stopped")
  /\ UNCHANGED <<storeVars, runId, expVars, cursor, survived, pbo, journal>>

\* gather passes a cancellation on to its tasks, and raises when all have ended.
GatherCancelled(j) ==
  /\ pc[j] = "gather"
  /\ Goto(j, "cancelling")
  /\ UNCHANGED <<storeVars, runId, expVars, cursor, survived, pbo, journal>>

\* The CancelledError leaves an experiment through async with: no handler of
\* agent.run catches it.
CancelExperiment(j, e) ==
  /\ pc[j] = "cancelling"
  /\ exp[j][e] \in {"waiting", "running"}
  /\ exp' = [exp EXCEPT ![j][e] = "cancelled"]
  /\ slots' = IF exp[j][e] = "running" THEN [slots EXCEPT ![j] = @ + 1] ELSE slots
  /\ UNCHANGED <<storeVars, pc, runId, calls, cursor, survived, pbo, journal>>

GatherRaises(j) ==
  /\ pc[j] = "cancelling"
  /\ \A e \in ExpsOf(j) : exp[j][e] \notin {"waiting", "running"}
  /\ Goto(j, "stopped")
  /\ UNCHANGED <<storeVars, runId, expVars, cursor, survived, pbo, journal>>

\* sqlite3.OperationalError (database is locked), or the evaluator raising.
Raises(j) ==
  /\ pc[j] \in {"persist", "evaluate", "report"}
  /\ Goto(j, "stopped")
  /\ UNCHANGED <<storeVars, runId, expVars, cursor, survived, pbo, journal>>

\* The process dies, and with it every job and experiment it runs.
Crash ==
  LET hit == {j \in Jobs : pc[j] \notin {"new", "done", "dead"}} IN
  /\ hit # {}
  /\ pc' = [j \in Jobs |-> IF j \in hit THEN "dead" ELSE pc[j]]
  /\ UNCHANGED <<storeVars, runId, expVars, cursor, survived, pbo, journal>>

ExperimentStep(j, e) ==
  \/ StartExperiment(j, e)
  \/ StartFails(j, e)
  \/ CancelExperiment(j, e)
  \/ ModelCall(j, e)
  \/ \E outcome \in {"submitted", "unsubmitted"} : FinishExperiment(j, e, outcome)

CoroutineStep(j) ==
  \/ CreateRun(j)
  \/ Gather(j)
  \/ GatherRaises(j)
  \/ AddExperiment(j)
  \/ BeginEvaluation(j)
  \/ Evaluate(j)
  \/ AddEvaluation(j)
  \/ SkipUnsubmitted(j)
  \/ CloseRun(j)
=============================================================================
