--------------------------- MODULE ResearchService ---------------------------
(***************************************************************************)
(* The research side of the monitor: any number of orchestrator jobs and   *)
(* the dashboard's curation endpoints on one experiment store.  The        *)
(* endpoints are plain functions, so they run in the server's thread pool  *)
(* and their store operations fall between any two operations of a job.    *)
(***************************************************************************)
EXTENDS Orchestrator

\* Observations of what a user did; no operation reads them.
VARIABLES
  pruned,  \* <<run, exp>> of the evaluations deleted one by one
  stale    \* runs whose number of survivors a curation left behind

observed == <<pruned, stale>>
vars == <<storeVars, jobVars, observed>>

Init ==
  /\ StoreInit
  /\ JobInit
  /\ pruned = {}
  /\ stale = {}

(***************************************************************************)
(* DELETE /api/runs/{id}, DELETE and PATCH /api/factors/{id}.  An id that  *)
(* is gone by the time the handler runs is answered 404, nothing changes.  *)
(* An evaluation whose run is gone can still be deleted and patched: the   *)
(* patch is committed, and then answered 404, as the joined row is gone.   *)
(***************************************************************************)
api_delete_run(r) ==
  /\ delete_run(r)
  /\ UNCHANGED <<jobVars, observed>>

api_delete_factor(ev) ==
  /\ delete_evaluation(ev)
  /\ pruned' = pruned \cup {<<ev.run, ev.exp>>}
  /\ stale' = stale \cup {ev.run}
  /\ UNCHANGED jobVars

api_patch_factor(ev, mark) ==
  /\ set_survived(ev, mark)
  /\ stale' = IF pc[ev.by] = "done" THEN stale \ {ev.run} ELSE stale \cup {ev.run}
  /\ UNCHANGED <<jobVars, pruned>>

Curation ==
  \/ \E r \in RowIds : api_delete_run(r)
  \/ \E ev \in evaluations :
       \/ api_delete_factor(ev)
       \/ \E mark \in BOOLEAN : api_patch_factor(ev, mark)

JobStep(j) == CoroutineStep(j) \/ \E e \in ExpsOf(j) : ExperimentStep(j, e)

JobEnd ==
  \/ Crash
  \/ \E j \in Jobs : Cancelled(j) \/ GatherCancelled(j) \/ Raises(j)

Next ==
  \/ (\E j \in Jobs : JobStep(j) \/ FailsToStart(j)) /\ UNCHANGED observed
  \/ JobEnd /\ UNCHANGED observed
  \/ Curation

Spec == Init /\ [][Next]_vars

(***************************************************************************)
(* Fairness.  The event loop runs every ready task, a semaphore waiter is  *)
(* woken when a slot is released, a model call and a sandbox run end by    *)
(* their timeouts and an agent loop by max_steps.  Nothing obliges a user  *)
(* to act, a job to be cancelled or the process to die.                    *)
(***************************************************************************)
CoroutineRuns(j) == CoroutineStep(j) /\ UNCHANGED observed
StartRuns(j, e) == StartExperiment(j, e) /\ UNCHANGED observed
CancelRuns(j, e) == CancelExperiment(j, e) /\ UNCHANGED observed
FinishRuns(j, e) ==
  /\ \E outcome \in {"submitted", "unsubmitted"} : FinishExperiment(j, e, outcome)
  /\ UNCHANGED observed

Fairness ==
  \A j \in Jobs :
    /\ WF_vars(CoroutineRuns(j))
    /\ \A e \in ExpsOf(j) : /\ WF_vars(StartRuns(j, e))
                            /\ WF_vars(FinishRuns(j, e))
                            /\ WF_vars(CancelRuns(j, e))

FairSpec == Spec /\ Fairness

-----------------------------------------------------------------------------
(***************************************************************************)
(* Types.                                                                  *)
(***************************************************************************)
RunRow == [id : Nat, by : Jobs, pbo : {Null, Computed}, nSurvivors : Nat]
ExperimentRow == [run : Nat, by : Jobs, exp : Exps, submitted : BOOLEAN]
EvaluationRow == [run : Nat, by : Jobs, exp : Exps, survived : BOOLEAN]
UsageRow == [run : Nat, by : Jobs, exp : Exps, call : 1 .. MaxCalls]

StoreTypeOK ==
  /\ runs \subseteq RunRow
  /\ experiments \subseteq ExperimentRow
  /\ evaluations \subseteq EvaluationRow
  /\ usage \subseteq UsageRow
  /\ lastRunId \in Nat

ExpStatus ==
  {"none", "waiting", "running", "submitted", "unsubmitted", "raised", "cancelled"}

JobTypeOK ==
  /\ pc \in [Jobs -> PCs]
  /\ runId \in [Jobs -> Nat]
  /\ exp \in [Jobs -> [Exps -> ExpStatus]]
  /\ calls \in [Jobs -> [Exps -> 0 .. MaxCalls]]
  /\ slots \in [Jobs -> 0 .. MaxParallel]
  /\ cursor \in [Jobs -> 0 .. MaxExp]
  /\ survived \in [Jobs -> SUBSET Exps]
  /\ pbo \in [Jobs -> {Null, Computed}]
  /\ journal \in [Jobs -> SUBSET Exps]

\* Type invariant: every table and every job field holds what its column or
\* field declares; the semaphore never exceeds its initial value and the
\* cursor never runs past the experiments.
TypeOK ==
  /\ StoreTypeOK
  /\ JobTypeOK
  /\ pruned \subseteq Nat \X Exps
  /\ stale \subseteq Nat

-----------------------------------------------------------------------------
(***************************************************************************)
(* Safety.                                                                 *)
(***************************************************************************)

Running(j) == {e \in Exps : exp[j][e] = "running"}

\* The semaphore's value and the open sessions always add up to
\* max_parallel, so no more than max_parallel sessions are ever open, and a
\* session that fails gives its slot back.
SlotsAccounted ==
  \A j \in Jobs : slots[j] + Cardinality(Running(j)) = MaxParallel

\* Whatever runs are deleted while jobs go on writing to them, an evaluation
\* the leaderboard shows joins exactly one experiment row, of a submitted
\* experiment, written by the job that wrote the evaluation and opened the
\* run: the code a reader sees is the code that was evaluated.
BoardHasProvenance ==
  \A ev \in leaderboard :
    /\ \E row \in runs : row.id = ev.run /\ row.by = ev.by
    /\ \E x \in JoinedExperiments(ev) :
         /\ JoinedExperiments(ev) = {x}
         /\ x.submitted
         /\ x.by = ev.by

\* A run shown as completed is whole: a row for each of its experiments and,
\* but for those a user deleted, an evaluation for each submitted one.
CompletedRunIsWhole ==
  \A row \in runs :
    run_status(row) = "completed" =>
      \A e \in ExpsOf(row.by) :
        \E x \in experiments :
          /\ x.run = row.id /\ x.exp = e
          /\ x.submitted /\ <<row.id, e>> \notin pruned =>
               \E ev \in evaluations : ev.run = row.id /\ ev.exp = e

\* The headline number: n_survivors of a closed run counts the evaluations
\* marked as survived.  Two curations leave it behind: a patch that update_run
\* overwrites, and a deletion, which never recounts.  Whatever was done before,
\* any patch of the closed run makes it right again.
SurvivorCountHolds ==
  \A row \in runs :
    pc[row.by] = "done" /\ row.id \notin stale =>
      row.nSurvivors = Cardinality(SurvivedOf(evaluations, row.id))

(***************************************************************************)
(* The abstract specification.  A deleted run is an id that was handed out *)
(* and has no row; a result is spent once the job journaled it.            *)
(***************************************************************************)
Shown(r) ==
  IF r \notin RowIds THEN "deleted"
  ELSE run_status(CHOOSE row \in runs : row.id = r)

Lifecycle == INSTANCE RunLifecycle WITH
  Results <- Exps,
  opened <- lastRunId,
  status <- [r \in 1 .. lastRunId |-> Shown(r)],
  board <- {<<ev.run, ev.exp>> : ev \in leaderboard},
  spent <- UNION {{<<runId[j], e>> : e \in journal[j]} : j \in Jobs}

\* Tables, jobs, curation, cancellation and crashes implement RunLifecycle:
\* in particular a run deleted while its job runs is never resurrected by
\* update_run, and no result comes back once it was taken off the board.
ImplementsLifecycle == Lifecycle!Spec

(***************************************************************************)
(* Liveness.                                                               *)
(***************************************************************************)

\* A job that opened its run ends: every experiment gets a slot, gather
\* returns, and the loops over results and evaluations come to an end.
JobsEnd == \A j \in Jobs : pc[j] # "new" ~> pc[j] \in Ended

=============================================================================
