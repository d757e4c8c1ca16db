-------------------------- MODULE ExperimentStore --------------------------
(***************************************************************************)
(* The SQLite experiment store (obs/store.py): four tables and the         *)
(* operations the orchestrator and the dashboard run on them.  A table is  *)
(* a set of rows; every operation opens its own connection and commits, so *)
(* an operation is one atomic step and two operations may interleave in    *)
(* any order.  FOREIGN KEY clauses are declared but SQLite does not        *)
(* enforce them (the code never issues PRAGMA foreign_keys), so no         *)
(* operation below checks that the run it refers to exists.                *)
(*                                                                         *)
(* The field "by" of a row is an observation, not a column: the job whose  *)
(* orchestrator inserted the row.                                          *)
(***************************************************************************)
EXTENDS Integers, FiniteSets

VARIABLES
  runs,         \* rows [id, by, pbo, nSurvivors]
  experiments,  \* rows [run, by, exp, submitted]
  evaluations,  \* rows [run, by, exp, survived]
  usage,        \* rows [run, by, exp, call]
  lastRunId     \* sqlite_sequence entry of runs: the last id handed out

storeVars == <<runs, experiments, evaluations, usage, lastRunId>>

Null == "null"        \* pbo IS NULL
Computed == "number"  \* pbo holds a number

StoreInit ==
  /\ runs = {}
  /\ experiments = {}
  /\ evaluations = {}
  /\ usage = {}
  /\ lastRunId = 0

(***************************************************************************)
(* Reading.                                                                *)
(***************************************************************************)
RowIds == {row.id : row \in runs}

run_status(row) == IF row.pbo = Null THEN "running" ELSE "completed"

\* evaluations JOIN runs: the rows the leaderboard and the factor list show.
leaderboard == {ev \in evaluations : ev.run \in RowIds}

survivors == {ev \in leaderboard : ev.survived}

\* The LEFT JOIN partners of an evaluation in the experiments table.
JoinedExperiments(ev) ==
  {x \in experiments : x.run = ev.run /\ x.exp = ev.exp}

SurvivedOf(table, r) == {ev \in table : ev.run = r /\ ev.survived}

(***************************************************************************)
(* Writing, orchestrator side.                                             *)
(***************************************************************************)

\* Mutant: a rowid without AUTOINCREMENT, the largest live id plus one.
ReusedRowId ==
  IF runs = {} THEN 1
  ELSE 1 + CHOOSE i \in RowIds : \A k \in RowIds : k <= i

NextRunId == lastRunId + 1

create_run(job) ==
  /\ lastRunId' = NextRunId
  /\ runs' = runs \cup
       {[id |-> NextRunId, by |-> job, pbo |-> Null, nSurvivors |-> 0]}
  /\ UNCHANGED <<experiments, evaluations, usage>>

\* Mutant: INSERT OR REPLACE, which brings a deleted run back.
UpsertRun(r, job, pbo, n) ==
  /\ runs' = {row \in runs : row.id # r} \cup
               {[id |-> r, by |-> job, pbo |-> pbo, nSurvivors |-> n]}
  /\ UNCHANGED <<experiments, evaluations, usage, lastRunId>>

\* UPDATE ... WHERE id = ?: changes nothing when the row is gone.
update_run(r, job, pbo, n) ==
  /\ runs' = {IF row.id = r
                THEN [row EXCEPT !.pbo = pbo, !.nSurvivors = n]
                ELSE row : row \in runs}
  /\ UNCHANGED <<experiments, evaluations, usage, lastRunId>>

add_experiment(r, job, e, submitted) ==
  /\ experiments' = experiments \cup
       {[run |-> r, by |-> job, exp |-> e, submitted |-> submitted]}
  /\ UNCHANGED <<runs, evaluations, usage, lastRunId>>

add_evaluation(r, job, e, kept) ==
  /\ evaluations' = evaluations \cup
       {[run |-> r, by |-> job, exp |-> e, survived |-> kept]}
  /\ UNCHANGED <<runs, experiments, usage, lastRunId>>

add_usage(r, job, e, call) ==
  /\ usage' = usage \cup
       {[run |-> r, by |-> job, exp |-> e, call |-> call]}
  /\ UNCHANGED <<runs, experiments, evaluations, lastRunId>>

(***************************************************************************)
(* Writing, dashboard side (curation by hand).                             *)
(***************************************************************************)

Without(table, r) == {row \in table : row.run # r}

delete_run(r) ==
  /\ r \in RowIds
  /\ runs' = {row \in runs : row.id # r}
  /\ experiments' = Without(experiments, r)
  /\ evaluations' = Without(evaluations, r)
  /\ usage' = Without(usage, r)
  /\ UNCHANGED lastRunId

delete_evaluation(ev) ==
  /\ ev \in evaluations
  /\ evaluations' = evaluations \ {ev}
  /\ UNCHANGED <<runs, experiments, usage, lastRunId>>

\* Mutant: the counters are read before the flag is written.
CountsBeforeFlag(ev, mark) ==
  /\ ev \in evaluations
  /\ evaluations' = (evaluations \ {ev}) \cup {[ev EXCEPT !.survived = mark]}
  /\ runs' = {IF row.id = ev.run
                THEN [row EXCEPT !.nSurvivors =
                        Cardinality(SurvivedOf(evaluations, ev.run))]
                ELSE row : row \in runs}
  /\ UNCHANGED <<experiments, usage, lastRunId>>

\* One transaction: the flag, then both counters recomputed from the table.
set_survived(ev, mark) ==
  /\ ev \in evaluations
  /\ evaluations' = (evaluations \ {ev}) \cup {[ev EXCEPT !.survived = mark]}
  /\ runs' = {IF row.id = ev.run
                THEN [row EXCEPT !.nSurvivors =
                        Cardinality(SurvivedOf(evaluations', ev.run))]
                ELSE row : row \in runs}
  /\ UNCHANGED <<experiments, usage, lastRunId>>
=============================================================================
