----------------------- MODULE ResearchService_proofs -----------------------
(***************************************************************************)
(* Theorems about ResearchService, for any number of jobs, experiments and *)
(* semaphore slots.                                                        *)
(***************************************************************************)
EXTENDS ResearchService, FiniteSetTheorems, FunctionTheorems, TLAPS

(***************************************************************************)
(* Finite sets the counters range over.                                    *)
(***************************************************************************)
LEMMA ExpsFinite == IsFiniteSet(Exps)
<1>1. MaxExp - 1 \in Int /\ 0 \in Int
  BY NExpAssumption
<1>2. QED
  BY <1>1, FS_Interval DEF Exps

LEMMA RunningFinite ==
  ASSUME NEW j \in Jobs
  PROVE  /\ IsFiniteSet(Running(j))
         /\ Cardinality(Running(j)) \in Nat
<1>1. Running(j) \subseteq Exps
  BY DEF Running
<1>2. QED
  BY <1>1, ExpsFinite, FS_Subset, FS_CardinalityType

LEMMA ExpsOfSubset ==
  ASSUME NEW j \in Jobs
  PROVE  /\ NExp[j] \in 0 .. MaxExp
         /\ ExpsOf(j) \subseteq Exps
BY NExpAssumption DEF ExpsOf, Exps

(***************************************************************************)
(* Type correctness, with the slot accounting it needs: a released slot    *)
(* stays within MaxParallel because the session that holds it is running.  *)
(***************************************************************************)
Idle(j) == \A e \in Exps : exp[j][e] \in {"none", "waiting"}

TInv ==
  /\ TypeOK
  /\ SlotsAccounted
  /\ IsFiniteSet(evaluations)
  /\ \A j \in Jobs : pc[j] = "new" => Idle(j)

\* What a step must re-establish of the accounting when it changes neither
\* the experiments nor the semaphores, and when it changes one experiment.
LEMMA SlotsUntouched ==
  ASSUME SlotsAccounted, UNCHANGED <<exp, slots>>
  PROVE  SlotsAccounted' /\ \A j \in Jobs : Running(j)' = Running(j)
BY DEF SlotsAccounted, Running

LEMMA RunningMoves ==
  ASSUME TypeOK, NEW j \in Jobs, NEW e \in Exps, NEW s, exp' = [exp EXCEPT ![j][e] = s]
  PROVE  /\ Running(j)' = IF s = "running" THEN Running(j) \cup {e} ELSE Running(j) \ {e}
         /\ \A k \in Jobs : k # j => Running(k)' = Running(k)
BY DEF Running, TypeOK, JobTypeOK

(***************************************************************************)
(* What the steps that are alike leave alone.                              *)
(***************************************************************************)
NoJobRow == UNCHANGED <<runs, lastRunId, experiments, evaluations>>

LEMMA JobEndMoves ==
  ASSUME TypeOK, JobEnd
  PROVE  /\ UNCHANGED <<storeVars, runId, expVars, cursor, survived, pbo, journal>>
         /\ pc' \in [Jobs -> PCs]
         /\ \A k \in Jobs :
              \/ pc'[k] = pc[k]
              \/ pc[k] \notin {"new", "done", "dead"} /\ pc'[k] = "dead"
              \/ pc[k] \in {"persist", "evaluate", "report"} /\ pc'[k] = "stopped"
              \/ pc[k] = "gather" /\ pc'[k] = "cancelling"
<1> USE DEF TypeOK, JobTypeOK, PCs, Ended, Goto
<1>1. CASE Crash
  BY <1>1 DEF Crash
<1>2. CASE \E j \in Jobs : Cancelled(j) \/ GatherCancelled(j) \/ Raises(j)
  BY <1>2 DEF Cancelled, GatherCancelled, Raises
<1>3. QED
  BY <1>1, <1>2 DEF JobEnd

LEMMA ExperimentMoves ==
  ASSUME TypeOK, NEW j \in Jobs, NEW e \in ExpsOf(j), ExperimentStep(j, e)
  PROVE  /\ NoJobRow
         /\ UNCHANGED <<runId, cursor, survived, pbo, journal>>
         /\ pc[j] # "new"
         /\ pc' = pc \/ (pc[j] = "gather" /\ pc' = [pc EXCEPT ![j] = "stopped"])
         /\ \/ exp' = exp
            \/ /\ exp[j][e] \in {"waiting", "running"}
               /\ \E s \in ExpStatus : exp' = [exp EXCEPT ![j][e] = s]
<1> USE DEF storeVars, NoJobRow, Goto, Live, Admitted, ExpStatus
<1>1. CASE StartExperiment(j, e)
  BY <1>1 DEF StartExperiment
<1>2. CASE StartFails(j, e)
  BY <1>2 DEF StartFails
<1>3. CASE CancelExperiment(j, e)
  BY <1>3 DEF CancelExperiment
<1>4. CASE ModelCall(j, e)
  BY <1>4 DEF ModelCall, add_usage
<1>5. CASE \E outcome \in {"submitted", "unsubmitted"} : FinishExperiment(j, e, outcome)
  BY <1>5 DEF FinishExperiment
<1>6. QED
  BY <1>1, <1>2, <1>3, <1>4, <1>5 DEF ExperimentStep

\* A job that starts, with its experiments or to no avail.
Opens(j) == CreateRun(j) \/ (FailsToStart(j) /\ OpensRun(j))

LEMMA FailsMoves ==
  ASSUME TypeOK, NEW j \in Jobs, FailsToStart(j)
  PROVE  /\ pc[j] = "new" /\ pc' = [pc EXCEPT ![j] = "stopped"]
         /\ \A k \in Jobs : k # j => exp'[k] = exp[k]
         /\ UNCHANGED <<experiments, evaluations, usage, calls, slots, cursor, survived, pbo, journal>>
         /\ Opens(j) \/ UNCHANGED <<runs, runId, lastRunId>>
BY DEF FailsToStart, Opens, OpensRun, create_run, storeVars, Goto, TypeOK, JobTypeOK

LEMMA OpensMoves ==
  ASSUME TypeOK, NEW j \in Jobs, Opens(j)
  PROVE  /\ pc[j] = "new" /\ create_run(j)
         /\ runId' = [runId EXCEPT ![j] = NextRunId]
         /\ \E s \in {"gather", "stopped"} : pc' = [pc EXCEPT ![j] = s]
         /\ UNCHANGED <<experiments, evaluations, usage, cursor, survived, pbo, journal>>
BY FailsMoves DEF Opens, CreateRun, OpensRun, create_run, Goto

LEMMA TInvInit == Init => TInv
<1> SUFFICES ASSUME Init PROVE TInv
  OBVIOUS
<1> USE DEF Init, StoreInit, JobInit
<1>1. StoreTypeOK /\ pruned \subseteq Nat \X Exps /\ stale \subseteq Nat
  BY DEF StoreTypeOK
<1>2. JobTypeOK
  BY NExpAssumption, MaxParallelAssumption, MaxCallsAssumption
  DEF JobTypeOK, ExpStatus, PCs, Exps, ExpsOf
<1>3. SlotsAccounted
  <2> SUFFICES ASSUME NEW j \in Jobs
               PROVE  slots[j] + Cardinality(Running(j)) = MaxParallel
    BY DEF SlotsAccounted
  <2>1. Running(j) = {}
    BY DEF Running
  <2>2. QED
    BY <2>1, FS_EmptySet, MaxParallelAssumption
<1>4. IsFiniteSet(evaluations) /\ \A j \in Jobs : Idle(j)
  BY FS_EmptySet DEF Idle
<1>5. QED
  BY <1>1, <1>2, <1>3, <1>4 DEF TInv, TypeOK

\* An experiment that enters or leaves the semaphore carries its slot along.
LEMMA SlotTaken ==
  ASSUME TInv, NEW j \in Jobs, NEW e \in Exps, exp[j][e] # "running", slots[j] > 0,
         exp' = [exp EXCEPT ![j][e] = "running"], slots' = [slots EXCEPT ![j] = @ - 1]
  PROVE  SlotsAccounted' /\ slots' \in [Jobs -> 0 .. MaxParallel]
<1> USE MaxParallelAssumption DEF TInv, TypeOK, JobTypeOK
<1>1. ASSUME NEW k \in Jobs
      PROVE  slots'[k] + Cardinality(Running(k)') = MaxParallel
  <2>1. CASE k = j
    <3>1. e \notin Running(j) /\ Running(j)' = Running(j) \cup {e}
      BY RunningMoves DEF Running
    <3>2. Cardinality(Running(j)') = Cardinality(Running(j)) + 1
      BY <3>1, RunningFinite, FS_AddElement
    <3>3. QED
      BY <2>1, <3>2, RunningFinite DEF SlotsAccounted
  <2>2. CASE k # j
    <3>1. Running(k)' = Running(k)
      BY <2>2, RunningMoves
    <3>2. QED
      BY <2>2, <3>1 DEF SlotsAccounted
  <2>3. QED
    BY <2>1, <2>2
<1>2. QED
  BY <1>1 DEF SlotsAccounted

LEMMA SlotReturned ==
  ASSUME TInv, NEW j \in Jobs, NEW e \in Exps, exp[j][e] = "running",
         NEW s, s # "running", exp' = [exp EXCEPT ![j][e] = s],
         slots' = [slots EXCEPT ![j] = @ + 1]
  PROVE  SlotsAccounted' /\ slots' \in [Jobs -> 0 .. MaxParallel]
<1> USE MaxParallelAssumption DEF TInv, TypeOK, JobTypeOK
<1>1. e \in Running(j) /\ Running(j)' = Running(j) \ {e}
  BY RunningMoves DEF Running
<1>2. Cardinality(Running(j)') = Cardinality(Running(j)) - 1
  BY <1>1, RunningFinite, FS_RemoveElement
<1>3. Cardinality(Running(j)') \in Nat
  BY <1>1, RunningFinite, FS_RemoveElement, FS_CardinalityType
<1>4. slots[j] + 1 \in 0 .. MaxParallel
  BY <1>2, <1>3, RunningFinite DEF SlotsAccounted
<1>5. ASSUME NEW k \in Jobs
      PROVE  slots'[k] + Cardinality(Running(k)') = MaxParallel
  <2>1. CASE k = j
    BY <2>1, <1>2, RunningFinite DEF SlotsAccounted
  <2>2. CASE k # j
    <3>1. Running(k)' = Running(k)
      BY <2>2, RunningMoves
    <3>2. QED
      BY <2>2, <3>1 DEF SlotsAccounted
  <2>3. QED
    BY <2>1, <2>2
<1>6. QED
  BY <1>4, <1>5 DEF SlotsAccounted

LEMMA SlotIdle ==
  ASSUME TInv, NEW j \in Jobs, NEW e \in Exps, exp[j][e] # "running",
         NEW s, s # "running", exp' = [exp EXCEPT ![j][e] = s], slots' = slots
  PROVE  SlotsAccounted'
<1>1. TypeOK /\ SlotsAccounted
  BY DEF TInv
<1>2. \A k \in Jobs : Running(k)' = Running(k)
  BY <1>1, RunningMoves DEF Running
<1>3. QED
  BY <1>1, <1>2 DEF SlotsAccounted

\* The steps of one experiment.
LEMMA TInvExperiment ==
  ASSUME TInv, NEW j \in Jobs, NEW e \in ExpsOf(j), ExperimentStep(j, e), UNCHANGED observed
  PROVE  TInv'
<1>1. TypeOK /\ SlotsAccounted /\ IsFiniteSet(evaluations)
  BY DEF TInv
<1>2. e \in Exps
  BY ExpsOfSubset
<1>3. /\ exp' \in [Jobs -> [Exps -> ExpStatus]]
      /\ pc' \in [Jobs -> PCs]
      /\ UNCHANGED <<runs, lastRunId, experiments, evaluations>>
      /\ UNCHANGED <<runId, cursor, survived, pbo, journal>>
  <2>1. \/ exp' = exp
        \/ \E s \in ExpStatus : exp' = [exp EXCEPT ![j][e] = s]
    BY <1>1, ExperimentMoves
  <2>2. pc' = pc \/ pc' = [pc EXCEPT ![j] = "stopped"]
    BY <1>1, ExperimentMoves
  <2>0. exp \in [Jobs -> [Exps -> ExpStatus]]
    BY <1>1 DEF TypeOK, JobTypeOK
  <2>3. exp' \in [Jobs -> [Exps -> ExpStatus]]
    BY <1>2, <2>0, <2>1
  <2>4. pc' \in [Jobs -> PCs]
    BY <1>1, <2>2 DEF TypeOK, JobTypeOK, PCs, Ended
  <2>5. QED
    BY <1>1, <2>3, <2>4, ExperimentMoves DEF NoJobRow
<1>4. \A k \in Jobs : pc'[k] = "new" => Idle(k)'
  <2>0. pc \in [Jobs -> PCs] /\ pc[j] # "new"
        /\ (pc' = pc \/ pc' = [pc EXCEPT ![j] = "stopped"])
    BY <1>1, ExperimentMoves DEF TypeOK, JobTypeOK
  <2>1. \A k \in Jobs : pc'[k] = "new" => pc[k] = "new" /\ k # j
    BY <2>0
  <2>2. \/ exp' = exp
        \/ \E s \in ExpStatus : exp' = [exp EXCEPT ![j][e] = s]
    BY <1>1, ExperimentMoves
  <2>3. \A k \in Jobs : k # j => exp'[k] = exp[k]
    BY <1>1, <2>2 DEF TypeOK, JobTypeOK
  <2>4. QED
    BY <2>1, <2>3 DEF TInv, Idle
<1>5. /\ calls' \in [Jobs -> [Exps -> 0 .. MaxCalls]]
      /\ usage' \subseteq UsageRow
  <2>1. CASE ModelCall(j, e)
    <3>1. calls' \in [Jobs -> [Exps -> 0 .. MaxCalls]]
      BY <1>1, <1>2, <2>1, MaxCallsAssumption DEF ModelCall, TypeOK, JobTypeOK
    <3>2. calls[j][e] + 1 \in 1 .. MaxCalls
      BY <1>1, <1>2, <2>1, MaxCallsAssumption DEF ModelCall, TypeOK, JobTypeOK
    <3>3. usage' \subseteq UsageRow
      BY <1>1, <1>2, <2>1, <3>2
      DEF ModelCall, add_usage, storeVars, UsageRow, TypeOK, JobTypeOK, StoreTypeOK
    <3>4. QED
      BY <3>1, <3>3
  <2>2. CASE ~ModelCall(j, e)
    <3>1. calls' = calls /\ usage' = usage
      BY <2>2 DEF ExperimentStep, StartExperiment, StartFails, CancelExperiment,
                  FinishExperiment, storeVars
    <3>2. QED
      BY <1>1, <3>1 DEF TypeOK, JobTypeOK, StoreTypeOK
  <2>3. QED
    BY <2>1, <2>2
<1>6. SlotsAccounted' /\ slots' \in [Jobs -> 0 .. MaxParallel]
  <2>0. slots \in [Jobs -> 0 .. MaxParallel]
    BY <1>1 DEF TypeOK, JobTypeOK
  <2>1. CASE StartExperiment(j, e)
    BY <1>2, <2>1, SlotTaken DEF StartExperiment, Admitted
  <2>2. CASE StartFails(j, e)
    BY <1>2, <2>0, <2>2, SlotIdle DEF StartFails, Admitted
  <2>3. CASE CancelExperiment(j, e) /\ exp[j][e] = "running"
    BY <1>2, <2>3, SlotReturned DEF CancelExperiment
  <2>4. CASE CancelExperiment(j, e) /\ exp[j][e] # "running"
    BY <1>2, <2>0, <2>4, SlotIdle DEF CancelExperiment
  <2>5. CASE ModelCall(j, e)
    BY <1>1, <2>0, <2>5, SlotsUntouched DEF ModelCall
  <2>6. ASSUME NEW outcome \in {"submitted", "unsubmitted"}, FinishExperiment(j, e, outcome)
        PROVE  SlotsAccounted' /\ slots' \in [Jobs -> 0 .. MaxParallel]
    BY <1>2, <2>6, SlotReturned DEF FinishExperiment
  <2>7. QED
    BY <2>1, <2>2, <2>3, <2>4, <2>5, <2>6 DEF ExperimentStep
<1>7. QED
  BY <1>1, <1>3, <1>4, <1>5, <1>6 DEF TInv, TypeOK, StoreTypeOK, JobTypeOK, observed

\* A step that changes no experiment and starts no job keeps new jobs idle.
LEMMA IdleKept ==
  ASSUME TInv, exp' = exp, \A k \in Jobs : pc'[k] = "new" => pc[k] = "new"
  PROVE  \A k \in Jobs : pc'[k] = "new" => Idle(k)'
BY DEF TInv, Idle

\* The steps of a coroutine, but for opening and closing the run, its loops.
LEMMA TInvNext == TInv /\ [Next]_vars => TInv'
<1> SUFFICES ASSUME TInv, [Next]_vars PROVE TInv'
  OBVIOUS
<1>20. ASSUME exp' = exp, \A k \in Jobs : pc'[k] = "new" => pc[k] = "new",
              TypeOK', SlotsAccounted', IsFiniteSet(evaluations')
       PROVE  TInv'
  BY <1>20, IdleKept DEF TInv
<1> USE NExpAssumption, MaxParallelAssumption, MaxCallsAssumption
<1> USE DEF TInv, TypeOK, StoreTypeOK, JobTypeOK, PCs,
            Ended, storeVars, expVars, observed, Goto
<1>1. ASSUME NEW j \in Jobs, CreateRun(j), UNCHANGED observed
      PROVE  TInv'
  <2>1. SlotsAccounted'
    BY <1>1, SlotsUntouched DEF CreateRun
  <2>2. runs' \subseteq RunRow
    BY <1>1 DEF CreateRun, OpensRun, create_run, NextRunId, RunRow
  <2>3. QED
    BY <1>1, <1>20, <2>1, <2>2 DEF CreateRun, OpensRun, create_run, NextRunId
<1>2. ASSUME NEW j \in Jobs, FailsToStart(j), UNCHANGED observed
      PROVE  TInv'
  <2>1. /\ pc[j] = "new" /\ pc' = [pc EXCEPT ![j] = "stopped"]
        /\ exp' = [exp EXCEPT ![j] = [e \in Exps |-> "none"]]
        /\ UNCHANGED <<experiments, evaluations, usage, calls, slots, cursor, survived, pbo, journal>>
    BY <1>2 DEF FailsToStart, OpensRun, create_run
  <2>2. \A k \in Jobs : Running(k)' = Running(k) /\ (pc'[k] = "new" => Idle(k)')
    BY <2>1 DEF Running, Idle
  <2>3. SlotsAccounted' /\ \A k \in Jobs : pc'[k] = "new" => Idle(k)'
    BY <2>1, <2>2 DEF SlotsAccounted
  <2>4. runs' \subseteq RunRow /\ runId' \in [Jobs -> Nat] /\ lastRunId' \in Nat
    BY <1>2 DEF FailsToStart, OpensRun, create_run, NextRunId, RunRow
  <2>5. exp' \in [Jobs -> [Exps -> ExpStatus]] /\ pc' \in [Jobs -> PCs]
    BY <2>1 DEF ExpStatus
  <2>6. QED
    BY <1>2, <2>1, <2>3, <2>4, <2>5
<1>3. ASSUME NEW j \in Jobs, GatherRaises(j), UNCHANGED observed
      PROVE  TInv'
  <2>1. UNCHANGED <<storeVars, runId, expVars, cursor, survived, pbo, journal, observed>>
        /\ pc[j] = "cancelling" /\ pc' = [pc EXCEPT ![j] = "stopped"]
    BY <1>3 DEF GatherRaises
  <2>2. SlotsAccounted'
    BY <2>1, SlotsUntouched
  <2>3. pc' \in [Jobs -> PCs] /\ \A k \in Jobs : pc'[k] = "new" => pc[k] = "new"
    BY <2>1
  <2>4. QED
    BY <1>20, <2>1, <2>2, <2>3
<1>5. ASSUME NEW j \in Jobs, Gather(j), UNCHANGED observed
      PROVE  TInv'
  BY <1>5, <1>20, SlotsUntouched DEF Gather
<1>6. ASSUME NEW j \in Jobs, AddExperiment(j), UNCHANGED observed
      PROVE  TInv'
  <2>1. SlotsAccounted' /\ cursor[j] \in Exps
    BY <1>6, SlotsUntouched, ExpsOfSubset DEF AddExperiment
  <2>2. experiments' \subseteq ExperimentRow
    <3>1. [run |-> runId[j], by |-> j, exp |-> cursor[j],
           submitted |-> exp[j][cursor[j]] = "submitted"] \in ExperimentRow
      BY <2>1, Zenon DEF ExperimentRow
    <3>2. QED
      BY <1>6, <3>1 DEF AddExperiment, add_experiment
  <2>3. cursor' \in [Jobs -> 0 .. MaxExp]
    BY <1>6, <2>1 DEF AddExperiment, Exps
  <2>4. QED
    BY <1>6, <1>20, <2>1, <2>2, <2>3 DEF AddExperiment, add_experiment
<1>7. ASSUME NEW j \in Jobs, BeginEvaluation(j), UNCHANGED observed
      PROVE  TInv'
  BY <1>7, <1>20, SlotsUntouched DEF BeginEvaluation
<1>8. ASSUME NEW j \in Jobs, Evaluate(j), UNCHANGED observed
      PROVE  TInv'
  <2>1. SlotsAccounted' /\ Candidates(j) \subseteq Exps
    BY <1>8, SlotsUntouched, ExpsOfSubset DEF Evaluate, Candidates
  <2>2. QED
    BY <1>8, <1>20, <2>1 DEF Evaluate, Reports
<1>9. ASSUME NEW j \in Jobs, AddEvaluation(j), UNCHANGED observed
      PROVE  TInv'
  <2>1. SlotsAccounted' /\ cursor[j] \in Exps
    BY <1>9, SlotsUntouched, ExpsOfSubset DEF AddEvaluation, Candidates
  <2>2. evaluations' \subseteq EvaluationRow
    <3>1. [run |-> runId[j], by |-> j, exp |-> cursor[j],
           survived |-> cursor[j] \in survived[j]] \in EvaluationRow
      <4>1. runId[j] \in Nat /\ (cursor[j] \in survived[j]) \in BOOLEAN
        OBVIOUS
      <4>2. QED
        BY <2>1, <4>1, Zenon DEF EvaluationRow
    <3>2. QED
      BY <1>9, <3>1 DEF AddEvaluation, add_evaluation
  <2>3. cursor' \in [Jobs -> 0 .. MaxExp] /\ journal' \in [Jobs -> SUBSET Exps]
    BY <1>9, <2>1 DEF AddEvaluation, Exps
  <2>4. IsFiniteSet(evaluations')
    BY <1>9, FS_AddElement DEF AddEvaluation, add_evaluation
  <2>5. QED
    BY <1>9, <1>20, <2>1, <2>2, <2>3, <2>4 DEF AddEvaluation, add_evaluation
<1>10. ASSUME NEW j \in Jobs, SkipUnsubmitted(j), UNCHANGED observed
       PROVE  TInv'
  <2>1. SlotsAccounted' /\ cursor[j] \in Exps
    BY <1>10, SlotsUntouched, ExpsOfSubset DEF SkipUnsubmitted
  <2>2. cursor' \in [Jobs -> 0 .. MaxExp]
    BY <1>10, <2>1 DEF SkipUnsubmitted, Exps
  <2>3. QED
    BY <1>10, <1>20, <2>1, <2>2 DEF SkipUnsubmitted
<1>11. ASSUME NEW j \in Jobs, CloseRun(j), UNCHANGED observed
       PROVE  TInv'
  <2>1. SlotsAccounted'
    BY <1>11, SlotsUntouched DEF CloseRun
  <2>2. Cardinality(survived[j]) \in Nat
    BY ExpsFinite, FS_Subset, FS_CardinalityType
  <2>3. runs' \subseteq RunRow
    <3>1. SUFFICES ASSUME NEW row \in runs
                   PROVE  [row EXCEPT !.pbo = pbo[j],
                                      !.nSurvivors = Cardinality(survived[j])]
                          \in RunRow
      BY <1>11 DEF CloseRun, update_run
    <3>2. QED
      BY <2>2 DEF RunRow
  <2>4. QED
    BY <1>11, <1>20, <2>1, <2>3 DEF CloseRun, update_run
<1>12. ASSUME JobEnd, UNCHANGED observed
       PROVE  TInv'
  <2>1. /\ UNCHANGED <<storeVars, runId, expVars, cursor, survived, pbo, journal>>
        /\ pc' \in [Jobs -> PCs]
        /\ \A k \in Jobs : pc'[k] = "new" => pc[k] = "new"
    BY <1>12, JobEndMoves
  <2>2. SlotsAccounted'
    BY <2>1, SlotsUntouched
  <2>3. QED
    BY <1>12, <1>20, <2>1, <2>2
<1>13. ASSUME NEW r \in RowIds, api_delete_run(r)
       PROVE  TInv'
  <2>1. SlotsAccounted'
    BY <1>13, SlotsUntouched DEF api_delete_run, jobVars
  <2>2. IsFiniteSet(evaluations')
    BY <1>13, FS_Subset DEF api_delete_run, delete_run, Without
  <2>3. QED
    BY <1>13, <1>20, <2>1, <2>2 DEF api_delete_run, delete_run, Without, jobVars
<1>14. ASSUME NEW ev \in evaluations, api_delete_factor(ev)
       PROVE  TInv'
  <2>1. SlotsAccounted'
    BY <1>14, SlotsUntouched DEF api_delete_factor, jobVars
  <2>2. IsFiniteSet(evaluations')
    BY <1>14, FS_RemoveElement DEF api_delete_factor, delete_evaluation
  <2>3. evaluations' \subseteq EvaluationRow
    BY <1>14 DEF api_delete_factor, delete_evaluation
  <2>4. pruned' \subseteq Nat \X Exps
    <3>1. ev.run \in Nat /\ ev.exp \in Exps
      BY DEF EvaluationRow
    <3>2. QED
      BY <1>14, <3>1 DEF api_delete_factor
  <2>5. stale' \subseteq Nat
    BY <1>14 DEF api_delete_factor, EvaluationRow
  <2>6. QED
    BY <1>14, <1>20, <2>1, <2>2, <2>3, <2>4, <2>5
    DEF api_delete_factor, delete_evaluation, jobVars
<1>15. ASSUME NEW ev \in evaluations, NEW mark \in BOOLEAN, api_patch_factor(ev, mark)
       PROVE  TInv'
  <2>1. SlotsAccounted'
    BY <1>15, SlotsUntouched DEF api_patch_factor, jobVars
  <2>2. IsFiniteSet(evaluations')
    BY <1>15, FS_RemoveElement, FS_AddElement DEF api_patch_factor, set_survived
  <2>3. SurvivedOf(evaluations', ev.run) \in SUBSET evaluations'
    BY DEF SurvivedOf
  <2>4. Cardinality(SurvivedOf(evaluations', ev.run)) \in Nat
    BY <2>2, <2>3, FS_Subset, FS_CardinalityType
  <2>5. evaluations' \subseteq EvaluationRow
    BY <1>15 DEF api_patch_factor, set_survived, EvaluationRow
  <2>6. runs' \subseteq RunRow
    <3>1. SUFFICES ASSUME NEW row \in runs
                   PROVE  [row EXCEPT !.nSurvivors =
                             Cardinality(SurvivedOf(evaluations', ev.run))] \in RunRow
      BY <1>15 DEF api_patch_factor, set_survived
    <3>2. QED
      BY <2>4 DEF RunRow
  <2>7. stale' \subseteq Nat
    <3>1. ev.run \in Nat
      BY DEF EvaluationRow
    <3>2. QED
      BY <1>15, <3>1 DEF api_patch_factor
  <2>8. QED
    BY <1>15, <1>20, <2>1, <2>2, <2>5, <2>6, <2>7
    DEF api_patch_factor, set_survived, jobVars
<1>16. CASE UNCHANGED vars
  BY <1>16, <1>20, SlotsUntouched DEF vars, jobVars
<1>17. ASSUME NEW j \in Jobs, JobStep(j), UNCHANGED observed
       PROVE  TInv'
  BY <1>1, <1>3, <1>5, <1>6, <1>7, <1>8, <1>9, <1>10, <1>11, <1>17, TInvExperiment
  DEF JobStep, CoroutineStep
<1>18. CASE Curation
  BY <1>13, <1>14, <1>15, <1>18 DEF Curation
<1>19. QED
  BY <1>2, <1>12, <1>16, <1>17, <1>18 DEF Next

LEMMA TInvariant == Spec => []TInv
BY TInvInit, TInvNext, PTL DEF Spec

\* Every reachable state is well typed, for any jobs, numbers of experiments
\* and slots: the tables and the fields of every orchestrator.
THEOREM TypeCorrect == Spec => []TypeOK
<1>1. TInv => TypeOK
  BY DEF TInv
<1>2. QED
  BY <1>1, TInvariant, PTL

\* The semaphore of orchestrator.run never leaks: its value and the sessions
\* inside it add up to max_parallel, whatever fails or is cancelled.
THEOREM SlotsNeverLeak == Spec => []SlotsAccounted
<1>1. TInv => SlotsAccounted
  BY DEF TInv
<1>2. QED
  BY <1>1, TInvariant, PTL

(***************************************************************************)
(* What a job has behind it: past gather its experiments have finished, and *)
(* its journal is empty until the report loop.                             *)
(***************************************************************************)
PastGather == {"persist", "evaluate", "report", "done"}

PhaseInv ==
  \A j \in Jobs :
    /\ journal[j] # {} => pc[j] \in {"report"} \cup Ended
    /\ pc[j] \in PastGather => AllFinished(j)

LEMMA PhaseInvInit == Init => PhaseInv
BY DEF Init, JobInit, PhaseInv, PastGather

(***************************************************************************)
(* How jobs move: the steps a later proof needs to tell apart.             *)
(***************************************************************************)
PcMoves(k) ==
  /\ pc'[k] = "new" => pc[k] = "new"
  /\ pc[k] = "new" => pc'[k] \in {"new", "stopped"} \/ CreateRun(k)
  /\ pc[k] \in {"stopped", "dead"} => pc'[k] \in {"stopped", "dead"}
  /\ pc[k] = "done" => pc'[k] = "done"
  /\ pc'[k] = "done" => pc[k] = "done" \/ CloseRun(k)
  /\ pc'[k] \in PastGather => pc[k] \in PastGather \/ Gather(k)
  /\ pc'[k] = "report" => pc[k] = "report" \/ Evaluate(k)
  /\ pc[k] = "report" => pc'[k] \in {"report"} \cup Ended

LEMMA CoroutineMoves ==
  ASSUME TypeOK, NEW j \in Jobs, CoroutineStep(j)
  PROVE  /\ \A k \in Jobs : PcMoves(k)
         /\ \A k \in Jobs : k # j => pc'[k] = pc[k] /\ cursor'[k] = cursor[k]
         /\ exp' = exp
<1> USE DEF TypeOK, JobTypeOK, PCs, Ended, Goto, expVars, PcMoves, PastGather
<1>1. CASE CreateRun(j)
  BY <1>1 DEF CreateRun
<1>2. CASE Gather(j)
  BY <1>2 DEF Gather
<1>3. CASE AddExperiment(j) \/ AddEvaluation(j) \/ SkipUnsubmitted(j)
  BY <1>3 DEF AddExperiment, AddEvaluation, SkipUnsubmitted
<1>4. CASE CloseRun(j)
  BY <1>4 DEF CloseRun
<1>5. CASE Evaluate(j)
  BY <1>5 DEF Evaluate
<1>6. CASE BeginEvaluation(j) \/ GatherRaises(j)
  BY <1>6 DEF BeginEvaluation, GatherRaises
<1>7. QED
  BY <1>1, <1>2, <1>3, <1>4, <1>5, <1>6 DEF CoroutineStep

LEMMA JobMoves ==
  ASSUME TInv, PhaseInv, [Next]_vars, NEW k \in Jobs
  PROVE  /\ PcMoves(k)
         /\ pc[k] \in PastGather => exp'[k] = exp[k]
         /\ \A e \in ExpsOf(k) : Finished(k, e) => exp'[k][e] = exp[k][e]
<1>0. TypeOK
  BY DEF TInv
<1>1. ASSUME NEW j \in Jobs, CoroutineStep(j)
      PROVE  PcMoves(k) /\ exp' = exp
  BY <1>0, <1>1, CoroutineMoves
<1>2. ASSUME NEW j \in Jobs, NEW d \in ExpsOf(j), ExperimentStep(j, d)
      PROVE  /\ PcMoves(k)
             /\ pc[k] \in PastGather => exp'[k] = exp[k]
             /\ \A e \in ExpsOf(k) : Finished(k, e) => exp'[k][e] = exp[k][e]
  <2>1. /\ pc' = pc \/ (pc[j] = "gather" /\ pc' = [pc EXCEPT ![j] = "stopped"])
        /\ \/ exp' = exp
           \/ /\ ~Finished(j, d)
              /\ \E s \in ExpStatus : exp' = [exp EXCEPT ![j][d] = s]
    BY <1>0, <1>2, ExperimentMoves DEF Finished
  <2>2. pc \in [Jobs -> PCs] /\ exp \in [Jobs -> [Exps -> ExpStatus]]
    BY <1>0 DEF TypeOK, JobTypeOK
  <2>3. PcMoves(k)
    BY <2>1, <2>2 DEF PcMoves, PastGather, Ended
  <2>4. pc[j] \in PastGather => exp' = exp
    BY <2>1 DEF PhaseInv, AllFinished
  <2>5. d \in Exps /\ \A e \in ExpsOf(k) : e \in Exps
    BY ExpsOfSubset
  <2>6. pc[k] \in PastGather => exp'[k] = exp[k]
    BY <2>1, <2>2, <2>4
  <2>7. \A e \in ExpsOf(k) : Finished(k, e) => exp'[k][e] = exp[k][e]
    BY <2>1, <2>2, <2>5
  <2>8. QED
    BY <2>3, <2>6, <2>7
<1>3. ASSUME NEW j \in Jobs, FailsToStart(j)
      PROVE  /\ PcMoves(k)
             /\ pc[k] \in PastGather => exp'[k] = exp[k]
             /\ \A e \in ExpsOf(k) : Finished(k, e) => exp'[k][e] = exp[k][e]
  <2>1. /\ pc[j] = "new" /\ pc' = [pc EXCEPT ![j] = "stopped"] /\ pc \in [Jobs -> PCs]
        /\ k # j => exp'[k] = exp[k]
    BY <1>0, <1>3, FailsMoves DEF TypeOK, JobTypeOK
  <2>2. PcMoves(k)
    BY <2>1 DEF PcMoves, PastGather, Ended
  <2>3. pc[k] \in PastGather => exp'[k] = exp[k]
    BY <2>1 DEF PastGather
  <2>4. ASSUME NEW e \in ExpsOf(k), Finished(k, e) PROVE k # j
    BY <2>1, <2>4, ExpsOfSubset DEF Finished, TInv, Idle
  <2>5. QED
    BY <2>1, <2>2, <2>3, <2>4
<1>4. CASE JobEnd
  <2>1. exp' = exp /\ \A j \in Jobs :
              \/ pc'[j] = pc[j]
              \/ pc[j] \notin {"new", "done", "dead"} /\ pc'[j] = "dead"
              \/ pc[j] \in {"persist", "evaluate", "report"} /\ pc'[j] = "stopped"
              \/ pc[j] = "gather" /\ pc'[j] = "cancelling"
    BY <1>0, <1>4, JobEndMoves DEF expVars
  <2>2. QED
    BY <2>1 DEF PcMoves, PastGather, Ended
<1>5. CASE Curation \/ UNCHANGED vars
  <2>1. pc' = pc /\ exp' = exp
    BY <1>5 DEF Curation, api_delete_run, api_delete_factor, api_patch_factor, jobVars, vars
  <2>2. QED
    BY <2>1 DEF PcMoves, PastGather, Ended
<1>6. QED
  BY <1>1, <1>2, <1>3, <1>4, <1>5 DEF Next, JobStep

LEMMA PhaseInvNext == TInv /\ PhaseInv /\ [Next]_vars => PhaseInv'
<1> SUFFICES ASSUME TInv, PhaseInv, [Next]_vars, NEW k \in Jobs
             PROVE  /\ journal'[k] # {} => pc'[k] \in {"report"} \cup Ended
                    /\ pc'[k] \in PastGather => AllFinished(k)'
  BY DEF PhaseInv
<1>1. ASSUME pc'[k] \in PastGather PROVE AllFinished(k)'
  <2>1. AllFinished(k)
    BY <1>1, JobMoves DEF PcMoves, PhaseInv, Gather
  <2>2. QED
    BY <2>1, JobMoves DEF AllFinished, Finished
<1>2. ASSUME journal'[k] # {} PROVE pc'[k] \in {"report"} \cup Ended
  <2>1. journal'[k] = journal[k] \/ AddEvaluation(k)
    <3>1. ASSUME NEW j \in Jobs, CoroutineStep(j) PROVE journal'[k] = journal[k] \/ AddEvaluation(k)
      BY <3>1 DEF CoroutineStep, CreateRun, Gather, GatherRaises, AddExperiment, BeginEvaluation,
         Evaluate, AddEvaluation, SkipUnsubmitted, CloseRun, TInv, TypeOK, JobTypeOK
    <3>2. TypeOK
      BY DEF TInv
    <3>3. QED
      BY <3>1, <3>2, ExperimentMoves, FailsMoves, JobEndMoves
      DEF Next, JobStep, Curation, api_delete_run, api_delete_factor, api_patch_factor, jobVars, vars
  <2>2. CASE AddEvaluation(k)
    BY <2>2 DEF AddEvaluation
  <2>3. CASE journal'[k] = journal[k]
    <3>1. pc[k] \in {"report"} \cup Ended
      BY <1>2, <2>3 DEF PhaseInv
    <3>2. QED
      BY <3>1, JobMoves DEF PcMoves, Ended
  <2>4. QED
    BY <2>1, <2>2, <2>3
<1>3. QED
  BY <1>1, <1>2

(***************************************************************************)
(* Runs: ids are handed out once, a row belongs to the job that was given  *)
(* its id, and only a job that is done has closed its row.                 *)
(***************************************************************************)
IdsInv ==
  /\ \A j \in Jobs : /\ runId[j] <= lastRunId
                     /\ pc[j] = "new" => runId[j] = 0
                     /\ runId[j] = 0 => pc[j] \in {"new", "stopped", "dead"}
  /\ \A i, j \in Jobs : runId[i] = runId[j] /\ runId[i] # 0 => i = j

RunsInv ==
  /\ \A row \in runs :
       /\ row.id = runId[row.by] /\ row.id # 0
       /\ row.pbo # Null => pc[row.by] = "done"
  /\ \A row, other \in runs : row.id = other.id => row = other

\* What the steps of jobs and users do to ids and to rows of runs.
LEMMA RunMoves ==
  ASSUME TInv, [Next]_vars
  PROVE  \/ \E j \in Jobs : Opens(j)
         \/ UNCHANGED <<runs, runId, lastRunId>>
         \/ \E j \in Jobs : CloseRun(j)
         \/ \E r \in RowIds : api_delete_run(r)
         \/ \E ev \in evaluations, mark \in BOOLEAN : api_patch_factor(ev, mark)
<1>0. TypeOK
  BY DEF TInv
<1>1. ASSUME NEW j \in Jobs, CoroutineStep(j)
      PROVE  Opens(j) \/ UNCHANGED <<runs, runId, lastRunId>> \/ CloseRun(j)
  BY <1>1 DEF CoroutineStep, Opens, Gather, GatherRaises, AddExperiment, BeginEvaluation,
              Evaluate, AddEvaluation, SkipUnsubmitted, add_experiment, add_evaluation,
              storeVars
<1>2. ASSUME NEW j \in Jobs, NEW e \in ExpsOf(j), ExperimentStep(j, e)
      PROVE  UNCHANGED <<runs, runId, lastRunId>>
  BY <1>0, <1>2, ExperimentMoves DEF NoJobRow
<1>3. ASSUME NEW j \in Jobs, FailsToStart(j)
      PROVE  Opens(j) \/ UNCHANGED <<runs, runId, lastRunId>>
  BY <1>0, <1>3, FailsMoves
<1>4. CASE JobEnd
  BY <1>0, <1>4, JobEndMoves DEF storeVars
<1>5. CASE Curation
  BY <1>5 DEF Curation, api_delete_factor, delete_evaluation, jobVars
<1>6. CASE UNCHANGED vars
  BY <1>6 DEF vars, storeVars, jobVars
<1>7. QED
  BY <1>1, <1>2, <1>3, <1>4, <1>5, <1>6 DEF Next, JobStep

LEMMA IdsNext == TInv /\ PhaseInv /\ IdsInv /\ [Next]_vars => IdsInv'
<1> SUFFICES ASSUME TInv, PhaseInv, IdsInv, [Next]_vars PROVE IdsInv'
  OBVIOUS
<1>0. runId \in [Jobs -> Nat] /\ lastRunId \in Nat /\ pc \in [Jobs -> PCs] /\ TypeOK
  BY DEF TInv, TypeOK, JobTypeOK, StoreTypeOK
<1>1. ASSUME NEW j \in Jobs, Opens(j) PROVE IdsInv'
  <2>1. /\ runId' = [runId EXCEPT ![j] = lastRunId + 1]
        /\ lastRunId' = lastRunId + 1
        /\ \E s \in {"gather", "stopped"} : pc' = [pc EXCEPT ![j] = s]
    BY <1>0, <1>1, OpensMoves DEF create_run, NextRunId
  <2>2. \A k \in Jobs \ {j} : pc'[k] = pc[k]
    BY <1>0, <2>1
  <2>3. pc'[j] # "new"
    BY <1>0, <2>1
  <2>4. \A k \in Jobs : runId[k] <= lastRunId /\ runId[k] \in Nat
    BY <1>0 DEF IdsInv
  <2>5. \A k \in Jobs :
          /\ runId'[k] <= lastRunId'
          /\ runId'[k] = runId[k] \/ (k = j /\ runId'[k] = lastRunId + 1)
    BY <1>0, <2>1, <2>4
  <2>6. \A k \in Jobs :
          /\ pc'[k] = "new" => runId'[k] = 0
          /\ runId'[k] = 0 => pc'[k] \in {"new", "stopped", "dead"}
    BY <1>0, <2>1, <2>2, <2>3 DEF IdsInv
  <2>7. ASSUME NEW i \in Jobs, NEW k \in Jobs, runId'[i] = runId'[k], runId'[i] # 0
        PROVE  i = k
    <3>1. runId[j] # lastRunId + 1 /\ \A m \in Jobs : runId[m] # lastRunId + 1
      BY <1>0, <2>4
    <3>2. \A m \in Jobs \ {j} : runId'[m] = runId[m]
      BY <1>0, <2>1
    <3>3. runId'[j] = lastRunId + 1
      BY <1>0, <2>1
    <3>4. QED
      BY <2>7, <3>1, <3>2, <3>3 DEF IdsInv
  <2>8. \A k \in Jobs : runId'[k] <= lastRunId'
    BY <2>5
  <2>9. QED
    BY <2>6, <2>7, <2>8, Zenon DEF IdsInv
<1>2. ASSUME UNCHANGED <<runId, lastRunId>>, \A j \in Jobs : ~CreateRun(j) PROVE IdsInv'
  <2>1. ASSUME NEW j \in Jobs
        PROVE  /\ pc'[j] = "new" => runId[j] = 0
               /\ runId[j] = 0 => pc'[j] \in {"new", "stopped", "dead"}
    BY <1>2, JobMoves DEF IdsInv, PcMoves
  <2>2. runId' = runId /\ lastRunId' = lastRunId
    BY <1>2
  <2>3. QED
    BY <2>1, <2>2, Zenon DEF IdsInv
<1>3. UNCHANGED <<runId, lastRunId>> \/ \E j \in Jobs : Opens(j)
  BY RunMoves DEF CloseRun, update_run, api_delete_run, delete_run, api_patch_factor,
                  set_survived, jobVars
<1>4. QED
  BY <1>1, <1>2, <1>3 DEF Opens

LEMMA RunsNext == TInv /\ PhaseInv /\ IdsInv /\ RunsInv /\ [Next]_vars => RunsInv'
<1> SUFFICES ASSUME TInv, PhaseInv, IdsInv, RunsInv, [Next]_vars PROVE RunsInv'
  OBVIOUS
<1>0. /\ runId \in [Jobs -> Nat] /\ lastRunId \in Nat
      /\ \A row \in runs : row \in RunRow /\ row.by \in Jobs
  BY DEF TInv, TypeOK, JobTypeOK, StoreTypeOK, RunRow
<1>1. ASSUME NEW j \in Jobs, Opens(j) PROVE RunsInv'
  <2> DEFINE new == [id |-> lastRunId + 1, by |-> j, pbo |-> Null, nSurvivors |-> 0]
  <2>1. /\ runId' = [runId EXCEPT ![j] = lastRunId + 1]
        /\ runs' = runs \cup {new}
        /\ runId[j] = 0
    BY <1>1, OpensMoves DEF create_run, NextRunId, IdsInv, TInv
  <2>2. \A row \in runs : row.by # j /\ row.id # lastRunId + 1
    BY <1>0, <2>1 DEF RunsInv, IdsInv
  <2>3. new.id = lastRunId + 1 /\ new.by = j /\ new.pbo = Null
    OBVIOUS
  <2> HIDE DEF new
  <2>4. ASSUME NEW row \in runs
        PROVE  /\ row.id = runId'[row.by] /\ row.id # 0
               /\ row.pbo # Null => pc'[row.by] = "done"
    BY <1>0, <2>1, <2>2, JobMoves DEF RunsInv, PcMoves
  <2>5. QED
    BY <1>0, <2>1, <2>2, <2>3, <2>4 DEF RunsInv
<1>2. CASE UNCHANGED <<runs, runId, lastRunId>>
  BY <1>0, <1>2, JobMoves DEF RunsInv, PcMoves
<1>3. ASSUME NEW j \in Jobs, CloseRun(j) PROVE RunsInv'
  <2> DEFINE Closed(row) == IF row.id = runId[j]
                              THEN [row EXCEPT !.pbo = pbo[j],
                                               !.nSurvivors = Cardinality(survived[j])]
                              ELSE row
  <2>1. /\ runs' = {Closed(row) : row \in runs}
        /\ runId' = runId
        /\ pc'[j] = "done"
    BY <1>3 DEF CloseRun, update_run, Goto, TInv, TypeOK, JobTypeOK
  <2>2. ASSUME NEW row \in runs
        PROVE  /\ Closed(row).id = row.id /\ Closed(row).by = row.by
               /\ Closed(row).pbo = row.pbo \/ row.id = runId[j]
    BY <1>0 DEF RunRow
  <2> HIDE DEF Closed
  <2>3. ASSUME NEW new \in runs'
        PROVE  /\ new.id = runId'[new.by] /\ new.id # 0
               /\ new.pbo # Null => pc'[new.by] = "done"
    <3>1. PICK row \in runs : new = Closed(row)
      BY <2>1
    <3>2. row.id = runId[j] => row.by = j
      BY <1>0 DEF RunsInv, IdsInv
    <3>3. new.id = runId'[new.by] /\ new.id # 0
      BY <2>1, <2>2, <3>1 DEF RunsInv
    <3>4. CASE row.id = runId[j]
      BY <2>1, <2>2, <3>1, <3>2, <3>3, <3>4
    <3>5. CASE new.pbo = row.pbo
      <4>1. new.pbo # Null => pc[row.by] = "done" /\ row.by \in Jobs
        BY <1>0, <3>5 DEF RunsInv
      <4>2. QED
        BY <2>2, <3>1, <3>3, <4>1, JobMoves DEF PcMoves
    <3>6. QED
      BY <2>2, <3>1, <3>4, <3>5
  <2>4. ASSUME NEW new \in runs', NEW other \in runs', new.id = other.id
        PROVE  new = other
    <3>1. PICK row \in runs : new = Closed(row)
      BY <2>1
    <3>2. PICK row2 \in runs : other = Closed(row2)
      BY <2>1
    <3>3. row = row2
      BY <2>2, <2>4, <3>1, <3>2 DEF RunsInv
    <3>4. QED
      BY <3>1, <3>2, <3>3
  <2>5. QED
    BY <2>3, <2>4 DEF RunsInv
<1>4. ASSUME NEW r \in RowIds, api_delete_run(r) PROVE RunsInv'
  BY <1>4 DEF api_delete_run, delete_run, jobVars, RunsInv
<1>5. ASSUME NEW ev \in evaluations, NEW mark \in BOOLEAN, api_patch_factor(ev, mark)
      PROVE  RunsInv'
  <2> DEFINE Counted(row) == IF row.id = ev.run
                               THEN [row EXCEPT !.nSurvivors =
                                       Cardinality(SurvivedOf(evaluations', ev.run))]
                               ELSE row
  <2>1. /\ runs' = {Counted(row) : row \in runs}
        /\ UNCHANGED <<runId, pc>>
    BY <1>5 DEF api_patch_factor, set_survived, jobVars
  <2>2. \A row \in runs : /\ Counted(row).id = row.id /\ Counted(row).by = row.by
                          /\ Counted(row).pbo = row.pbo
    BY <1>0 DEF RunRow
  <2> HIDE DEF Counted
  <2>3. QED
    BY <2>1, <2>2 DEF RunsInv
<1>6. QED
  BY <1>1, <1>2, <1>3, <1>4, <1>5, RunMoves

(***************************************************************************)
(* The two loops of a job: which experiments it has recorded, and which of *)
(* its evaluations it has written or found not to be due.                  *)
(***************************************************************************)
Persisted(j, e) ==
  \/ pc[j] \in {"evaluate", "report", "done"}
  \/ pc[j] = "persist" /\ e < cursor[j]

Judged(j, e) ==
  \/ pc[j] = "done"
  \/ pc[j] = "report" /\ e < cursor[j]

LEMMA LoopMoves ==
  ASSUME TInv, [Next]_vars, NEW j \in Jobs, NEW e \in ExpsOf(j)
  PROVE  /\ Persisted(j, e)' => Persisted(j, e) \/ (AddExperiment(j) /\ cursor[j] = e)
         /\ Judged(j, e)' => \/ Judged(j, e)
                             \/ AddEvaluation(j) /\ cursor[j] = e
                             \/ SkipUnsubmitted(j) /\ cursor[j] = e
<1>0. cursor[j] \in Int /\ NExp[j] \in Int /\ e \in Int /\ 0 <= e /\ e < NExp[j]
  BY NExpAssumption DEF ExpsOf, TInv, TypeOK, JobTypeOK
<1>8. e < cursor[j] + 1 => e < cursor[j] \/ cursor[j] = e
  BY <1>0
<1> USE DEF TInv, TypeOK, JobTypeOK, PCs, Ended, Goto, Persisted, Judged
<1> DEFINE Goal == /\ Persisted(j, e)' =>
                        Persisted(j, e) \/ (AddExperiment(j) /\ cursor[j] = e)
                   /\ Judged(j, e)' => \/ Judged(j, e)
                                       \/ AddEvaluation(j) /\ cursor[j] = e
                                       \/ SkipUnsubmitted(j) /\ cursor[j] = e
<1>1. ASSUME pc'[j] = pc[j], cursor'[j] = cursor[j] PROVE Goal
  BY <1>1
<1>9. TypeOK
  OBVIOUS
<1>2. ASSUME NEW k \in Jobs, CoroutineStep(k), k # j PROVE Goal
  <2>1. pc'[j] = pc[j] /\ cursor'[j] = cursor[j]
    BY <1>9, <1>2, CoroutineMoves
  <2>2. QED
    BY <1>1, <2>1
<1>3. ASSUME CoroutineStep(j) PROVE Goal
  <2>1. CASE CreateRun(j)
    BY <2>1 DEF CreateRun
  <2>2. CASE Gather(j)
    BY <1>0, <2>2 DEF Gather
  <2>3. CASE AddExperiment(j)
    <3>1. pc' = pc /\ pc[j] = "persist" /\ cursor'[j] = cursor[j] + 1
      BY <2>3 DEF AddExperiment
    <3>2. QED
      BY <2>3, <3>1, <1>8, Zenon
  <2>4. CASE BeginEvaluation(j)
    BY <1>0, <2>4 DEF BeginEvaluation
  <2>5. CASE Evaluate(j)
    BY <1>0, <2>5 DEF Evaluate
  <2>6. CASE AddEvaluation(j)
    <3>1. pc' = pc /\ pc[j] = "report" /\ cursor'[j] = cursor[j] + 1
      BY <2>6 DEF AddEvaluation
    <3>2. QED
      BY <2>6, <3>1, <1>8, Zenon
  <2>7. CASE SkipUnsubmitted(j)
    <3>1. pc' = pc /\ pc[j] = "report" /\ cursor'[j] = cursor[j] + 1
      BY <2>7 DEF SkipUnsubmitted
    <3>2. QED
      BY <2>7, <3>1, <1>8, Zenon
  <2>8. CASE CloseRun(j)
    BY <1>0, <2>8 DEF CloseRun
  <2>9. CASE GatherRaises(j)
    BY <2>9 DEF GatherRaises
  <2>10. QED
    BY <1>3, <2>1, <2>2, <2>3, <2>4, <2>5, <2>6, <2>7, <2>8, <2>9 DEF CoroutineStep
<1>10. ASSUME pc'[j] \in {"stopped", "dead", "cancelling"} PROVE Goal
  BY <1>10
<1>4. ASSUME NEW k \in Jobs, NEW d \in ExpsOf(k), ExperimentStep(k, d) PROVE Goal
  <2>1. cursor' = cursor /\ pc'[j] \in {pc[j], "stopped"}
    BY <1>4, <1>9, ExperimentMoves
  <2>2. QED
    BY <1>1, <1>10, <2>1
<1>11. ASSUME NEW k \in Jobs, FailsToStart(k) PROVE Goal
  <2>1. cursor' = cursor /\ pc'[j] \in {pc[j], "stopped"}
    BY <1>11, <1>9, FailsMoves
  <2>2. QED
    BY <1>1, <1>10, <2>1
<1>5. ASSUME JobEnd PROVE Goal
  <2>1. cursor' = cursor /\ pc'[j] \in {pc[j], "stopped", "dead", "cancelling"}
    BY <1>5, <1>9, JobEndMoves
  <2>2. QED
    BY <1>1, <1>10, <2>1
<1>6. ASSUME Curation \/ UNCHANGED vars PROVE Goal
  <2>1. pc' = pc /\ cursor' = cursor
    BY <1>6 DEF Curation, api_delete_run, api_delete_factor, api_patch_factor, jobVars, vars
  <2>2. QED
    BY <1>1, <2>1
<1>7. QED
  BY <1>2, <1>3, <1>4, <1>5, <1>6, <1>11 DEF Next, JobStep

(***************************************************************************)
(* How rows move.                                                          *)
(***************************************************************************)
LEMMA TableMoves ==
  ASSUME TInv, [Next]_vars
  PROVE  \/ \E j \in Jobs : AddExperiment(j) /\ UNCHANGED observed
         \/ \E j \in Jobs : AddEvaluation(j) /\ UNCHANGED observed
         \/ UNCHANGED <<experiments, evaluations, observed>>
         \/ \E r \in RowIds : api_delete_run(r)
         \/ \E ev \in evaluations : api_delete_factor(ev)
         \/ \E ev \in evaluations, mark \in BOOLEAN : api_patch_factor(ev, mark)
<1>0. TypeOK
  BY DEF TInv
<1>1. ASSUME NEW j \in Jobs, JobStep(j) \/ FailsToStart(j)
      PROVE  AddExperiment(j) \/ AddEvaluation(j) \/ UNCHANGED <<experiments, evaluations>>
  <2>1. ASSUME CoroutineStep(j)
        PROVE  AddExperiment(j) \/ AddEvaluation(j) \/ UNCHANGED <<experiments, evaluations>>
    BY <2>1 DEF CoroutineStep, CreateRun, OpensRun, Gather, GatherRaises, BeginEvaluation,
                Evaluate, SkipUnsubmitted, CloseRun, create_run, update_run, storeVars
  <2>2. QED
    BY <1>0, <1>1, <2>1, ExperimentMoves, FailsMoves DEF JobStep, NoJobRow
<1>2. ASSUME JobEnd PROVE UNCHANGED <<experiments, evaluations>>
  BY <1>0, <1>2, JobEndMoves DEF storeVars
<1>3. ASSUME UNCHANGED vars PROVE UNCHANGED <<experiments, evaluations, observed>>
  BY <1>3 DEF vars, storeVars
<1>4. QED
  BY <1>1, <1>2, <1>3 DEF Next, Curation

LEMMA RowIdsMove ==
  ASSUME TInv, [Next]_vars
  PROVE  /\ RowIds' \subseteq RowIds \cup {lastRunId + 1}
         /\ \A r \in RowIds : api_delete_run(r) => r \notin RowIds'
         /\ (\A r \in RowIds : ~api_delete_run(r)) => RowIds \subseteq RowIds'
<1>0. \A row \in runs : row \in RunRow
  BY DEF TInv, TypeOK, StoreTypeOK
<1>1. ASSUME NEW j \in Jobs, Opens(j) PROVE RowIds' = RowIds \cup {lastRunId + 1}
  <2> DEFINE new == [id |-> lastRunId + 1, by |-> j, pbo |-> Null, nSurvivors |-> 0]
  <2>1. runs' = runs \cup {new} /\ new.id = lastRunId + 1
    BY <1>1, OpensMoves DEF create_run, NextRunId, TInv
  <2> HIDE DEF new
  <2>2. QED
    BY <2>1 DEF RowIds
<1>2. ASSUME UNCHANGED <<runs, runId, lastRunId>> PROVE RowIds' = RowIds
  BY <1>2 DEF RowIds
<1>3. ASSUME NEW j \in Jobs, CloseRun(j) PROVE RowIds' = RowIds
  <2> DEFINE Closed(row) == IF row.id = runId[j]
                              THEN [row EXCEPT !.pbo = pbo[j],
                                               !.nSurvivors = Cardinality(survived[j])]
                              ELSE row
  <2>1. runs' = {Closed(row) : row \in runs}
    BY <1>3 DEF CloseRun, update_run
  <2>2. \A row \in runs : Closed(row).id = row.id
    BY <1>0 DEF RunRow
  <2> HIDE DEF Closed
  <2>3. QED
    BY <2>1, <2>2 DEF RowIds
<1>4. ASSUME NEW r \in RowIds, api_delete_run(r) PROVE RowIds' = RowIds \ {r}
  BY <1>4 DEF api_delete_run, delete_run, RowIds
<1>5. ASSUME NEW ev \in evaluations, NEW mark \in BOOLEAN, api_patch_factor(ev, mark)
      PROVE  RowIds' = RowIds
  <2> DEFINE Counted(row) == IF row.id = ev.run
                               THEN [row EXCEPT !.nSurvivors =
                                       Cardinality(SurvivedOf(evaluations', ev.run))]
                               ELSE row
  <2>1. runs' = {Counted(row) : row \in runs}
    BY <1>5 DEF api_patch_factor, set_survived
  <2>2. \A row \in runs : Counted(row).id = row.id
    BY <1>0 DEF RunRow
  <2> HIDE DEF Counted
  <2>3. QED
    BY <2>1, <2>2 DEF RowIds
<1>6. \A r \in RowIds : api_delete_run(r) => r \notin RowIds'
  BY <1>4
<1>7. QED
  BY <1>1, <1>2, <1>3, <1>4, <1>5, <1>6, RunMoves

\* The id of a job never changes once it has one.
LEMMA IdKept ==
  ASSUME TInv, IdsInv, [Next]_vars, NEW k \in Jobs, runId[k] # 0
  PROVE  runId'[k] = runId[k]
<1>1. ASSUME NEW j \in Jobs, Opens(j) PROVE runId'[k] = runId[k]
  <2>1. pc[j] = "new" /\ runId' = [runId EXCEPT ![j] = lastRunId + 1]
    BY <1>1, OpensMoves DEF NextRunId, TInv
  <2>2. k # j /\ runId \in [Jobs -> Nat]
    BY <2>1 DEF IdsInv, TInv, TypeOK, JobTypeOK
  <2>3. QED
    BY <2>1, <2>2
<1>2. QED
  BY <1>1, RunMoves DEF CloseRun, api_delete_run, api_patch_factor, jobVars

(***************************************************************************)
(* Provenance: a row of experiments or of evaluations carries the id of    *)
(* the job that wrote it and tells the truth about that job's experiment;  *)
(* what a loop has passed is in the table for as long as the run is.       *)
(***************************************************************************)
ExperimentsInv ==
  \A x \in experiments :
    /\ x.run = runId[x.by] /\ x.run # 0
    /\ x.exp \in ExpsOf(x.by)
    /\ Finished(x.by, x.exp)
    /\ x.submitted <=> exp[x.by][x.exp] = "submitted"

EvaluationsInv ==
  \A ev \in evaluations :
    /\ ev.run = runId[ev.by] /\ ev.run # 0
    /\ ev.exp \in Candidates(ev.by)
    /\ pc[ev.by] \in {"report"} \cup Ended
    /\ ev.run \in RowIds => \E x \in experiments : x.run = ev.run /\ x.exp = ev.exp

WholeInv ==
  \A j \in Jobs : runId[j] \in RowIds =>
    \A e \in ExpsOf(j) :
      /\ Persisted(j, e) => \E x \in experiments : x.run = runId[j] /\ x.exp = e
      /\ Judged(j, e) /\ e \in Candidates(j) /\ <<runId[j], e>> \notin pruned =>
           \E ev \in evaluations : ev.run = runId[j] /\ ev.exp = e

LEMMA BoardInit == Init => IdsInv /\ RunsInv /\ ExperimentsInv /\ EvaluationsInv /\ WholeInv
BY DEF Init, StoreInit, JobInit, IdsInv, RunsInv, ExperimentsInv, EvaluationsInv, WholeInv,
       Persisted, Judged

LEMMA ExperimentsNext ==
  TInv /\ PhaseInv /\ IdsInv /\ ExperimentsInv /\ [Next]_vars => ExperimentsInv'
<1> SUFFICES ASSUME TInv, PhaseInv, IdsInv, ExperimentsInv, [Next]_vars,
                    NEW x \in experiments'
             PROVE  /\ x.run = runId'[x.by] /\ x.run # 0
                    /\ x.exp \in ExpsOf(x.by)
                    /\ Finished(x.by, x.exp)'
                    /\ x.submitted <=> exp'[x.by][x.exp] = "submitted"
  BY DEF ExperimentsInv
<1>1. CASE x \in experiments
  <2>1. x.by \in Jobs
    BY <1>1 DEF TInv, TypeOK, StoreTypeOK, ExperimentRow
  <2>2. runId[x.by] # 0 /\ x.exp \in ExpsOf(x.by) /\ Finished(x.by, x.exp)
    BY <1>1 DEF ExperimentsInv
  <2>3. runId'[x.by] = runId[x.by] /\ exp'[x.by][x.exp] = exp[x.by][x.exp]
    BY <2>1, <2>2, IdKept, JobMoves
  <2>4. QED
    BY <1>1, <2>2, <2>3 DEF ExperimentsInv, Finished
<1>2. CASE x \notin experiments
  <2>1. PICK j \in Jobs : AddExperiment(j)
    BY <1>2, TableMoves DEF AddEvaluation, add_evaluation, api_delete_run, delete_run, Without,
       api_delete_factor, delete_evaluation, api_patch_factor, set_survived
  <2>2. x = [run |-> runId[j], by |-> j, exp |-> cursor[j],
             submitted |-> exp[j][cursor[j]] = "submitted"]
    BY <1>2, <2>1 DEF AddExperiment, add_experiment
  <2>3. /\ x.run = runId[j] /\ x.by = j /\ x.exp = cursor[j]
        /\ x.submitted <=> exp[j][cursor[j]] = "submitted"
    BY <2>2, Zenon
  <2>4. /\ pc[j] = "persist" /\ cursor[j] \in ExpsOf(j) /\ runId' = runId /\ exp' = exp
    BY <2>1 DEF AddExperiment, expVars
  <2>5. runId[j] # 0 /\ AllFinished(j)
    BY <2>4 DEF IdsInv, PhaseInv, PastGather
  <2>6. QED
    BY <2>3, <2>4, <2>5 DEF AllFinished, Finished
<1>3. QED
  BY <1>1, <1>2

\* A row of experiments stays while its run does.
LEMMA ExperimentKept ==
  ASSUME TInv, [Next]_vars, NEW x \in experiments, x.run \in RowIds'
  PROVE  x \in experiments'
<1>1. ASSUME NEW r \in RowIds, api_delete_run(r) PROVE x \in experiments'
  <2>1. x.run # r
    BY <1>1, RowIdsMove
  <2>2. QED
    BY <1>1, <2>1 DEF api_delete_run, delete_run, Without
<1>2. QED
  BY <1>1, TableMoves DEF AddExperiment, add_experiment, AddEvaluation, add_evaluation,
     api_delete_factor, delete_evaluation, api_patch_factor, set_survived

\* A row of evaluations stays while its run does, unless a user deletes it.
LEMMA EvaluationKept ==
  ASSUME TInv, [Next]_vars, NEW ev \in evaluations, ev.run \in RowIds',
         <<ev.run, ev.exp>> \notin pruned'
  PROVE  \E new \in evaluations' : new.run = ev.run /\ new.exp = ev.exp
<1>1. ASSUME NEW r \in RowIds, api_delete_run(r) PROVE ev \in evaluations'
  <2>1. ev.run # r
    BY <1>1, RowIdsMove
  <2>2. QED
    BY <1>1, <2>1 DEF api_delete_run, delete_run, Without
<1>2. ASSUME NEW gone \in evaluations, api_delete_factor(gone) PROVE ev \in evaluations'
  BY <1>2 DEF api_delete_factor, delete_evaluation
<1>3. ASSUME NEW old \in evaluations, NEW mark \in BOOLEAN, api_patch_factor(old, mark)
      PROVE  \E new \in evaluations' : new.run = ev.run /\ new.exp = ev.exp
  <2>1. evaluations' = (evaluations \ {old}) \cup {[old EXCEPT !.survived = mark]}
    BY <1>3 DEF api_patch_factor, set_survived
  <2>2. [old EXCEPT !.survived = mark].run = old.run
        /\ [old EXCEPT !.survived = mark].exp = old.exp
    BY DEF TInv, TypeOK, StoreTypeOK, EvaluationRow
  <2>3. QED
    BY <2>1, <2>2
<1>4. QED
  BY <1>1, <1>2, <1>3, TableMoves DEF AddExperiment, add_experiment, AddEvaluation,
     add_evaluation

\* A row that was not there is the one its job is writing, or a patched one.
LEMMA EvaluationCame ==
  ASSUME TInv, [Next]_vars, NEW ev \in evaluations'
  PROVE  \/ \E old \in evaluations : old.run = ev.run /\ old.by = ev.by /\ old.exp = ev.exp
         \/ /\ ev.by \in Jobs /\ AddEvaluation(ev.by)
            /\ ev.run = runId[ev.by] /\ ev.exp = cursor[ev.by]
<1>1. ASSUME NEW j \in Jobs, AddEvaluation(j), ev \notin evaluations
      PROVE  ev.by = j /\ ev.run = runId[j] /\ ev.exp = cursor[j]
  BY <1>1 DEF AddEvaluation, add_evaluation
<1>2. ASSUME NEW old \in evaluations, NEW mark \in BOOLEAN, api_patch_factor(old, mark),
             ev \notin evaluations
      PROVE  old.run = ev.run /\ old.by = ev.by /\ old.exp = ev.exp
  <2>1. ev = [old EXCEPT !.survived = mark]
    BY <1>2 DEF api_patch_factor, set_survived
  <2>2. QED
    BY <2>1 DEF TInv, TypeOK, StoreTypeOK, EvaluationRow
<1>3. CASE ev \in evaluations
  BY <1>3
<1>4. CASE ev \notin evaluations
  BY <1>1, <1>2, <1>4, TableMoves DEF AddExperiment, add_experiment, api_delete_run,
     delete_run, Without, api_delete_factor, delete_evaluation
<1>5. QED
  BY <1>3, <1>4

LEMMA EvaluationsNext ==
  TInv /\ PhaseInv /\ IdsInv /\ EvaluationsInv /\ WholeInv /\ [Next]_vars => EvaluationsInv'
<1> SUFFICES ASSUME TInv, PhaseInv, IdsInv, EvaluationsInv, WholeInv, [Next]_vars,
                    NEW ev \in evaluations'
             PROVE  /\ ev.run = runId'[ev.by] /\ ev.run # 0
                    /\ ev.exp \in Candidates(ev.by)'
                    /\ pc'[ev.by] \in {"report"} \cup Ended
                    /\ ev.run \in RowIds' =>
                         \E x \in experiments' : x.run = ev.run /\ x.exp = ev.exp
  BY DEF EvaluationsInv
<1>0. runId \in [Jobs -> Nat] /\ lastRunId \in Nat
  BY DEF TInv, TypeOK, JobTypeOK, StoreTypeOK
<1> DEFINE Told ==
      /\ ev.by \in Jobs /\ ev.run = runId[ev.by] /\ ev.run # 0
      /\ ev.exp \in Candidates(ev.by)
      /\ pc[ev.by] \in {"report"} \cup Ended
      /\ ev.run \in RowIds => \E x \in experiments : x.run = ev.run /\ x.exp = ev.exp
<1>1. Told
  <2>1. ASSUME NEW old \in evaluations, old.run = ev.run, old.by = ev.by, old.exp = ev.exp
        PROVE  Told
    BY <2>1 DEF EvaluationsInv, TInv, TypeOK, StoreTypeOK, EvaluationRow
  <2>2. ASSUME ev.by \in Jobs, AddEvaluation(ev.by), ev.run = runId[ev.by],
               ev.exp = cursor[ev.by]
        PROVE  Told
    <3>1. pc[ev.by] = "report" /\ ev.exp \in Candidates(ev.by)
      BY <2>2 DEF AddEvaluation
    <3>2. ev.run # 0
      BY <2>2, <3>1 DEF IdsInv
    <3>3. ev.exp \in ExpsOf(ev.by) /\ Persisted(ev.by, ev.exp)
      BY <3>1 DEF Candidates, Persisted
    <3>4. runId[ev.by] \in RowIds =>
            \E x \in experiments : x.run = runId[ev.by] /\ x.exp = ev.exp
      BY <2>2, <3>3, Zenon DEF WholeInv
    <3>5. QED
      BY <2>2, <3>1, <3>2, <3>4
  <2>3. QED
    BY <2>1, <2>2, EvaluationCame
<1>2. runId'[ev.by] = runId[ev.by]
  BY <1>1, IdKept
<1>3. exp'[ev.by][ev.exp] = exp[ev.by][ev.exp]
  BY <1>1, JobMoves DEF Candidates, Finished
<1>4. ev.exp \in Candidates(ev.by)'
  BY <1>1, <1>3 DEF Candidates, ExpsOf
<1>5. pc'[ev.by] \in {"report"} \cup Ended
  BY <1>1, JobMoves DEF Ended, PcMoves
<1>6. ASSUME ev.run \in RowIds'
      PROVE  \E x \in experiments' : x.run = ev.run /\ x.exp = ev.exp
  <2>1. ev.run \in RowIds
    BY <1>0, <1>1, <1>6, RowIdsMove DEF IdsInv
  <2>2. PICK x \in experiments : x.run = ev.run /\ x.exp = ev.exp
    BY <1>1, <2>1
  <2>3. QED
    BY <1>6, <2>2, ExperimentKept
<1>7. QED
  BY <1>1, <1>2, <1>4, <1>5, <1>6

LEMMA WholeNext ==
  TInv /\ PhaseInv /\ IdsInv /\ WholeInv /\ [Next]_vars => WholeInv'
<1> SUFFICES ASSUME TInv, PhaseInv, IdsInv, WholeInv, [Next]_vars,
                    NEW j \in Jobs, runId'[j] \in RowIds', NEW e \in ExpsOf(j)
             PROVE  /\ Persisted(j, e)' =>
                         \E x \in experiments' : x.run = runId'[j] /\ x.exp = e
                    /\ Judged(j, e)' /\ e \in Candidates(j)' /\ <<runId'[j], e>> \notin pruned' =>
                         \E ev \in evaluations' : ev.run = runId'[j] /\ ev.exp = e
  BY DEF WholeInv, ExpsOf
<1>0. runId \in [Jobs -> Nat] /\ lastRunId \in Nat
  BY DEF TInv, TypeOK, JobTypeOK, StoreTypeOK
<1>1. ASSUME pc[j] \notin {"new", "stopped", "dead"}
      PROVE  runId'[j] = runId[j] /\ runId[j] \in RowIds
  <2>1. runId[j] # 0
    BY <1>1 DEF IdsInv
  <2>2. runId'[j] = runId[j]
    BY <2>1, IdKept
  <2>3. QED
    BY <1>0, <2>2, RowIdsMove DEF IdsInv
<1>2. ASSUME Persisted(j, e)'
      PROVE  \E x \in experiments' : x.run = runId'[j] /\ x.exp = e
  <2>1. CASE Persisted(j, e)
    <3>1. runId'[j] = runId[j] /\ runId[j] \in RowIds
      BY <2>1, <1>1 DEF Persisted
    <3>2. PICK x \in experiments : x.run = runId[j] /\ x.exp = e
      BY <2>1, <3>1 DEF WholeInv
    <3>3. QED
      BY <3>1, <3>2, ExperimentKept
  <2>2. CASE AddExperiment(j) /\ cursor[j] = e
    <3> DEFINE new == [run |-> runId[j], by |-> j, exp |-> e,
                       submitted |-> exp[j][e] = "submitted"]
    <3>1. experiments' = experiments \cup {new} /\ runId' = runId
      BY <2>2 DEF AddExperiment, add_experiment
    <3>2. new.run = runId[j] /\ new.exp = e
      BY Zenon
    <3> HIDE DEF new
    <3>3. QED
      BY <3>1, <3>2
  <2>3. QED
    BY <1>2, <2>1, <2>2, LoopMoves
<1>3. ASSUME Judged(j, e)', e \in Candidates(j)', <<runId'[j], e>> \notin pruned'
      PROVE  \E ev \in evaluations' : ev.run = runId'[j] /\ ev.exp = e
  <2>1. CASE Judged(j, e)
    <3>1. runId'[j] = runId[j] /\ runId[j] \in RowIds
      BY <2>1, <1>1 DEF Judged
    <3>2. exp'[j] = exp[j]
      BY <2>1, JobMoves DEF Judged, PastGather
    <3>3. e \in Candidates(j)
      BY <1>3, <3>2 DEF Candidates
    <3>4. pruned \subseteq pruned'
      BY TableMoves DEF observed, api_delete_run, api_delete_factor, api_patch_factor
    <3>5. PICK ev \in evaluations : ev.run = runId[j] /\ ev.exp = e
      BY <1>3, <2>1, <3>1, <3>3, <3>4 DEF WholeInv
    <3>6. QED
      BY <1>3, <3>1, <3>5, EvaluationKept
  <2>2. CASE AddEvaluation(j) /\ cursor[j] = e
    <3> DEFINE new == [run |-> runId[j], by |-> j, exp |-> e, survived |-> e \in survived[j]]
    <3>1. evaluations' = evaluations \cup {new} /\ runId' = runId
      BY <2>2 DEF AddEvaluation, add_evaluation
    <3>2. new.run = runId[j] /\ new.exp = e
      BY Zenon
    <3> HIDE DEF new
    <3>3. QED
      BY <3>1, <3>2
  <2>3. CASE SkipUnsubmitted(j) /\ cursor[j] = e
    BY <1>3, <2>3 DEF SkipUnsubmitted, Candidates, expVars
  <2>4. QED
    BY <1>3, <2>1, <2>2, <2>3, LoopMoves
<1>4. QED
  BY <1>2, <1>3

BoardInv ==
  /\ TInv /\ PhaseInv
  /\ IdsInv /\ RunsInv /\ ExperimentsInv /\ EvaluationsInv /\ WholeInv

LEMMA BoardNext == BoardInv /\ [Next]_vars => BoardInv'
BY TInvNext, PhaseInvNext, IdsNext, RunsNext, ExperimentsNext, EvaluationsNext, WholeNext
DEF BoardInv

LEMMA BoardInvariant == Spec => []BoardInv
<1>1. Init => BoardInv
  BY TInvInit, PhaseInvInit, BoardInit DEF BoardInv
<1>2. QED
  BY <1>1, BoardNext, PTL DEF Spec

\* For any number of jobs and any curation: an evaluation on the leaderboard
\* joins exactly one experiment, submitted, of the job that opened the run
\* and wrote the evaluation.
THEOREM ProvenanceHolds == Spec => []BoardHasProvenance
<1>1. BoardInv => BoardHasProvenance
  <2> SUFFICES ASSUME BoardInv, NEW ev \in leaderboard
               PROVE  /\ \E row \in runs : row.id = ev.run /\ row.by = ev.by
                      /\ \E x \in JoinedExperiments(ev) :
                           /\ JoinedExperiments(ev) = {x}
                           /\ x.submitted
                           /\ x.by = ev.by
    BY DEF BoardHasProvenance
  <2>1. /\ ev \in evaluations /\ ev.by \in Jobs /\ ev.run \in RowIds
        /\ ev.run = runId[ev.by] /\ ev.run # 0 /\ ev.exp \in Candidates(ev.by)
    BY DEF leaderboard, BoardInv, EvaluationsInv, TInv, TypeOK, StoreTypeOK, EvaluationRow
  <2>2. \A k \in Jobs : runId[k] = ev.run => k = ev.by
    BY <2>1 DEF BoardInv, IdsInv
  <2>3. \E row \in runs : row.id = ev.run /\ row.by = ev.by
    <3>1. PICK row \in runs : row.id = ev.run
      BY <2>1 DEF RowIds
    <3>2. row.by \in Jobs /\ runId[row.by] = ev.run
      BY <3>1 DEF BoardInv, RunsInv, TInv, TypeOK, StoreTypeOK, RunRow
    <3>3. QED
      BY <2>2, <3>1, <3>2
  <2>4. PICK x \in experiments : x.run = ev.run /\ x.exp = ev.exp
    BY <2>1 DEF BoardInv, EvaluationsInv
  <2>5. \A y \in JoinedExperiments(ev) :
          /\ y \in ExperimentRow /\ y.run = ev.run /\ y.exp = ev.exp
          /\ y.by = ev.by /\ y.submitted = TRUE
    <3>1. SUFFICES ASSUME NEW y \in JoinedExperiments(ev)
                   PROVE  /\ y \in ExperimentRow /\ y.run = ev.run /\ y.exp = ev.exp
                          /\ y.by = ev.by /\ y.submitted = TRUE
      OBVIOUS
    <3>2. /\ y \in experiments /\ y.run = ev.run /\ y.exp = ev.exp
          /\ y \in ExperimentRow
      BY DEF JoinedExperiments, BoardInv, TInv, TypeOK, StoreTypeOK
    <3>3. y.by \in Jobs /\ y.submitted \in BOOLEAN
      BY <3>2 DEF ExperimentRow
    <3>4. y.by = ev.by
      BY <2>2, <3>2, <3>3 DEF BoardInv, ExperimentsInv
    <3>5. y.submitted
      BY <2>1, <3>2, <3>4 DEF BoardInv, ExperimentsInv, Candidates
    <3>6. QED
      BY <3>2, <3>3, <3>4, <3>5
  <2>6. x \in JoinedExperiments(ev)
    BY <2>4 DEF JoinedExperiments
  <2>7. \A y \in JoinedExperiments(ev) : y = x
    BY <2>5, <2>6 DEF ExperimentRow
  <2>8. QED
    BY <2>3, <2>5, <2>6, <2>7
<1>2. QED
  BY <1>1, BoardInvariant, PTL

\* For any number of jobs, experiments and slots, and whatever users delete:
\* a run shown as completed has a row for each of its experiments and an
\* evaluation for each submitted one no user deleted.
THEOREM CompletedRunsAreWhole == Spec => []CompletedRunIsWhole
<1>1. BoardInv => CompletedRunIsWhole
  <2> SUFFICES ASSUME BoardInv, NEW row \in runs, run_status(row) = "completed",
                      NEW e \in ExpsOf(row.by)
               PROVE  \E x \in experiments :
                        /\ x.run = row.id /\ x.exp = e
                        /\ x.submitted /\ <<row.id, e>> \notin pruned =>
                             \E ev \in evaluations : ev.run = row.id /\ ev.exp = e
    BY DEF CompletedRunIsWhole
  <2>1. /\ row.by \in Jobs /\ row.id = runId[row.by] /\ row.id \in RowIds
        /\ pc[row.by] = "done"
    BY DEF run_status, BoardInv, RunsInv, RowIds, TInv, TypeOK, StoreTypeOK, RunRow
  <2>2. PICK x \in experiments : x.run = row.id /\ x.exp = e
    <3>1. Persisted(row.by, e) /\ WholeInv
      BY <2>1 DEF BoardInv, Persisted
    <3>2. \E x \in experiments : x.run = runId[row.by] /\ x.exp = e
      BY <2>1, <3>1, Zenon DEF WholeInv
    <3>3. QED
      BY <2>1, <3>2
  <2>3. x.by \in Jobs
    BY DEF BoardInv, TInv, TypeOK, StoreTypeOK, ExperimentRow
  <2>4. x.by = row.by
    BY <2>1, <2>2, <2>3 DEF BoardInv, ExperimentsInv, IdsInv
  <2>5. x.submitted => e \in Candidates(row.by)
    BY <2>2, <2>4 DEF BoardInv, ExperimentsInv, Candidates
  <2>6. x.submitted /\ <<row.id, e>> \notin pruned =>
          \E ev \in evaluations : ev.run = row.id /\ ev.exp = e
    BY <2>1, <2>5 DEF BoardInv, WholeInv, Judged
  <2>7. QED
    BY <2>2, <2>6
<1>2. QED
  BY <1>1, BoardInvariant, PTL

(***************************************************************************)
(* The headline number.  While a job writes its report, its rows carry the *)
(* marks of the report unless a user patched one; so the set of survivors  *)
(* it counts and the marked rows have the same size when it closes.        *)
(***************************************************************************)
IsCounted(row) == pc[row.by] = "done" /\ row.id \notin stale

MarksInv ==
  /\ \A ev \in evaluations :
       pc[ev.by] = "report" /\ ev.run \notin stale =>
         (ev.survived <=> ev.exp \in survived[ev.by])
  /\ \A j \in Jobs : pc[j] = "report" => survived[j] \subseteq Candidates(j)
  /\ \A p \in pruned :
       p[1] \in stale \/ \E j \in Jobs : pc[j] = "done" /\ runId[j] = p[1]

CountInv == SurvivorCountHolds /\ MarksInv

LEMMA SurvivedMoves ==
  ASSUME TInv, [Next]_vars, NEW k \in Jobs, pc[k] = "report"
  PROVE  survived'[k] = survived[k]
<1>1. ASSUME NEW j \in Jobs, CoroutineStep(j) PROVE survived'[k] = survived[k]
  BY <1>1 DEF CoroutineStep, CreateRun, Gather, GatherRaises, AddExperiment, BeginEvaluation,
              Evaluate, AddEvaluation, SkipUnsubmitted, CloseRun, TInv, TypeOK, JobTypeOK
<1>2. TypeOK
  BY DEF TInv
<1>3. QED
  BY <1>1, <1>2, ExperimentMoves, FailsMoves, JobEndMoves
  DEF Next, JobStep, Curation, api_delete_run, api_delete_factor, api_patch_factor, jobVars, vars

LEMMA MarksNext ==
  TInv /\ PhaseInv /\ IdsInv /\ EvaluationsInv /\ MarksInv /\ [Next]_vars => MarksInv'
<1> SUFFICES ASSUME TInv, PhaseInv, IdsInv, EvaluationsInv, MarksInv, [Next]_vars
             PROVE  MarksInv'
  OBVIOUS
<1>1. ASSUME NEW j \in Jobs, pc'[j] = "report"
      PROVE  survived'[j] \subseteq Candidates(j)'
  <2>1. CASE pc[j] = "report"
    BY <2>1, SurvivedMoves, JobMoves DEF MarksInv, Candidates, PastGather
  <2>2. CASE Evaluate(j)
    <3>1. exp' = exp /\ survived'[j] \in SUBSET Candidates(j)
      BY <2>2 DEF Evaluate, Reports, expVars, TInv, TypeOK, JobTypeOK
    <3>2. QED
      BY <3>1 DEF Candidates
  <2>3. QED
    BY <1>1, <2>1, <2>2, JobMoves DEF PcMoves
<1>2. ASSUME NEW ev \in evaluations', pc'[ev.by] = "report", ev.run \notin stale'
      PROVE  ev.survived <=> ev.exp \in survived'[ev.by]
  <2>1. CASE ev \in evaluations
    <3>1. ev.by \in Jobs /\ pc[ev.by] \in {"report"} \cup Ended
      BY <2>1 DEF EvaluationsInv, TInv, TypeOK, StoreTypeOK, EvaluationRow
    <3>2. pc[ev.by] = "report"
      BY <1>2, <3>1, JobMoves DEF Ended, PcMoves
    <3>3. ev.run \notin stale
      <4>1. ASSUME NEW old \in evaluations, NEW mark \in BOOLEAN, api_patch_factor(old, mark),
                   old.run = ev.run, pc[old.by] = "done"
            PROVE  FALSE
        <5>1. old.by \in Jobs /\ runId[old.by] = runId[ev.by] /\ runId[old.by] # 0
          BY <2>1, <4>1 DEF EvaluationsInv, TInv, TypeOK, StoreTypeOK, EvaluationRow
        <5>2. QED
          BY <3>1, <3>2, <4>1, <5>1 DEF IdsInv
      <4>2. ASSUME NEW old \in evaluations, NEW mark \in BOOLEAN, api_patch_factor(old, mark)
            PROVE  stale' = IF pc[old.by] = "done" THEN stale \ {old.run} ELSE stale \cup {old.run}
        BY <4>2 DEF api_patch_factor
      <4>3. QED
        BY <1>2, <4>1, <4>2, TableMoves DEF observed, api_delete_run, api_delete_factor
    <3>4. QED
      BY <1>2, <2>1, <3>1, <3>2, <3>3, SurvivedMoves DEF MarksInv
  <2>2. ASSUME NEW j \in Jobs, AddEvaluation(j), ev \notin evaluations
        PROVE  ev.survived <=> ev.exp \in survived'[ev.by]
    <3>1. ev = [run |-> runId[j], by |-> j, exp |-> cursor[j],
                survived |-> cursor[j] \in survived[j]]
      BY <2>2 DEF AddEvaluation, add_evaluation
    <3>2. ev.by = j /\ ev.exp = cursor[j] /\ (ev.survived <=> cursor[j] \in survived[j])
      BY <3>1, Zenon
    <3>3. QED
      BY <2>2, <3>2 DEF AddEvaluation
  <2>3. ASSUME NEW old \in evaluations, NEW mark \in BOOLEAN, api_patch_factor(old, mark),
               ev \notin evaluations
        PROVE  FALSE
    <3>1. ev = [old EXCEPT !.survived = mark]
      BY <2>3 DEF api_patch_factor, set_survived
    <3>2. ev.run = old.run /\ ev.by = old.by /\ old.by \in Jobs
      BY <3>1 DEF TInv, TypeOK, StoreTypeOK, EvaluationRow
    <3>3. pc' = pc /\ (pc[old.by] # "done" => stale' = stale \cup {old.run})
      BY <2>3 DEF api_patch_factor, jobVars
    <3>4. QED
      BY <1>2, <3>2, <3>3
  <2>4. QED
    BY <2>1, <2>2, <2>3, TableMoves DEF AddExperiment, add_experiment, api_delete_run,
       delete_run, Without, api_delete_factor, delete_evaluation
<1>3. ASSUME NEW p \in pruned'
      PROVE  p[1] \in stale' \/ \E j \in Jobs : pc'[j] = "done" /\ runId'[j] = p[1]
  <2>1. ASSUME NEW j \in Jobs, pc[j] = "done" PROVE pc'[j] = "done" /\ runId'[j] = runId[j]
    BY <2>1, JobMoves, IdKept DEF PcMoves, IdsInv
  <2>2. ASSUME NEW ev \in evaluations, api_delete_factor(ev) PROVE p \in pruned \/ p[1] \in stale'
    BY <2>2 DEF api_delete_factor
  <2>3. ASSUME NEW ev \in evaluations, NEW mark \in BOOLEAN, api_patch_factor(ev, mark)
        PROVE  /\ p \in pruned
               /\ p[1] \in stale => p[1] \in stale' \/ (pc[ev.by] = "done" /\ runId[ev.by] = p[1])
    BY <2>3 DEF api_patch_factor, EvaluationsInv
  <2>4. ASSUME NEW ev \in evaluations PROVE ev.by \in Jobs
    BY <2>4 DEF TInv, TypeOK, StoreTypeOK, EvaluationRow
  <2>5. CASE UNCHANGED observed
    BY <2>1, <2>5 DEF MarksInv, observed
  <2>6. ASSUME NEW ev \in evaluations, api_delete_factor(ev)
        PROVE  p[1] \in stale' \/ \E j \in Jobs : pc'[j] = "done" /\ runId'[j] = p[1]
    <3>1. stale \subseteq stale'
      BY <2>6 DEF api_delete_factor
    <3>2. QED
      BY <2>1, <2>2, <2>6, <3>1 DEF MarksInv
  <2>7. ASSUME NEW ev \in evaluations, NEW mark \in BOOLEAN, api_patch_factor(ev, mark)
        PROVE  p[1] \in stale' \/ \E j \in Jobs : pc'[j] = "done" /\ runId'[j] = p[1]
    BY <2>1, <2>3, <2>4, <2>7 DEF MarksInv
  <2>8. QED
    BY <2>5, <2>6, <2>7, TableMoves DEF api_delete_run
<1>4. QED
  BY <1>1, <1>2, <1>3 DEF MarksInv

\* What CloseRun writes is what the table says.
LEMMA ClosingCount ==
  ASSUME BoardInv, MarksInv, NEW j \in Jobs, CloseRun(j),
         runId[j] \in RowIds, runId[j] \notin stale
  PROVE  Cardinality(survived[j]) = Cardinality(SurvivedOf(evaluations, runId[j]))
<1> USE DEF BoardInv
<1> DEFINE Marked == SurvivedOf(evaluations, runId[j])
           f == [ev \in Marked |-> ev.exp]
<1>1. pc[j] = "report" /\ cursor[j] = NExp[j] /\ survived[j] \subseteq Candidates(j)
  BY DEF CloseRun, MarksInv
<1>11. ASSUME NEW e \in Exps PROVE <<runId[j], e>> \notin pruned
  <2> SUFFICES ASSUME <<runId[j], e>> \in pruned PROVE FALSE
    OBVIOUS
  <2>1. PICK k \in Jobs : pc[k] = "done" /\ runId[k] = runId[j]
    BY DEF MarksInv
  <2>2. QED
    BY <1>1, <2>1 DEF IdsInv
<1>2. \A ev \in evaluations :
         /\ ev \in EvaluationRow /\ ev.by \in Jobs
         /\ ev.run = runId[j] => /\ ev.by = j
                                 /\ ev.survived <=> ev.exp \in survived[j]
  <2> SUFFICES ASSUME NEW ev \in evaluations
               PROVE  /\ ev \in EvaluationRow /\ ev.by \in Jobs
                      /\ ev.run = runId[j] => /\ ev.by = j
                                              /\ ev.survived <=> ev.exp \in survived[j]
    OBVIOUS
  <2>1. ev \in EvaluationRow /\ ev.by \in Jobs
    BY DEF TInv, TypeOK, StoreTypeOK, EvaluationRow
  <2>2. ev.run = runId[j] => ev.by = j
    BY <2>1 DEF EvaluationsInv, IdsInv
  <2>3. QED
    BY <1>1, <2>1, <2>2 DEF MarksInv
<1>3. f \in [Marked -> survived[j]]
  BY <1>2 DEF SurvivedOf
<1>4. \A a, b \in Marked : f[a] = f[b] => a = b
  <2> SUFFICES ASSUME NEW a \in Marked, NEW b \in Marked, a.exp = b.exp PROVE a = b
    OBVIOUS
  <2>1. /\ a \in EvaluationRow /\ b \in EvaluationRow
        /\ a.run = b.run /\ a.by = b.by /\ a.survived = TRUE /\ b.survived = TRUE
    BY <1>2 DEF SurvivedOf, EvaluationRow
  <2>2. QED
    BY <2>1 DEF EvaluationRow
<1>5. \A e \in survived[j] : \E ev \in Marked : f[ev] = e
  <2> SUFFICES ASSUME NEW e \in survived[j] PROVE \E ev \in Marked : ev.exp = e
    OBVIOUS
  <2>1. e \in Candidates(j) /\ e \in ExpsOf(j) /\ e \in Exps
    BY <1>1, ExpsOfSubset DEF Candidates
  <2>2. e < NExp[j]
    BY <2>1, NExpAssumption DEF ExpsOf
  <2>3. Judged(j, e)
    BY <1>1, <2>2 DEF Judged
  <2>4. \E ev \in evaluations : ev.run = runId[j] /\ ev.exp = e
    BY <1>11, <2>1, <2>3, Zenon DEF WholeInv
  <2>5. QED
    BY <1>2, <2>4 DEF SurvivedOf
<1>6. IsFiniteSet(survived[j])
  BY <1>1, ExpsFinite, ExpsOfSubset, FS_Subset DEF Candidates
<1> HIDE DEF Marked, f
<1>7. f \in Bijection(Marked, survived[j])
  BY <1>3, <1>4, <1>5, Fun_IsBij
<1>8. ExistsBijection(Marked, survived[j])
  BY <1>7, Fun_ExistsBij
<1>9. IsFiniteSet(Marked)
  BY FS_Subset DEF TInv, Marked, SurvivedOf
<1>10. QED
  BY <1>8, <1>9, FS_Bijection DEF Marked

LEMMA CountNext == BoardInv /\ MarksInv /\ SurvivorCountHolds /\ [Next]_vars => SurvivorCountHolds'
<1> SUFFICES ASSUME BoardInv, MarksInv, SurvivorCountHolds, [Next]_vars,
                    NEW row \in runs', IsCounted(row)'
             PROVE  row.nSurvivors = Cardinality(SurvivedOf(evaluations, row.id)')
  BY DEF SurvivorCountHolds, IsCounted, SurvivedOf
<1> USE DEF BoardInv
<1> DEFINE Goal == row.nSurvivors = Cardinality(SurvivedOf(evaluations, row.id)')
<1>0. /\ \A old \in runs : old \in RunRow /\ old.by \in Jobs
      /\ \A old \in runs : old.id = runId[old.by]
      /\ pc \in [Jobs -> PCs]
      /\ \A ev \in evaluations : ev \in EvaluationRow /\ ev.by \in Jobs /\ ev.run = runId[ev.by]
  BY DEF TInv, TypeOK, JobTypeOK, StoreTypeOK, RunRow, RunsInv, EvaluationRow, EvaluationsInv
<1>1. ASSUME row \in runs, pc[row.by] = "done", row.id \notin stale,
             SurvivedOf(evaluations, row.id)' = SurvivedOf(evaluations, row.id)
      PROVE  Goal
  BY <1>1 DEF IsCounted, SurvivorCountHolds
<1>2. ASSUME NEW j \in Jobs, Opens(j), UNCHANGED observed PROVE Goal
  <2>0. create_run(j) /\ evaluations' = evaluations
        /\ \E s \in {"gather", "stopped"} : pc' = [pc EXCEPT ![j] = s]
    BY <1>2, OpensMoves DEF TInv
  <2>1. pc'[j] # "done" /\ \A k \in Jobs \ {j} : pc'[k] = pc[k]
    BY <1>0, <2>0
  <2>2. row \in runs \/ row = [id |-> NextRunId, by |-> j, pbo |-> Null, nSurvivors |-> 0]
    BY <2>0 DEF create_run
  <2>3. row \in runs /\ pc[row.by] = "done"
    BY <1>0, <2>1, <2>2 DEF IsCounted
  <2>4. QED
    BY <1>1, <1>2, <2>0, <2>3 DEF IsCounted, observed, SurvivedOf
<1>3. ASSUME NEW j \in Jobs, CloseRun(j), UNCHANGED observed PROVE Goal
  <2> DEFINE Closed(old) == IF old.id = runId[j]
                              THEN [old EXCEPT !.pbo = pbo[j],
                                               !.nSurvivors = Cardinality(survived[j])]
                              ELSE old
  <2>1. /\ runs' = {Closed(old) : old \in runs} /\ evaluations' = evaluations
        /\ \A k \in Jobs \ {j} : pc'[k] = pc[k]
    BY <1>0, <1>3 DEF CloseRun, update_run, Goto
  <2>2. PICK old \in runs : row = Closed(old)
    BY <2>1
  <2>3. CASE old.id = runId[j]
    <3>1. row.id = runId[j] /\ row.nSurvivors = Cardinality(survived[j])
      BY <1>0, <2>2, <2>3 DEF RunRow
    <3>2. runId[j] \in RowIds
      BY <2>3 DEF RowIds
    <3>3. runId[j] \notin stale
      BY <1>3, <3>1 DEF IsCounted, observed
    <3>4. Cardinality(survived[j]) = Cardinality(SurvivedOf(evaluations, runId[j]))
      BY <1>3, <3>2, <3>3, ClosingCount
    <3>5. QED
      BY <2>1, <3>1, <3>4 DEF SurvivedOf
  <2>4. CASE old.id # runId[j]
    <3>1. row \in runs /\ row.by # j /\ row.by \in Jobs
      BY <1>0, <2>2, <2>4
    <3>2. QED
      BY <1>1, <1>3, <2>1, <3>1 DEF IsCounted, observed, SurvivedOf
  <2>5. QED
    BY <2>3, <2>4
<1>4. ASSUME NEW j \in Jobs, AddEvaluation(j), UNCHANGED observed PROVE Goal
  <2> DEFINE new == [run |-> runId[j], by |-> j, exp |-> cursor[j],
                     survived |-> cursor[j] \in survived[j]]
  <2>1. /\ runs' = runs /\ evaluations' = evaluations \cup {new} /\ pc' = pc
        /\ pc[j] = "report" /\ new.run = runId[j]
    BY <1>4 DEF AddEvaluation, add_evaluation
  <2> HIDE DEF new
  <2>2. row \in runs /\ pc[row.by] = "done" /\ row.by \in Jobs /\ row.by # j
    BY <1>0, <2>1 DEF IsCounted
  <2>3. runId[j] # row.id
    BY <1>0, <2>1, <2>2 DEF IdsInv
  <2>4. SurvivedOf(evaluations, row.id)' = SurvivedOf(evaluations, row.id)
    BY <2>1, <2>3 DEF SurvivedOf
  <2>5. QED
    BY <1>1, <1>4, <2>2, <2>4 DEF IsCounted, observed
<1>5. ASSUME NEW r \in RowIds, api_delete_run(r) PROVE Goal
  <2>1. row \in runs /\ row.id # r /\ pc' = pc /\ evaluations' = Without(evaluations, r)
    BY <1>5 DEF api_delete_run, delete_run, jobVars
  <2>2. SurvivedOf(evaluations, row.id)' = SurvivedOf(evaluations, row.id)
    BY <2>1 DEF SurvivedOf, Without
  <2>3. QED
    BY <1>1, <1>5, <2>1, <2>2 DEF IsCounted, api_delete_run, observed
<1>6. ASSUME NEW ev \in evaluations, api_delete_factor(ev) PROVE Goal
  <2>1. /\ runs' = runs /\ pc' = pc /\ stale' = stale \cup {ev.run}
        /\ evaluations' = evaluations \ {ev}
    BY <1>6 DEF api_delete_factor, delete_evaluation, jobVars
  <2>2. ev.run # row.id /\ IsCounted(row)
    BY <2>1 DEF IsCounted
  <2>3. SurvivedOf(evaluations, row.id)' = SurvivedOf(evaluations, row.id)
    BY <2>1, <2>2 DEF SurvivedOf
  <2>4. QED
    BY <2>1, <2>2, <2>3 DEF IsCounted, SurvivorCountHolds
<1>7. ASSUME NEW ev \in evaluations, NEW mark \in BOOLEAN, api_patch_factor(ev, mark) PROVE Goal
  <2> DEFINE n == Cardinality(SurvivedOf(evaluations', ev.run))
             Patched(old) == IF old.id = ev.run THEN [old EXCEPT !.nSurvivors = n] ELSE old
  <2>1. /\ runs' = {Patched(old) : old \in runs} /\ pc' = pc
        /\ evaluations' = (evaluations \ {ev}) \cup {[ev EXCEPT !.survived = mark]}
        /\ stale \subseteq stale' \cup {ev.run}
    BY <1>7 DEF api_patch_factor, set_survived, jobVars
  <2>2. PICK old \in runs : row = Patched(old)
    BY <2>1
  <2>3. CASE old.id = ev.run
    <3> HIDE DEF n
    <3>1. row.id = ev.run /\ row.nSurvivors = n
      BY <1>0, <2>2, <2>3 DEF RunRow
    <3>2. QED
      BY <3>1 DEF n, SurvivedOf
  <2>4. CASE old.id # ev.run
    <3>1. row = old
      BY <2>2, <2>4
    <3>2. [ev EXCEPT !.survived = mark].run = ev.run
      BY <1>0 DEF EvaluationRow
    <3> DEFINE new == [ev EXCEPT !.survived = mark]
    <3> HIDE DEF new
    <3>6. evaluations' = (evaluations \ {ev}) \cup {new} /\ new.run = ev.run
      BY <2>1, <3>2 DEF new
    <3>3. SurvivedOf(evaluations, row.id)' = SurvivedOf(evaluations, row.id)
      BY <2>4, <3>1, <3>6 DEF SurvivedOf
    <3>4. IsCounted(row)
      BY <2>1, <2>4, <3>1 DEF IsCounted
    <3>5. QED
      BY <3>1, <3>3, <3>4 DEF IsCounted, SurvivorCountHolds
  <2>5. QED
    BY <2>3, <2>4
<1>8. ASSUME UNCHANGED <<runs, evaluations, observed>>,
             \A j \in Jobs : ~CloseRun(j)
      PROVE  Goal
  <2>1. row \in runs /\ row.by \in Jobs
    BY <1>0, <1>8
  <2>2. pc[row.by] = "done"
    BY <1>8, <2>1, JobMoves DEF IsCounted, PcMoves
  <2>3. QED
    BY <1>1, <1>8, <2>1, <2>2 DEF IsCounted, observed, SurvivedOf
<1>9. ASSUME NEW j \in Jobs, AddExperiment(j) PROVE UNCHANGED <<runs, evaluations>>
  BY <1>9 DEF AddExperiment, add_experiment
<1>10. (\E j \in Jobs : Opens(j) \/ CloseRun(j)) => UNCHANGED observed
  <2>1. ASSUME NEW j \in Jobs, Opens(j) \/ CloseRun(j) PROVE pc' # pc
    BY <1>0, <2>1, OpensMoves DEF CloseRun, Goto, TInv
  <2>2. QED
    BY <2>1 DEF Next, Curation, api_delete_run, api_delete_factor, api_patch_factor, jobVars, vars
<1>11. QED
  BY <1>2, <1>3, <1>4, <1>5, <1>6, <1>7, <1>8, <1>9, <1>10, RunMoves, TableMoves

LEMMA CountInvariant == Spec => [](BoardInv /\ CountInv)
<1>1. Init => CountInv
  BY DEF Init, StoreInit, JobInit, CountInv, MarksInv, SurvivorCountHolds
<1>2. BoardInv /\ CountInv /\ [Next]_vars => CountInv'
  BY CountNext, MarksNext DEF BoardInv, CountInv
<1>3. QED
  BY <1>1, <1>2, BoardInvariant, PTL DEF Spec

\* For any number of jobs and experiments, n_survivors of a closed run counts
\* its marked evaluations, unless the last curation of the run was a deletion,
\* or a patch that closing the run overwrote.
THEOREM SurvivorCountsHold == Spec => []SurvivorCountHolds
<1>1. CountInv => SurvivorCountHolds
  BY DEF CountInv
<1>2. QED
  BY <1>1, CountInvariant, PTL

(***************************************************************************)
(* The refinement.  The journal of a job stays behind its cursor and names *)
(* every evaluation the job wrote, so an evaluation is written once.       *)
(***************************************************************************)
JournalInv ==
  /\ \A j \in Jobs : pc[j] = "report" => \A e \in journal[j] : e < cursor[j]
  /\ \A ev \in evaluations : ev.exp \in journal[ev.by]
  /\ \A a, b \in evaluations : a.run = b.run /\ a.exp = b.exp => a = b

LEMMA JournalMoves ==
  ASSUME TInv, PhaseInv, [Next]_vars
  PROVE  \/ \E j \in Jobs : AddEvaluation(j)
         \/ /\ journal' = journal
            /\ \A j \in Jobs : pc'[j] = "report" =>
                 \/ pc[j] = "report" /\ cursor[j] <= cursor'[j]
                 \/ journal[j] = {}
<1>0. (\A c \in Int : c <= c /\ c <= c + 1) /\ TypeOK
  BY DEF TInv
<1> USE DEF TInv, TypeOK, JobTypeOK, PCs, Ended, Goto
<1> DEFINE Goal == /\ journal' = journal
                   /\ \A j \in Jobs : pc'[j] = "report" =>
                        \/ pc[j] = "report" /\ cursor[j] <= cursor'[j]
                        \/ journal[j] = {}
<1>1. \A j \in Jobs : /\ pc[j] \notin {"report"} \cup Ended => journal[j] = {}
                     /\ cursor[j] \in Int
  BY DEF PhaseInv
<1>2. ASSUME NEW k \in Jobs, CoroutineStep(k), ~AddEvaluation(k), ~SkipUnsubmitted(k)
      PROVE  Goal
  <2>1. /\ journal' = journal
        /\ \A j \in Jobs : pc'[j] = "report" =>
             \/ pc[j] = "report" /\ cursor[j] = cursor'[j]
             \/ pc[j] = "evaluate"
    BY <1>2 DEF CoroutineStep, CreateRun, Gather, GatherRaises, AddExperiment, BeginEvaluation,
                Evaluate, CloseRun
  <2>2. ASSUME NEW j \in Jobs, pc'[j] = "report", pc[j] # "report" PROVE journal[j] = {}
    BY <1>1, <2>1, <2>2
  <2>3. ASSUME NEW j \in Jobs, cursor[j] = cursor'[j] PROVE cursor[j] <= cursor'[j]
    BY <1>0, <1>1, <2>3, Zenon
  <2>4. QED
    BY <2>1, <2>2, <2>3, Zenon
<1>3. ASSUME NEW k \in Jobs, SkipUnsubmitted(k) PROVE Goal
  <2>1. journal' = journal /\ pc' = pc /\ cursor' = [cursor EXCEPT ![k] = @ + 1]
    BY <1>3 DEF SkipUnsubmitted
  <2>2. \A j \in Jobs : cursor[j] \in Int /\ (cursor'[j] = cursor[j] \/ cursor'[j] = cursor[j] + 1)
    BY <2>1
  <2>3. \A j \in Jobs : cursor[j] <= cursor'[j]
    BY <2>2, <1>0, Zenon
  <2>4. QED
    BY <2>1, <2>3
<1>4. ASSUME UNCHANGED <<journal, cursor>>,
             \A j \in Jobs : pc'[j] \in {pc[j], "stopped", "dead", "cancelling"}
      PROVE  Goal
  <2>1. ASSUME NEW j \in Jobs, pc'[j] = "report"
        PROVE  pc[j] = "report" /\ cursor[j] <= cursor'[j]
    <3>1. cursor[j] = cursor'[j] /\ cursor[j] \in Int
      BY <1>1, <1>4
    <3>2. QED
      BY <1>0, <1>4, <2>1, <3>1
  <2>2. QED
    BY <1>4, <2>1
<1>5. ASSUME NEW j \in Jobs, NEW d \in ExpsOf(j), ExperimentStep(j, d) PROVE Goal
  <2>1. /\ UNCHANGED <<journal, cursor>>
        /\ pc' = pc \/ pc' = [pc EXCEPT ![j] = "stopped"]
    BY <1>0, <1>5, ExperimentMoves
  <2>2. QED
    BY <1>4, <2>1
<1>9. ASSUME NEW j \in Jobs, FailsToStart(j) PROVE Goal
  <2>1. UNCHANGED <<journal, cursor>> /\ pc' = [pc EXCEPT ![j] = "stopped"]
    BY <1>0, <1>9, FailsMoves
  <2>2. QED
    BY <1>4, <2>1
<1>6. ASSUME JobEnd PROVE Goal
  <2>1. /\ UNCHANGED <<journal, cursor>>
        /\ \A j \in Jobs : pc'[j] \in {pc[j], "stopped", "dead", "cancelling"}
    BY <1>0, <1>6, JobEndMoves
  <2>2. QED
    BY <1>4, <2>1
<1>7. ASSUME Curation \/ UNCHANGED vars PROVE Goal
  BY <1>4, <1>7 DEF Curation, api_delete_run, api_delete_factor, api_patch_factor, jobVars, vars
<1>8. QED
  BY <1>2, <1>3, <1>5, <1>6, <1>7, <1>9 DEF Next, JobStep, CoroutineStep

\* The evaluation a job is about to write is new, to its table and its journal.
LEMMA EvaluationIsNew ==
  ASSUME BoardInv, JournalInv, NEW j \in Jobs, AddEvaluation(j)
  PROVE  /\ cursor[j] \notin journal[j]
         /\ \A ev \in evaluations : ~(ev.run = runId[j] /\ ev.exp = cursor[j])
<1>1. pc[j] = "report" /\ cursor[j] \in Nat
  BY DEF AddEvaluation, BoardInv, TInv, TypeOK, JobTypeOK
<1>2. cursor[j] \notin journal[j]
  BY <1>1 DEF JournalInv
<1>3. ASSUME NEW ev \in evaluations, ev.run = runId[j] PROVE ev.exp # cursor[j]
  <2>1. ev.by \in Jobs /\ runId[ev.by] = runId[j] /\ runId[j] # 0
    BY <1>3 DEF BoardInv, EvaluationsInv, TInv, TypeOK, StoreTypeOK, EvaluationRow
  <2>2. ev.by = j
    BY <2>1 DEF BoardInv, IdsInv
  <2>3. QED
    BY <1>2, <2>2 DEF JournalInv
<1>4. QED
  BY <1>2, <1>3

LEMMA JournalNext == BoardInv /\ JournalInv /\ [Next]_vars => JournalInv'
<1> SUFFICES ASSUME BoardInv, JournalInv, [Next]_vars PROVE JournalInv'
  OBVIOUS
<1>0. /\ cursor \in [Jobs -> 0 .. MaxExp] /\ journal \in [Jobs -> SUBSET Exps]
      /\ \A ev \in evaluations : ev \in EvaluationRow /\ ev.by \in Jobs
      /\ \A j \in Jobs, e \in Exps : e \in Int /\ cursor[j] \in Int
  BY NExpAssumption DEF BoardInv, TInv, TypeOK, JobTypeOK, StoreTypeOK, EvaluationRow, Exps
<1>1. ASSUME NEW j \in Jobs, AddEvaluation(j) PROVE JournalInv'
  <2> DEFINE new == [run |-> runId[j], by |-> j, exp |-> cursor[j],
                     survived |-> cursor[j] \in survived[j]]
  <2>1. /\ evaluations' = evaluations \cup {new}
        /\ journal' = [journal EXCEPT ![j] = @ \cup {cursor[j]}]
        /\ cursor' = [cursor EXCEPT ![j] = @ + 1]
        /\ pc' = pc
        /\ new.run = runId[j] /\ new.by = j /\ new.exp = cursor[j]
    BY <1>1 DEF AddEvaluation, add_evaluation
  <2> HIDE DEF new
  <2>2. ASSUME NEW k \in Jobs, pc'[k] = "report", NEW e \in journal'[k]
        PROVE  e < cursor'[k]
    <3>1. CASE k # j
      BY <1>0, <2>1, <2>2, <3>1 DEF JournalInv
    <3>2. CASE k = j
      <4>1. cursor'[j] = cursor[j] + 1 /\ cursor[j] \in Int
        BY <1>0, <2>1
      <4>2. e = cursor[j] \/ (e \in journal[j] /\ e \in Int /\ e < cursor[j])
        BY <1>0, <2>1, <2>2, <3>2 DEF JournalInv
      <4>3. QED
        BY <3>2, <4>1, <4>2
    <3>3. QED
      BY <3>1, <3>2
  <2>3. \A ev \in evaluations' : ev.exp \in journal'[ev.by]
    BY <1>0, <2>1 DEF JournalInv
  <2>4. \A a, b \in evaluations' : a.run = b.run /\ a.exp = b.exp => a = b
    BY <1>1, <2>1, EvaluationIsNew DEF JournalInv
  <2>5. QED
    BY <2>2, <2>3, <2>4 DEF JournalInv
<1>2. ASSUME \A j \in Jobs : ~AddEvaluation(j) PROVE JournalInv'
  <2>1. /\ journal' = journal
        /\ \A j \in Jobs : pc'[j] = "report" =>
             \/ pc[j] = "report" /\ cursor[j] <= cursor'[j]
             \/ journal[j] = {}
    BY <1>2, JournalMoves DEF BoardInv
  <2>2. cursor' \in [Jobs -> 0 .. MaxExp]
    BY TInvNext DEF BoardInv, TInv, TypeOK, JobTypeOK
  <2>3. ASSUME NEW k \in Jobs, pc'[k] = "report", NEW e \in journal'[k]
        PROVE  e < cursor'[k]
    <3>1. e \in journal[k] /\ e \in Int /\ cursor[k] \in Int /\ cursor'[k] \in Int
      BY <1>0, <2>1, <2>2, <2>3
    <3>2. e < cursor[k] /\ cursor[k] <= cursor'[k]
      BY <2>1, <2>3, <3>1 DEF JournalInv
    <3>3. QED
      BY <3>1, <3>2
  <2>4. \/ evaluations' \subseteq evaluations
        \/ \E ev \in evaluations, mark \in BOOLEAN : api_patch_factor(ev, mark)
    BY <1>2, TableMoves DEF BoardInv, AddExperiment, add_experiment, api_delete_run, delete_run,
       Without, api_delete_factor, delete_evaluation
  <2>5. CASE evaluations' \subseteq evaluations
    BY <2>1, <2>3, <2>5 DEF JournalInv
  <2>6. ASSUME NEW old \in evaluations, NEW mark \in BOOLEAN, api_patch_factor(old, mark)
        PROVE  JournalInv'
    <3> DEFINE new == [old EXCEPT !.survived = mark]
    <3>1. /\ evaluations' = (evaluations \ {old}) \cup {new}
          /\ new.run = old.run /\ new.by = old.by /\ new.exp = old.exp
      BY <1>0, <2>6 DEF api_patch_factor, set_survived, EvaluationRow
    <3> HIDE DEF new
    <3>2. \A ev \in evaluations' : ev.exp \in journal'[ev.by]
      BY <2>1, <3>1 DEF JournalInv
    <3>3. \A a, b \in evaluations' : a.run = b.run /\ a.exp = b.exp => a = b
      BY <3>1 DEF JournalInv
    <3>4. QED
      BY <2>3, <3>2, <3>3 DEF JournalInv
  <2>7. QED
    BY <2>4, <2>5, <2>6
<1>3. QED
  BY <1>1, <1>2

\* The mapped variables, named.
ShownStatus == [r \in 1 .. lastRunId |-> Shown(r)]
BoardPairs == {<<ev.run, ev.exp>> : ev \in leaderboard}
Spent == UNION {{<<runId[j], e>> : e \in journal[j]} : j \in Jobs}

ShownOf == \A row \in runs : Shown(row.id) = run_status(row)

LEMMA ShownIs == BoardInv => ShownOf
<1> SUFFICES ASSUME BoardInv PROVE \A row \in runs : Shown(row.id) = run_status(row)
  BY DEF ShownOf
<1>1. ASSUME NEW row \in runs PROVE Shown(row.id) = run_status(row)
  <2>1. row.id \in RowIds /\ \A other \in runs : other.id = row.id => other = row
    BY DEF RowIds, BoardInv, RunsInv
  <2>2. (CHOOSE other \in runs : other.id = row.id) = row
    BY <2>1
  <2>3. QED
    BY <2>1, <2>2 DEF Shown
<1>2. QED
  BY <1>1

LEMMA ShownIsNext == BoardInv' => ShownOf'
BY ShownIs, PTL

LEMMA SpentIs ==
  /\ \A p : p \in Spent <=> \E j \in Jobs : \E e \in journal[j] : p = <<runId[j], e>>
  /\ \A p : p \in Spent' <=> \E j \in Jobs : \E e \in journal'[j] : p = <<runId'[j], e>>
BY DEF Spent

LEMMA RowIdsInRange ==
  ASSUME BoardInv
  PROVE  /\ lastRunId \in Nat /\ RowIds \subseteq 1 .. lastRunId
         /\ \A j \in Jobs : pc[j] = "report" => runId[j] \in 1 .. lastRunId
         /\ \A ev \in evaluations : ev.run \in 1 .. lastRunId /\ ev.exp \in Exps
<1>1. /\ lastRunId \in Nat /\ runId \in [Jobs -> Nat]
      /\ \A row \in runs : row.by \in Jobs
      /\ \A ev \in evaluations : ev.by \in Jobs /\ ev.exp \in Exps
  BY DEF BoardInv, TInv, TypeOK, StoreTypeOK, JobTypeOK, RunRow, EvaluationRow
<1>2. \A j \in Jobs : runId[j] # 0 => runId[j] \in 1 .. lastRunId
  BY <1>1 DEF BoardInv, IdsInv
<1>3. QED
  BY <1>1, <1>2 DEF BoardInv, IdsInv, RunsInv, EvaluationsInv, RowIds

\* A step that keeps the ids and the pbo of every row keeps what is shown.
LEMMA StatusKept ==
  ASSUME BoardInv, BoardInv', lastRunId' = lastRunId, RowIds' = RowIds,
         NEW r \in 1 .. lastRunId,
         \A new \in runs' : new.id = r => \E old \in runs : old.id = r /\ old.pbo = new.pbo
  PROVE  Shown(r)' = Shown(r)
<1>1. CASE r \notin RowIds
  BY <1>1 DEF Shown
<1>2. CASE r \in RowIds
  <2>1. PICK new \in runs' : new.id = r
    BY <1>2 DEF RowIds
  <2>2. PICK old \in runs : old.id = r /\ old.pbo = new.pbo
    BY <2>1
  <2>3. Shown(r) = run_status(old)
    BY <2>2, ShownIs DEF ShownOf
  <2>4. Shown(r)' = run_status(new)'
    BY <2>1, ShownIsNext DEF ShownOf
  <2>5. QED
    BY <2>2, <2>3, <2>4 DEF run_status
<1>3. QED
  BY <1>1, <1>2

LEMMA OpenStep ==
  ASSUME BoardInv, BoardInv', JournalInv, NEW j \in Jobs, Opens(j)
  PROVE  Lifecycle!Open
<1> DEFINE new == [id |-> lastRunId + 1, by |-> j, pbo |-> Null, nSurvivors |-> 0]
<1>1. /\ runs' = runs \cup {new} /\ lastRunId' = lastRunId + 1
      /\ evaluations' = evaluations /\ journal' = journal
      /\ runId' = [runId EXCEPT ![j] = lastRunId + 1]
      /\ pc[j] = "new"
      /\ new.id = lastRunId + 1 /\ new.pbo = Null
  BY OpensMoves DEF create_run, NextRunId, BoardInv, TInv
<1> HIDE DEF new
<1>2. RowIds' = RowIds \cup {lastRunId + 1}
  BY <1>1 DEF RowIds
<1>3. /\ lastRunId \in Nat /\ RowIds \subseteq 1 .. lastRunId
      /\ \A ev \in evaluations : ev.run \in 1 .. lastRunId
      /\ runId \in [Jobs -> Nat] /\ journal[j] = {}
  BY <1>1, RowIdsInRange DEF BoardInv, TInv, TypeOK, JobTypeOK, PhaseInv, Ended
<1>4. ASSUME NEW r \in 1 .. lastRunId PROVE Shown(r)' = Shown(r)
  <2>1. CASE r \notin RowIds
    <3>1. r \notin RowIds'
      BY <1>2, <1>3, <2>1
    <3>2. QED
      BY <2>1, <3>1 DEF Shown
  <2>2. CASE r \in RowIds
    <3>1. PICK row \in runs : row.id = r
      BY <2>2 DEF RowIds
    <3>2. row \in runs'
      BY <1>1
    <3>3. QED
      BY <3>1, <3>2, ShownIs, ShownIsNext DEF ShownOf, run_status
  <2>3. QED
    BY <2>1, <2>2
<1>5. ASSUME NEW r, r = lastRunId + 1 PROVE Shown(r)' = "running"
  <2>1. PICK row \in runs' : row = new
    BY <1>1
  <2>2. row.id = r /\ run_status(row)' = "running"
    BY <1>1, <1>5, <2>1 DEF run_status
  <2>3. QED
    BY <2>2, ShownIsNext DEF ShownOf
<1>6. ShownStatus' = [r \in 1 .. lastRunId + 1 |->
                        IF r = lastRunId + 1 THEN "running" ELSE ShownStatus[r]]
  <2>1. ShownStatus' = [r \in 1 .. lastRunId + 1 |-> Shown(r)']
    BY <1>1 DEF ShownStatus
  <2>2. ASSUME NEW r \in 1 .. lastRunId + 1
        PROVE  Shown(r)' = IF r = lastRunId + 1 THEN "running" ELSE ShownStatus[r]
    <3>1. r = lastRunId + 1 \/ r \in 1 .. lastRunId
      BY <1>3
    <3>2. CASE r = lastRunId + 1
      BY <1>5, <3>2
    <3>3. CASE r # lastRunId + 1
      BY <1>4, <3>1, <3>3 DEF ShownStatus
    <3>4. QED
      BY <3>2, <3>3
  <2>3. QED
    BY <2>1, <2>2
<1>7. BoardPairs' = BoardPairs
  <2>1. leaderboard' = leaderboard
    BY <1>1, <1>2, <1>3 DEF leaderboard
  <2>2. QED
    BY <2>1 DEF BoardPairs
<1>8. Spent' = Spent
  <2>1. ASSUME NEW k \in Jobs, NEW e \in journal[k] PROVE runId'[k] = runId[k]
    BY <1>1, <1>3, <2>1
  <2>2. QED
    BY <1>1, <2>1 DEF Spent
<1>9. QED
  BY <1>1, <1>6, <1>7, <1>8 DEF Lifecycle!Open, ShownStatus, BoardPairs, Spent

LEMMA RevealStep ==
  ASSUME BoardInv, BoardInv', JournalInv, NEW j \in Jobs, AddEvaluation(j)
  PROVE  \E r \in 1 .. lastRunId : \E x \in Exps : Lifecycle!Reveal(r, x)
<1> DEFINE new == [run |-> runId[j], by |-> j, exp |-> cursor[j],
                   survived |-> cursor[j] \in survived[j]]
<1>1. /\ evaluations' = evaluations \cup {new}
      /\ journal' = [journal EXCEPT ![j] = @ \cup {cursor[j]}]
      /\ UNCHANGED <<runs, runId, lastRunId>>
      /\ new.run = runId[j] /\ new.exp = cursor[j]
      /\ pc[j] = "report"
  BY DEF AddEvaluation, add_evaluation
<1> HIDE DEF new
<1>2. /\ runId[j] \in 1 .. lastRunId /\ cursor[j] \in Exps
      /\ cursor[j] \notin journal[j]
      /\ journal \in [Jobs -> SUBSET Exps]
  BY <1>1, RowIdsInRange, EvaluationIsNew, ExpsOfSubset
  DEF AddEvaluation, Candidates, BoardInv, TInv, TypeOK, JobTypeOK
<1>3. PICK r \in 1 .. lastRunId, x \in Exps : r = runId[j] /\ x = cursor[j]
  BY <1>2
<1>4. RowIds' = RowIds /\ (r \in RowIds => Shown(r) = "running")
  <2>1. RowIds' = RowIds
    BY <1>1 DEF RowIds
  <2>2. ASSUME NEW row \in runs, row.id = r PROVE Shown(r) = "running"
    <3>1. row.by \in Jobs /\ runId[row.by] = runId[j] /\ runId[j] # 0
      BY <1>2, <1>3, <2>2 DEF BoardInv, RunsInv, TInv, TypeOK, StoreTypeOK, RunRow
    <3>2. row.by = j
      BY <3>1 DEF BoardInv, IdsInv
    <3>3. row.pbo = Null
      BY <1>1, <3>2 DEF BoardInv, RunsInv
    <3>4. QED
      BY <2>2, <3>3, ShownIs DEF ShownOf, run_status
  <2>3. QED
    BY <2>1, <2>2 DEF RowIds
<1>5. ShownStatus[r] = Shown(r) /\ ShownStatus[r] # "completed"
      /\ (ShownStatus[r] = "running" <=> r \in RowIds)
  BY <1>4 DEF ShownStatus, Shown
<1>6. <<r, x>> \notin Spent
  <2> SUFFICES ASSUME NEW k \in Jobs, NEW e \in journal[k], <<r, x>> = <<runId[k], e>>
               PROVE  FALSE
    BY SpentIs
  <2>1. runId[k] = runId[j] /\ runId[j] # 0 /\ e = cursor[j]
    BY <1>2, <1>3
  <2>2. k = j
    BY <2>1 DEF BoardInv, IdsInv
  <2>3. QED
    BY <1>2, <2>1, <2>2
<1>7. Spent' = Spent \cup {<<r, x>>}
  <2>1. ASSUME NEW k \in Jobs, NEW e
        PROVE  e \in journal'[k] <=> e \in journal[k] \/ (k = j /\ e = x)
    BY <1>1, <1>2, <1>3
  <2>2. \A p : p \in Spent' <=> p \in Spent \/ p = <<r, x>>
    BY <1>1, <1>3, <2>1, SpentIs
  <2>3. QED
    BY <2>2
<1>8. BoardPairs' = IF r \in RowIds THEN BoardPairs \cup {<<r, x>>} ELSE BoardPairs
  <2>1. leaderboard' = IF r \in RowIds THEN leaderboard \cup {new} ELSE leaderboard
    BY <1>1, <1>3, <1>4 DEF leaderboard
  <2>2. QED
    BY <1>1, <1>3, <2>1 DEF BoardPairs
<1>9. ShownStatus' = ShownStatus
  BY <1>1, <1>4 DEF ShownStatus, Shown
<1>10. Lifecycle!Reveal(r, x)
  BY <1>1, <1>3, <1>5, <1>6, <1>7, <1>8, <1>9 DEF Lifecycle!Reveal, ShownStatus, BoardPairs, Spent
<1>11. QED
  BY <1>3, <1>10

LEMMA CloseStep ==
  ASSUME BoardInv, BoardInv', NEW j \in Jobs, CloseRun(j)
  PROVE  \/ \E r \in 1 .. lastRunId : Lifecycle!Complete(r)
         \/ UNCHANGED <<lastRunId, ShownStatus, BoardPairs, Spent>>
<1> DEFINE Closed(row) == IF row.id = runId[j]
                            THEN [row EXCEPT !.pbo = pbo[j],
                                             !.nSurvivors = Cardinality(survived[j])]
                            ELSE row
<1>1. /\ runs' = {Closed(row) : row \in runs}
      /\ UNCHANGED <<evaluations, journal, runId, lastRunId>>
      /\ pc[j] = "report" /\ pbo[j] \in {Null, Computed}
  BY DEF CloseRun, update_run, BoardInv, TInv, TypeOK, JobTypeOK
<1>2. \A row \in runs : /\ Closed(row).id = row.id
                        /\ Closed(row).pbo = IF row.id = runId[j] THEN pbo[j] ELSE row.pbo
  BY DEF BoardInv, TInv, TypeOK, StoreTypeOK, RunRow
<1> HIDE DEF Closed
<1>3. RowIds' = RowIds
  BY <1>1, <1>2 DEF RowIds
<1>4. runId[j] \in 1 .. lastRunId
  BY <1>1, RowIdsInRange
<1>5. PICK r \in 1 .. lastRunId : r = runId[j]
  BY <1>4
<1>6. BoardPairs' = BoardPairs /\ Spent' = Spent
  BY <1>1, <1>3 DEF BoardPairs, leaderboard, Spent
<1>7. \A row \in runs : row.id = r => row.pbo = Null
  <2> SUFFICES ASSUME NEW row \in runs, row.id = r PROVE row.pbo = Null
    OBVIOUS
  <2>1. row.by \in Jobs /\ runId[row.by] = runId[j] /\ runId[j] # 0
    BY <1>5 DEF BoardInv, RunsInv, TInv, TypeOK, StoreTypeOK, RunRow
  <2>2. row.by = j
    BY <2>1 DEF BoardInv, IdsInv
  <2>3. QED
    BY <1>1, <2>2 DEF BoardInv, RunsInv
<1>8. ASSUME NEW s \in 1 .. lastRunId, s # r \/ pbo[j] = Null PROVE Shown(s)' = Shown(s)
  <2>1. ASSUME NEW new \in runs', new.id = s
        PROVE  \E old \in runs : old.id = s /\ old.pbo = new.pbo
    <3>1. PICK old \in runs : new = Closed(old)
      BY <1>1
    <3>2. old.id = s
      BY <1>2, <2>1, <3>1
    <3>3. old.pbo = new.pbo
      BY <1>2, <1>5, <1>7, <1>8, <3>1, <3>2
    <3>4. QED
      BY <3>2, <3>3
  <2>2. QED
    BY <1>1, <1>3, <2>1, StatusKept
<1>9. CASE r \notin RowIds \/ pbo[j] = Null
  <2>1. ASSUME NEW s \in 1 .. lastRunId PROVE Shown(s)' = Shown(s)
    <3>1. CASE s \notin RowIds
      BY <1>3, <3>1 DEF Shown
    <3>2. CASE s \in RowIds
      BY <1>8, <1>9, <3>2
    <3>3. QED
      BY <3>1, <3>2
  <2>2. ShownStatus' = ShownStatus
    BY <1>1, <2>1 DEF ShownStatus
  <2>3. QED
    BY <1>1, <1>6, <2>2
<1>10. CASE r \in RowIds /\ pbo[j] = Computed
  <2>1. PICK row \in runs : row.id = r
    BY <1>10 DEF RowIds
  <2>2. Shown(r) = "running"
    BY <1>7, <2>1, ShownIs DEF ShownOf, run_status
  <2>3. PICK new \in runs' : new = Closed(row)
    BY <1>1
  <2>4. new.id = r /\ new.pbo = Computed
    BY <1>2, <1>5, <1>10, <2>1, <2>3
  <2>5. Shown(r)' = "completed"
    BY <2>4, ShownIsNext DEF ShownOf, run_status, Null, Computed
  <2>6. ShownStatus' = [ShownStatus EXCEPT ![r] = "completed"]
    <3>1. ShownStatus' = [s \in 1 .. lastRunId |-> Shown(s)']
      BY <1>1 DEF ShownStatus
    <3>2. QED
      BY <1>8, <2>5, <3>1 DEF ShownStatus
  <2>7. ShownStatus[r] = "running"
    BY <2>2 DEF ShownStatus
  <2>8. Lifecycle!Complete(r)
    BY <1>1, <1>6, <2>6, <2>7 DEF Lifecycle!Complete, ShownStatus, BoardPairs, Spent
  <2>9. QED
    BY <2>8
<1>11. QED
  BY <1>1, <1>9, <1>10

LEMMA DeleteStep ==
  ASSUME BoardInv, BoardInv', NEW r \in RowIds, api_delete_run(r)
  PROVE  r \in 1 .. lastRunId /\ Lifecycle!Delete(r)
<1>1. /\ runs' = {row \in runs : row.id # r}
      /\ evaluations' = Without(evaluations, r)
      /\ UNCHANGED <<lastRunId, runId, journal>>
  BY DEF api_delete_run, delete_run, jobVars
<1>2. r \in 1 .. lastRunId
  BY RowIdsInRange
<1>3. RowIds' = RowIds \ {r}
  BY <1>1 DEF RowIds
<1>4. Shown(r) # "deleted" /\ Shown(r)' = "deleted"
  <2>1. PICK row \in runs : row.id = r
    BY DEF RowIds
  <2>2. Shown(r) # "deleted"
    BY <2>1, ShownIs DEF ShownOf, run_status
  <2>3. QED
    BY <1>3, <2>2 DEF Shown
<1>5. ASSUME NEW s \in 1 .. lastRunId, s # r PROVE Shown(s)' = Shown(s)
  <2>1. CASE s \notin RowIds
    BY <1>3, <2>1 DEF Shown
  <2>2. CASE s \in RowIds
    <3>1. PICK row \in runs : row.id = s
      BY <2>2 DEF RowIds
    <3>2. row \in runs'
      BY <1>1, <1>5, <3>1
    <3>3. QED
      BY <3>1, <3>2, ShownIs, ShownIsNext DEF ShownOf, run_status
  <2>3. QED
    BY <2>1, <2>2
<1>6. ShownStatus' = [ShownStatus EXCEPT ![r] = "deleted"]
  <2>1. ShownStatus' = [s \in 1 .. lastRunId |-> Shown(s)']
    BY <1>1 DEF ShownStatus
  <2>2. QED
    BY <1>4, <1>5, <2>1 DEF ShownStatus
<1>7. BoardPairs' = {b \in BoardPairs : b[1] # r}
  <2>1. leaderboard' = {ev \in leaderboard : ev.run # r}
    BY <1>1, <1>3 DEF leaderboard, Without
  <2>2. QED
    BY <2>1 DEF BoardPairs
<1>8. Spent' = Spent
  BY <1>1 DEF Spent
<1>9. ShownStatus[r] # "deleted"
  BY <1>2, <1>4 DEF ShownStatus
<1>10. QED
  BY <1>1, <1>2, <1>6, <1>7, <1>8, <1>9 DEF Lifecycle!Delete, ShownStatus, BoardPairs, Spent

LEMMA WithdrawStep ==
  ASSUME BoardInv, JournalInv, NEW ev \in evaluations, api_delete_factor(ev)
  PROVE  \/ /\ ev.run \in 1 .. lastRunId /\ ev.exp \in Exps
            /\ Lifecycle!Withdraw(ev.run, ev.exp)
         \/ UNCHANGED <<lastRunId, ShownStatus, BoardPairs, Spent>>
<1>1. /\ UNCHANGED <<runs, lastRunId, runId, journal>>
      /\ evaluations' = evaluations \ {ev}
  BY DEF api_delete_factor, delete_evaluation, jobVars
<1>2. ShownStatus' = ShownStatus /\ Spent' = Spent /\ RowIds' = RowIds
  BY <1>1 DEF ShownStatus, Shown, RowIds, Spent
<1>3. leaderboard' = leaderboard \ {ev}
  BY <1>1, <1>2 DEF leaderboard
<1>4. CASE ev \notin leaderboard
  BY <1>1, <1>2, <1>3, <1>4 DEF BoardPairs
<1>5. CASE ev \in leaderboard
  <2>1. \A other \in leaderboard :
          <<other.run, other.exp>> = <<ev.run, ev.exp>> <=> other = ev
    BY DEF JournalInv, leaderboard
  <2>2. /\ <<ev.run, ev.exp>> \in BoardPairs
        /\ BoardPairs' = BoardPairs \ {<<ev.run, ev.exp>>}
    BY <1>3, <1>5, <2>1 DEF BoardPairs
  <2>3. Lifecycle!Withdraw(ev.run, ev.exp)
    BY <1>1, <1>2, <2>2 DEF Lifecycle!Withdraw, ShownStatus, BoardPairs, Spent
  <2>4. QED
    BY <2>3, RowIdsInRange
<1>6. QED
  BY <1>4, <1>5

LEMMA PatchStep ==
  ASSUME BoardInv, BoardInv', NEW ev \in evaluations, NEW mark \in BOOLEAN,
         api_patch_factor(ev, mark)
  PROVE  UNCHANGED <<lastRunId, ShownStatus, BoardPairs, Spent>>
<1> DEFINE Counted(row) == IF row.id = ev.run
                             THEN [row EXCEPT !.nSurvivors =
                                     Cardinality(SurvivedOf(evaluations', ev.run))]
                             ELSE row
           new == [ev EXCEPT !.survived = mark]
<1>1. /\ runs' = {Counted(row) : row \in runs}
      /\ evaluations' = (evaluations \ {ev}) \cup {new}
      /\ UNCHANGED <<lastRunId, runId, journal>>
  BY DEF api_patch_factor, set_survived, jobVars
<1>2. /\ \A row \in runs : Counted(row).id = row.id /\ Counted(row).pbo = row.pbo
      /\ new.run = ev.run /\ new.exp = ev.exp
  BY DEF BoardInv, TInv, TypeOK, StoreTypeOK, RunRow, EvaluationRow
<1> HIDE DEF Counted, new
<1>3. RowIds' = RowIds
  BY <1>1, <1>2 DEF RowIds
<1>4. ASSUME NEW r \in 1 .. lastRunId PROVE Shown(r)' = Shown(r)
  <2>1. \A row \in runs' : row.id = r => \E old \in runs : old.id = r /\ old.pbo = row.pbo
    BY <1>1, <1>2
  <2>2. QED
    BY <1>1, <1>3, <2>1, StatusKept
<1>5. ShownStatus' = ShownStatus
  BY <1>1, <1>4 DEF ShownStatus
<1>6. BoardPairs' = BoardPairs
  <2>1. leaderboard' = IF ev.run \in RowIds THEN (leaderboard \ {ev}) \cup {new}
                       ELSE leaderboard
    BY <1>1, <1>2, <1>3 DEF leaderboard
  <2>2. QED
    BY <1>2, <2>1 DEF BoardPairs, leaderboard
<1>7. QED
  BY <1>1, <1>5, <1>6 DEF Spent

LEMMA LifecycleStep ==
  BoardInv /\ BoardInv' /\ JournalInv /\ [Next]_vars => [Lifecycle!Next]_(Lifecycle!vars)
<1> SUFFICES ASSUME BoardInv, BoardInv', JournalInv, [Next]_vars
             PROVE  Lifecycle!Next \/ UNCHANGED Lifecycle!vars
  OBVIOUS
<1>1. ASSUME UNCHANGED <<lastRunId, ShownStatus, BoardPairs, Spent>>
      PROVE  UNCHANGED Lifecycle!vars
  BY <1>1 DEF Lifecycle!vars, ShownStatus, BoardPairs, Spent
<1>2. ASSUME NEW j \in Jobs, Opens(j) PROVE Lifecycle!Next
  BY <1>2, OpenStep DEF Lifecycle!Next
<1>3. ASSUME NEW j \in Jobs, AddEvaluation(j) PROVE Lifecycle!Next
  BY <1>3, RevealStep DEF Lifecycle!Next
<1>4. ASSUME NEW j \in Jobs, CloseRun(j) PROVE Lifecycle!Next \/ UNCHANGED Lifecycle!vars
  BY <1>1, <1>4, CloseStep DEF Lifecycle!Next
<1>5. ASSUME NEW r \in RowIds, api_delete_run(r) PROVE Lifecycle!Next
  BY <1>5, DeleteStep DEF Lifecycle!Next
<1>6. ASSUME NEW ev \in evaluations, api_delete_factor(ev)
      PROVE  Lifecycle!Next \/ UNCHANGED Lifecycle!vars
  BY <1>1, <1>6, WithdrawStep DEF Lifecycle!Next
<1>7. ASSUME NEW ev \in evaluations, NEW mark \in BOOLEAN, api_patch_factor(ev, mark)
      PROVE  UNCHANGED Lifecycle!vars
  BY <1>1, <1>7, PatchStep
<1>8. ASSUME UNCHANGED <<runs, runId, lastRunId, evaluations, journal>>
      PROVE  UNCHANGED Lifecycle!vars
  <2>1. RowIds' = RowIds /\ ShownStatus' = ShownStatus /\ Spent' = Spent
    BY <1>8 DEF RowIds, ShownStatus, Shown, Spent
  <2>2. BoardPairs' = BoardPairs
    BY <1>8, <2>1 DEF BoardPairs, leaderboard
  <2>3. QED
    BY <1>1, <1>8, <2>1, <2>2
<1>9. ASSUME NEW j \in Jobs, AddExperiment(j) PROVE evaluations' = evaluations
  BY <1>9 DEF AddExperiment, add_experiment
<1>10. QED
  BY <1>2, <1>3, <1>4, <1>5, <1>6, <1>7, <1>8, <1>9, RunMoves, TableMoves, JournalMoves
  DEF BoardInv

\* Tables, jobs, curation, cancellation and crashes implement RunLifecycle for
\* any numbers of jobs, experiments and slots: in particular no deleted run is
\* resurrected by update_run, and no result returns to the board.
THEOREM LifecycleImplemented == Spec => ImplementsLifecycle
<1>1. Init => Lifecycle!Init
  <2> SUFFICES ASSUME Init PROVE Lifecycle!Init
    OBVIOUS
  <2>1. lastRunId = 0 /\ BoardPairs = {} /\ Spent = {}
    BY DEF Init, StoreInit, JobInit, BoardPairs, leaderboard, Spent
  <2>2. 1 .. 0 = {}
    OBVIOUS
  <2>3. ShownStatus = [r \in {} |-> "running"]
    BY <2>1, <2>2 DEF ShownStatus
  <2>4. QED
    BY <2>1, <2>3 DEF Lifecycle!Init, ShownStatus, BoardPairs, Spent
<1>2. Init => JournalInv
  BY DEF Init, StoreInit, JobInit, JournalInv
<1>3. QED
  BY <1>1, <1>2, BoardInvariant, BoardNext, JournalNext, LifecycleStep, PTL
  DEF Spec, ImplementsLifecycle, Lifecycle!Spec
=============================================================================
