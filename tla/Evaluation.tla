----------------------------- MODULE Evaluation -----------------------------
(***************************************************************************)
(* OutOfSampleEvaluator.evaluate (eval/protocol.py): the candidates are    *)
(* run on the holdout one after the other, the correction for multiple     *)
(* testing and the probability of backtest overfitting are computed from   *)
(* the lists that gave, and each candidate is judged.  One thread runs it. *)
(*                                                                         *)
(* What a backtest gives is a p-value and its score on each half of the    *)
(* holdout's blocks, any at all; whether it beats the baselines and its    *)
(* deflated Sharpe ratio suffices is one choice.                           *)
(***************************************************************************)
EXTENDS MultipleTesting, FiniteSetsExt, SequencesExt

CONSTANTS
  MaxCandidates,    \* bound
  D, Alpha,         \* fdr_alpha is Alpha / D
  PValues,          \* bound: numerators of p-values
  Scores,           \* bound: Sharpe ratios on part of the holdout
  cscv_partitions

ASSUME LevelAssumption ==
  /\ D \in Nat \ {0} /\ Alpha \in 0 .. D - 1
  /\ PValues \subseteq 0 .. D
ASSUME ScoresAssumption == Scores \subseteq Int /\ MaxCandidates \in Nat
ASSUME PartitionsAssumption == cscv_partitions \in Nat \ {0, 1}

NaN == -1

VARIABLES
  stage,        \* where evaluate is
  n,            \* len(candidates)
  steps,        \* returns.shape[0]: the same for all, the holdout being the same
  pvalues, failed, scores,  \* the parallel lists; scores stands for returns_list
  correction,   \* [rejected, adjusted]
  pbo,
  evaluations,  \* the report
  ran           \* history, for the properties: what each candidate really gave

vars == <<stage, n, steps, pvalues, failed, scores, correction, pbo, evaluations, ran>>
results == <<correction, pbo, evaluations>>

\* n_partitions: an odd number is lowered by one.
n_partitions == cscv_partitions - (cscv_partitions % 2)
Halves == {is \in SUBSET (1 .. n_partitions) : 2 * Cardinality(is) = n_partitions}
Complement(is) == (1 .. n_partitions) \ is

\* The scores of returns that are too few to be cut are never asked for.
NoReturns == <<>>
Returns == IF steps < cscv_partitions THEN {NoReturns} ELSE [Halves -> Scores]

Init ==
  /\ stage = "backtests"
  /\ n \in 0 .. MaxCandidates
  /\ steps \in 0 .. cscv_partitions
  /\ pvalues = <<>> /\ failed = <<>> /\ scores = <<>> /\ ran = <<>>
  /\ correction = [rejected |-> {}, adjusted |-> <<>>]
  /\ pbo = NaN
  /\ evaluations = <<>>

Pending == stage = "backtests" /\ Len(ran) < n

Gave(fails, p, returns) == ran' = Append(ran, [fails |-> fails, p |-> p, returns |-> returns])

\* The backtest and the walk-forward run through, and only then is anything
\* appended.  pvalue_from_sharpe is 1 below two observations.
Runs(p, returns) ==
  /\ Pending
  /\ steps < 2 => p = D
  /\ pvalues' = Append(pvalues, p)
  /\ failed' = Append(failed, FALSE)
  /\ scores' = Append(scores, returns)
  /\ Gave(FALSE, p, returns)
  /\ UNCHANGED <<stage, n, steps, results>>

\* Mutant: the p-value is kept before the walk-forward raises.
KeepsPvalue ==
  /\ Pending
  /\ \E p \in PValues : pvalues' = pvalues \o <<p, D>>
  /\ failed' = Append(failed, TRUE)
  /\ scores' = Append(scores, NoReturns)
  /\ Gave(TRUE, D, NoReturns)
  /\ UNCHANGED <<stage, n, steps, results>>

\* Mutant: a failed candidate has the p-value 0.
FailsAtZero ==
  /\ Pending
  /\ pvalues' = Append(pvalues, 0)
  /\ failed' = Append(failed, TRUE)
  /\ scores' = Append(scores, NoReturns)
  /\ Gave(TRUE, D, NoReturns)
  /\ UNCHANGED <<stage, n, steps, results>>

\* Loading it, the backtest or a window of the walk-forward raises an Exception.
Fails ==
  /\ Pending
  /\ pvalues' = Append(pvalues, D)
  /\ failed' = Append(failed, TRUE)
  /\ scores' = Append(scores, NoReturns)
  /\ Gave(TRUE, D, NoReturns)
  /\ UNCHANGED <<stage, n, steps, results>>

\* SystemExit is none: a strategy that calls sys.exit() ends evaluate, and the
\* candidates before and after it are not judged either.
Exits ==
  /\ Pending
  /\ stage' = "aborted"
  /\ UNCHANGED <<n, steps, pvalues, failed, scores, results, ran>>

\* benjamini_hochberg on all the p-values, those of failed candidates included.
Corrects ==
  /\ stage = "backtests" /\ Len(ran) = n
  /\ \E o \in Orders(pvalues) :
       correction' = [rejected |-> rejected(pvalues, o, Alpha),
                      adjusted |-> adjusted(pvalues, o, D)]
  /\ stage' = "overfitting"
  /\ UNCHANGED <<n, steps, pvalues, failed, scores, pbo, evaluations, ran>>

(***************************************************************************)
(* probability_backtest_overfitting (eval/overfitting.py).                 *)
(***************************************************************************)

\* argmax: the first of the best.
Best(matrix, is) ==
  CHOOSE b \in DOMAIN matrix :
    /\ \A c \in DOMAIN matrix : matrix[c][is] <= matrix[b][is]
    /\ \A c \in 1 .. b - 1 : matrix[c][is] < matrix[b][is]

\* Mutant: candidates that do as well count as beaten.
TiesAreBeaten(matrix, is) ==
  LET oos == Complement(is)
      best == Best(matrix, is)
  IN 2 * (Cardinality({c \in DOMAIN matrix : matrix[c][oos] <= matrix[best][oos]}) + 1)
       <= Len(matrix) + 1

\* logit <= 0: the rank of the in-sample best is at most one half.
Overfit(matrix, is) ==
  LET oos == Complement(is)
      best == Best(matrix, is)
  IN 2 * (Cardinality({c \in DOMAIN matrix : matrix[c][oos] < matrix[best][oos]}) + 1)
       <= Len(matrix) + 1

\* The number of overfit splits among all of them.
probability_backtest_overfitting(matrix) == Cardinality({is \in Halves : Overfit(matrix, is)})

\* ok_returns: those of candidates that did not fail.
ok_returns == [k \in 1 .. Cardinality({i \in 1 .. n : ~failed[i]}) |->
                 scores[CHOOSE i \in 1 .. n : ~failed[i] /\
                          Cardinality({h \in 1 .. i : ~failed[h]}) = k]]

\* Mutant: one candidate suffices.
SelectsAmongOne ==
  /\ stage = "overfitting"
  /\ pbo' = IF Len(ok_returns) >= 1 /\ steps >= cscv_partitions
            THEN probability_backtest_overfitting(ok_returns) ELSE NaN
  /\ stage' = "judging"
  /\ scores' = <<>>
  /\ ran' = [i \in 1 .. n |-> [ran[i] EXCEPT !.returns = NoReturns]]
  /\ UNCHANGED <<n, steps, pvalues, failed, correction, evaluations>>

\* The lists of returns are not needed any longer.
Overfitting ==
  /\ stage = "overfitting"
  /\ pbo' = IF Len(ok_returns) >= 2 /\ steps >= cscv_partitions
            THEN probability_backtest_overfitting(ok_returns) ELSE NaN
  /\ stage' = "judging"
  /\ scores' = <<>>
  /\ ran' = [i \in 1 .. n |-> [ran[i] EXCEPT !.returns = NoReturns]]
  /\ UNCHANGED <<n, steps, pvalues, failed, correction, evaluations>>

\* deflated_sharpe_ratio is 0 below two observations.
Judges(convincing) ==
  LET i == Len(evaluations) + 1
  IN /\ stage = "judging"
     /\ i <= n
     /\ convincing => ~failed[i] /\ steps >= 2
     /\ evaluations' = Append(evaluations,
          [pvalue |-> pvalues[i],
           adjusted |-> correction.adjusted[i],
           significant |-> ~failed[i] /\ i \in correction.rejected,
           survived |-> convincing /\ i \in correction.rejected])
     /\ UNCHANGED <<stage, n, steps, pvalues, failed, scores, correction, pbo, ran>>

Next ==
  \/ \E p \in PValues, returns \in Returns : Runs(p, returns)
  \/ Fails
  \/ Exits
  \/ Corrects
  \/ Overfitting
  \/ \E convincing \in BOOLEAN : Judges(convincing)

Spec == Init /\ [][Next]_vars

-----------------------------------------------------------------------------
Corrected == stage \in {"overfitting", "judging"}
OwnP(c) == [k \in 1 .. Cardinality(c) |->
              ran[CHOOSE i \in c : Cardinality({h \in c : h <= i}) = k].p]

\* What a report says of a candidate is its own: the parallel lists stay
\* aligned whatever fails, a failed candidate is never significant, and only a
\* significant one survives.
EvaluationsAreTheirOwn ==
  \A i \in DOMAIN evaluations :
    /\ evaluations[i].pvalue = ran[i].p
    /\ ran[i].fails => ~evaluations[i].significant
    /\ evaluations[i].survived => evaluations[i].significant

\* The step-up rule by its definition, which has no order in it: a candidate is
\* rejected if, for some k, it and k candidates in all are at or below k's
\* threshold.  So it does not matter how argsort breaks ties.
StepUpIsExact ==
  Corrected =>
    correction.rejected =
      {i \in 1 .. n : \E k \in 1 .. n :
         LET under == {c \in 1 .. n : pvalues[c] * n <= k * Alpha}
         IN i \in under /\ Cardinality(under) >= k}

\* The adjusted p-value tells the same story as the decision it is shown
\* beside: it is at most alpha exactly for the rejected, never below the
\* p-value or above 1, and in the order of the p-values, equal for equal ones.
AdjustedAgrees ==
  Corrected => \A i, c \in 1 .. n :
    LET adj == correction.adjusted
    IN /\ adj[i] <= Alpha * Factorial(n) <=> i \in correction.rejected
       /\ adj[i] >= pvalues[i] * Factorial(n) /\ adj[i] <= D * Factorial(n)
       /\ pvalues[i] <= pvalues[c] => adj[i] <= adj[c]

\* What is shown of the correction agrees with its definition and with itself.
CorrectionIsExact == StepUpIsExact /\ AdjustedAgrees

\* A candidate that crashes makes the test stricter, never more lenient: what
\* is significant would be so without the failed ones, and everything that
\* Bonferroni rejects is rejected.
FailuresOnlyHurt ==
  Corrected =>
    LET good == {i \in 1 .. n : ~ran[i].fails}
        alone == OwnP(good)
    IN /\ \A i \in correction.rejected \cap good :
            \E o \in Orders(alone) :
              Cardinality({h \in good : h <= i}) \in rejected(alone, o, Alpha)
       /\ bonferroni([i \in 1 .. n |-> ran[i].p], Alpha) \subseteq correction.rejected

\* The probability of overfitting is over the candidates that ran: none if one
\* of them is the best of every half, every split if each half has the order
\* of the other reversed; and, unless two share the best score of a half, the
\* list of the candidates reversed gives the same.
PboJudgesSelection ==
  [][(stage = "overfitting" /\ pbo' # NaN) =>
       LET good == {i \in 1 .. n : ~ran[i].fails}
           Beats(c, d, is) == ran[d].returns[is] < ran[c].returns[is]
           unique == \A is \in Halves : \E c \in good : \A d \in good \ {c} : Beats(c, d, is)
       IN /\ (\E c \in good : \A d \in good \ {c}, is \in Halves : Beats(c, d, is)) => pbo' = 0
          /\ (\A c, d \in good, is \in Halves : Beats(c, d, is) => Beats(d, c, Complement(is)))
               => pbo' = Cardinality(Halves)
          /\ unique => pbo' = probability_backtest_overfitting(Reverse(ok_returns))]_vars

(***************************************************************************)
(* The orchestrator's view: its submitted experiments are the candidates,  *)
(* and it has the report when the last of them is judged.                  *)
(***************************************************************************)
Judged == stage = "judging" /\ Len(evaluations) = n

Caller == INSTANCE Orchestrator WITH
  Jobs <- {"job"}, MaxExp <- MaxCandidates, NExp <- [j \in {"job"} |-> MaxCandidates],
  MaxParallel <- 1, MaxCalls <- 0,
  runs <- {}, experiments <- {}, evaluations <- {}, usage <- {}, lastRunId <- 1,
  pc <- [j \in {"job"} |-> IF Judged THEN "report" ELSE "evaluate"],
  runId <- [j \in {"job"} |-> 1],
  exp <- [j \in {"job"} |-> [e \in 0 .. MaxCandidates - 1 |->
                               IF e < n THEN "submitted" ELSE "unsubmitted"]],
  calls <- {}, slots <- 1, cursor <- [j \in {"job"} |-> 0], journal <- {},
  survived <- [j \in {"job"} |->
                 IF Judged THEN {i - 1 : i \in {c \in 1 .. n : evaluations[c].survived}} ELSE {}],
  pbo <- [j \in {"job"} |-> IF Judged /\ pbo # NaN THEN "number" ELSE "null"]

\* The evaluation is the orchestrator's one step Evaluate, or none when a
\* strategy exits: whatever fails and in however many steps, the caller sees
\* nothing of a report before it is whole, none of it changes afterwards, only
\* candidates survive, and there is a probability of overfitting only of a
\* choice among two or more.
EvaluationIsReport ==
  [][Caller!Evaluate("job")]_<<Caller!jobVars, Caller!storeVars>>
=============================================================================
