------------------------- MODULE Evaluation_proofs -------------------------
(***************************************************************************)
(* Theorems about evaluate, for any number of candidates, any p-values and *)
(* any level.                                                              *)
(***************************************************************************)
EXTENDS Evaluation, FiniteSetTheorems, WellFoundedInduction, TLAPS

(***************************************************************************)
(* The step-up rule of benjamini_hochberg, for any number of p-values, any *)
(* level and whatever order argsort gives equal ones.                      *)
(***************************************************************************)
\* A set of ranks has a last one, or is empty.
LEMMA LastRank ==
  ASSUME NEW m \in Nat, NEW B \in SUBSET (1 .. m)
  PROVE  \E k \in 0 .. m : (k = 0 \/ k \in B) /\ \A i \in B : i <= k
<1> DEFINE T == {k \in Nat : \A i \in B : i <= k}
<1>1. T \subseteq Nat /\ m \in T /\ T # {}
  OBVIOUS
<1>2. PICK k \in T : \A y \in T : ~ (<<y, k>> \in OpToRel(<, Nat))
  <2> HIDE DEF T
  <2>1. QED
    BY <1>1, NatLessThanWellFounded, WFMin
<1>3. \A y \in T : ~ (y < k)
  <2>1. TAKE y \in T
  <2>2. y < k => <<y, k>> \in OpToRel(<, Nat)
    BY <1>1 DEF OpToRel
  <2>3. QED
    BY <1>2, <2>2
<1>4. k <= m
  BY <1>1, <1>3
<1>5. k = 0 \/ k \in B
  <2>1. SUFFICES ASSUME k # 0, k \notin B PROVE FALSE
    OBVIOUS
  <2>2. k - 1 \in T
    BY <2>1
  <2>3. QED
    BY <1>3, <2>2
<1>6. QED
  BY <1>4, <1>5

\* What argsort gives reaches every index.
LEMMA OrderReachesAll ==
  ASSUME NEW m \in Nat, NEW o \in Permutation(m), NEW c \in 1 .. m
  PROVE  \E r \in 1 .. m : o[r] = c
<1>1. o \in Injection(1 .. m, 1 .. m)
  BY DEF Permutation, Injection, IsInjective
<1>2. IsFiniteSet(1 .. m)
  BY FS_Interval
<1>3. o \in Surjection(1 .. m, 1 .. m)
  BY <1>1, <1>2, FS_Injection
<1>4. QED
  BY <1>3 DEF Surjection

\* If at least k of the indices are in a set, one of rank k or more is.
LEMMA RankAtLeast ==
  ASSUME NEW m \in Nat, NEW o \in Permutation(m), NEW k \in 1 .. m,
         NEW U \in SUBSET (1 .. m), Cardinality(U) >= k
  PROVE  \E r \in k .. m : o[r] \in U
<1>1. SUFFICES ASSUME \A r \in k .. m : o[r] \notin U PROVE FALSE
  OBVIOUS
<1> DEFINE g == [c \in U |-> CHOOSE r \in 1 .. m : o[r] = c]
<1>2. \A c \in U : g[c] \in 1 .. m /\ o[g[c]] = c
  BY OrderReachesAll
<1>3. \A c \in U : g[c] \in 1 .. k - 1
  BY <1>1, <1>2
<1>4. g \in [U -> 1 .. k - 1]
  BY <1>3
<1>5. g \in Injection(U, 1 .. k - 1)
  BY <1>2, <1>4 DEF Injection, IsInjective
<1>6. IsFiniteSet(1 .. k - 1) /\ Cardinality(1 .. k - 1) = k - 1
  BY FS_Interval
<1>7. Cardinality(U) <= k - 1
  BY <1>5, <1>6, FS_Injection
<1>8. Cardinality(U) \in Nat
  <2>1. IsFiniteSet(1 .. m)
    BY FS_Interval
  <2>2. QED
    BY <2>1, FS_Subset, FS_CardinalityType
<1>9. QED
  BY <1>7, <1>8

\* A threshold that is met stays met with fewer p or more rank.
LEMMA Monotone ==
  ASSUME NEW m \in Nat, NEW alpha \in Nat, NEW a \in Nat, NEW b \in Nat,
         NEW i \in Nat, NEW j \in Nat, a <= b, i <= j, b * m <= i * alpha
  PROVE  a * m <= j * alpha
<1>1. a * m <= b * m
  <2>1. PICK d \in Nat : b = a + d
    BY b - a \in Nat, b = a + (b - a)
  <2>2. b * m = a * m + d * m /\ d * m \in Nat /\ a * m \in Nat
    BY <2>1
  <2>3. QED
    BY <2>2
<1>2. i * alpha <= j * alpha
  <2>1. PICK d \in Nat : j = i + d
    BY j - i \in Nat, j = i + (j - i)
  <2>2. j * alpha = i * alpha + d * alpha /\ d * alpha \in Nat /\ i * alpha \in Nat
    BY <2>1
  <2>3. QED
    BY <2>2
<1>3. a * m \in Nat /\ b * m \in Nat /\ i * alpha \in Nat /\ j * alpha \in Nat
  OBVIOUS
<1>4. QED
  BY <1>1, <1>2, <1>3

\* The definition of the step-up rule without an order.
Under(p, m, k, alpha) == {c \in 1 .. m : p[c] * m <= k * alpha}
StepUp(p, m, alpha) ==
  {i \in 1 .. m : \E k \in 1 .. m :
     i \in Under(p, m, k, alpha) /\ Cardinality(Under(p, m, k, alpha)) >= k}

\* The cutoff is the last rank whose p-value meets its threshold.
LEMMA CutoffIs ==
  ASSUME NEW m \in Nat, NEW p, Len(p) = m, NEW o, NEW alpha
  PROVE  LET K == cutoff(p, o, alpha)
         IN /\ K \in 0 .. m /\ (K = 0 \/ p[o[K]] * m <= K * alpha)
            /\ \A i \in 1 .. m : p[o[i]] * m <= i * alpha => i <= K
<1> DEFINE B == {i \in 1 .. m : p[o[i]] * m <= i * alpha}
           K == cutoff(p, o, alpha)
<1>1. B = below(p, o, alpha)
  BY DEF below
<1>2. \E k \in 0 .. m : (k = 0 \/ k \in B) /\ \A i \in B : i <= k
  BY LastRank
<1>3. K = CHOOSE k \in 0 .. m : (k = 0 \/ k \in B) /\ \A i \in B : i <= k
  BY <1>1, Zenon DEF cutoff
<1>4. K \in 0 .. m /\ (K = 0 \/ K \in B) /\ \A i \in B : i <= K
  <2> HIDE DEF B, K
  <2>1. QED
    BY <1>2, <1>3
<1> HIDE DEF K
<1>5. (K = 0 \/ p[o[K]] * m <= K * alpha) /\ \A i \in 1 .. m : p[o[i]] * m <= i * alpha => i <= K
  BY <1>4
<1>6. QED
  BY <1>4, <1>5 DEF K

\* benjamini_hochberg rejects by the step-up rule, and so the same whatever
\* order equal p-values come in.
THEOREM RejectedIsStepUp ==
  ASSUME NEW m \in Nat, NEW p \in [1 .. m -> Nat], Len(p) = m, NEW alpha \in Nat,
         NEW o \in Orders(p)
  PROVE  rejected(p, o, alpha) = StepUp(p, m, alpha)
<1> DEFINE B == {i \in 1 .. m : p[o[i]] * m <= i * alpha}
           K == cutoff(p, o, alpha)
<1>1. o \in Permutation(m) /\ \A i, j \in 1 .. m : i <= j => p[o[i]] <= p[o[j]]
  BY Zenon DEF Orders
<1>2. o \in [1 .. m -> 1 .. m] /\ \A i, j \in 1 .. m : o[i] = o[j] => i = j
  BY <1>1 DEF Permutation
<1>4. K \in 0 .. m /\ (K = 0 \/ K \in B) /\ \A i \in B : i <= K
  <2>1. /\ K \in 0 .. m /\ (K = 0 \/ p[o[K]] * m <= K * alpha)
        /\ \A i \in 1 .. m : p[o[i]] * m <= i * alpha => i <= K
    BY CutoffIs, Zenon
  <2> HIDE DEF K
  <2>2. QED
    BY <2>1
<1>5. rejected(p, o, alpha) = {o[i] : i \in 1 .. K}
  BY DEF rejected
<1>6. \A i \in 1 .. m : o[i] \in 1 .. m /\ p[o[i]] \in Nat
  BY <1>2
<1>7. \A i : i \in B <=> i \in 1 .. m /\ p[o[i]] * m <= i * alpha
  OBVIOUS
<1> HIDE DEF B, K
<1>8. ASSUME NEW r \in 1 .. K PROVE o[r] \in StepUp(p, m, alpha)
  <2>1. K \in B /\ K \in 1 .. m
    BY <1>4
  <2>2. \A s \in 1 .. K : s \in 1 .. m /\ s <= K /\ s \in Nat
    BY <2>1
  <2>3. \A s \in 1 .. K : o[s] \in Under(p, m, K, alpha)
    <3>1. TAKE s \in 1 .. K
    <3>2. o[s] \in 1 .. m /\ p[o[s]] \in Nat /\ p[o[K]] \in Nat /\ p[o[s]] <= p[o[K]]
      BY <1>1, <1>6, <2>1, <2>2, Zenon
    <3>3. p[o[K]] * m <= K * alpha
      BY <1>7, <2>1, Zenon
    <3>4. K \in Nat /\ K <= K
      BY <2>1
    <3>5. p[o[s]] * m <= K * alpha
      BY <3>2, <3>3, <3>4, Monotone
    <3>6. QED
      BY <3>2, <3>5, Zenon DEF Under
  <2> DEFINE f == [s \in 1 .. K |-> o[s]]
  <2>4. f \in Injection(1 .. K, Under(p, m, K, alpha))
    <3>1. f \in [1 .. K -> Under(p, m, K, alpha)]
      BY <2>3, Zenon
    <3>2. \A s, t \in 1 .. K : f[s] = f[t] => s = t
      BY <1>2, <2>2, Zenon
    <3>3. QED
      BY <3>1, <3>2 DEF Injection, IsInjective
  <2>5. IsFiniteSet(Under(p, m, K, alpha))
    <3>1. IsFiniteSet(1 .. m)
      BY FS_Interval
    <3>2. Under(p, m, K, alpha) \in SUBSET (1 .. m)
      BY DEF Under
    <3>3. QED
      BY <3>1, <3>2, FS_Subset
  <2>6. Cardinality(1 .. K) = K
    BY <2>1, FS_Interval
  <2>7. Cardinality(Under(p, m, K, alpha)) >= K
    BY <2>1, <2>4, <2>5, <2>6, FS_Injection, FS_CardinalityType
  <2>8. o[r] \in 1 .. m
    BY <1>6, <2>2, Zenon
  <2>9. QED
    BY <2>1, <2>3, <2>7, <2>8, Zenon DEF StepUp
<1>9. ASSUME NEW i \in StepUp(p, m, alpha) PROVE i \in {o[r] : r \in 1 .. K}
  <2>1. PICK k \in 1 .. m : /\ i \in Under(p, m, k, alpha)
                            /\ Cardinality(Under(p, m, k, alpha)) >= k
    BY DEF StepUp
  <2>2. Under(p, m, k, alpha) \in SUBSET (1 .. m)
    BY DEF Under
  <2>3. PICK r \in k .. m : o[r] \in Under(p, m, k, alpha)
    BY <1>1, <2>1, <2>2, RankAtLeast
  <2>4. ASSUME NEW s \in 1 .. m, k <= s, o[s] \in Under(p, m, k, alpha) PROVE s <= K
    <3>1. p[o[s]] * m <= k * alpha /\ p[o[s]] \in Nat
      BY <1>6, <2>4, Zenon DEF Under
    <3>2. s \in Nat /\ k \in Nat /\ p[o[s]] <= p[o[s]]
      BY <3>1
    <3>3. p[o[s]] * m <= s * alpha
      BY <2>4, <3>1, <3>2, Monotone
    <3>4. QED
      BY <1>4, <1>7, <3>3, Zenon
  <2>5. k <= K
    BY <1>4, <2>3, <2>4
  <2>6. PICK s \in 1 .. m : o[s] = i
    BY <1>1, <2>1, OrderReachesAll DEF Under
  <2>7. s <= K
    BY <1>4, <2>1, <2>4, <2>5, <2>6
  <2>8. QED
    BY <1>4, <2>6, <2>7
<1>10. QED
  BY <1>5, <1>8, <1>9

(***************************************************************************)
(* evaluate.                                                               *)
(***************************************************************************)

Outcome == [fails : BOOLEAN, p : 0 .. D, returns : {NoReturns} \cup [Halves -> Scores]]
Verdict == [pvalue : 0 .. D, adjusted : {correction.adjusted[i] : i \in 1 .. n},
            significant : BOOLEAN, survived : BOOLEAN]

\* The parallel lists are as long as the candidates that have run, and say of
\* each what it gave; one that failed counts as no evidence at all.
Aligned ==
  /\ n \in Nat
  /\ ran \in Seq(Outcome) /\ pvalues \in Seq(0 .. D) /\ failed \in Seq(BOOLEAN)
  /\ Len(pvalues) = Len(ran) /\ Len(failed) = Len(ran)
  /\ \A i \in 1 .. Len(ran) : pvalues[i] = ran[i].p /\ failed[i] = ran[i].fails
  /\ \A i \in 1 .. Len(ran) : ran[i].fails => ran[i].p = D

\* evaluate goes on to the statistics with all the candidates.
AllRan ==
  /\ stage \in {"backtests", "aborted", "overfitting", "judging"}
  /\ Len(ran) <= n
  /\ stage \in {"overfitting", "judging"} => Len(ran) = n

\* The correction is what the step-up rule gives on all the p-values.
IsCorrected ==
  Corrected => \E o \in Orders(pvalues) :
                 /\ correction.rejected = rejected(pvalues, o, Alpha)
                 /\ correction.adjusted = adjusted(pvalues, o, D)

\* What is reported so far.
Reported ==
  /\ evaluations \in Seq(Verdict) /\ Len(evaluations) <= n
  /\ stage # "judging" => evaluations = <<>>
  /\ \A i \in 1 .. Len(evaluations) :
       /\ evaluations[i].pvalue = pvalues[i]
       /\ failed[i] => ~evaluations[i].significant
       /\ evaluations[i].survived => evaluations[i].significant

EvaluationInv == Aligned /\ AllRan /\ IsCorrected /\ Reported

\* A sequence is a function on its indices.
LEMMA SequenceIsFunction ==
  ASSUME NEW S, NEW s \in Seq(S)
  PROVE  s \in [1 .. Len(s) -> S]
  OBVIOUS

LEMMA AlignedAt ==
  ASSUME Aligned, NEW i \in 1 .. Len(ran)
  PROVE  /\ pvalues[i] = ran[i].p /\ failed[i] = ran[i].fails
         /\ ran[i].fails => ran[i].p = D
<1>1. pvalues[i] = ran[i].p /\ failed[i] = ran[i].fails
  BY DEF Aligned
<1>2. ran[i].fails => ran[i].p = D
  BY DEF Aligned
<1>3. QED
  BY <1>1, <1>2

LEMMA InvInit == Init => EvaluationInv
<1> SUFFICES ASSUME Init PROVE EvaluationInv
  OBVIOUS
<1>1. Aligned /\ AllRan
  <2>1. n \in Nat
    BY ScoresAssumption DEF Init
  <2>2. QED
    BY <2>1 DEF Init, Aligned, AllRan
<1>2. IsCorrected
  BY DEF Init, IsCorrected, Corrected
<1>3. Reported
  <2>1. n \in Nat
    BY ScoresAssumption DEF Init
  <2>2. QED
    BY <2>1 DEF Init, Reported
<1>4. QED
  BY <1>1, <1>2, <1>3 DEF EvaluationInv

\* A candidate that ran or failed adds one entry to every list.
LEMMA InvOneMore ==
  ASSUME EvaluationInv, NEW fails \in BOOLEAN, NEW p \in 0 .. D,
         NEW returns \in {NoReturns} \cup [Halves -> Scores],
         fails => p = D, Pending, Gave(fails, p, returns),
         pvalues' = Append(pvalues, p), failed' = Append(failed, fails),
         UNCHANGED <<stage, n, results>>
  PROVE  EvaluationInv'
<1> DEFINE x == [fails |-> fails, p |-> p, returns |-> returns]
<1>1. x \in Outcome /\ x.p = p /\ x.fails = fails
  BY DEF Outcome
<1>2. ran' = Append(ran, x)
  BY DEF Gave
<1> HIDE DEF x
<1>3. Outcome' = Outcome
  BY DEF Outcome, Halves, n_partitions, NoReturns
<1>4. Aligned'
  <2>1. /\ ran' \in Seq(Outcome) /\ pvalues' \in Seq(0 .. D) /\ failed' \in Seq(BOOLEAN)
        /\ Len(ran') = Len(ran) + 1 /\ Len(pvalues') = Len(ran) + 1
        /\ Len(failed') = Len(ran) + 1
    BY <1>1, <1>2 DEF EvaluationInv, Aligned
  <2>2. ASSUME NEW i \in 1 .. Len(ran) + 1
        PROVE  /\ pvalues'[i] = ran'[i].p /\ failed'[i] = ran'[i].fails
               /\ ran'[i].fails => ran'[i].p = D
    <3>1. CASE i = Len(ran) + 1
      BY <1>1, <1>2, <3>1 DEF EvaluationInv, Aligned
    <3>2. CASE i \in 1 .. Len(ran)
      <4>1. ran'[i] = ran[i] /\ pvalues'[i] = pvalues[i] /\ failed'[i] = failed[i]
        BY <1>2, <3>2 DEF EvaluationInv, Aligned
      <4>2. /\ pvalues[i] = ran[i].p /\ failed[i] = ran[i].fails
            /\ ran[i].fails => ran[i].p = D
        BY <3>2, AlignedAt, Zenon DEF EvaluationInv
      <4>3. QED
        BY <4>1, <4>2
    <3>3. QED
      BY <3>1, <3>2 DEF EvaluationInv, Aligned
  <2>3. QED
    BY <1>3, <2>1, <2>2 DEF EvaluationInv, Aligned
<1>5. AllRan'
  BY <1>2 DEF EvaluationInv, Aligned, AllRan, Pending
<1>6. IsCorrected' /\ Reported'
  <2>1. stage = "backtests" /\ evaluations = <<>> /\ n \in Nat
    BY DEF Pending, EvaluationInv, Aligned, Reported
  <2>2. QED
    BY <2>1 DEF IsCorrected, Corrected, Reported, results
<1>7. QED
  BY <1>4, <1>5, <1>6 DEF EvaluationInv

LEMMA InvNext == EvaluationInv /\ [Next]_vars => EvaluationInv'
<1> SUFFICES ASSUME EvaluationInv, [Next]_vars PROVE EvaluationInv'
  OBVIOUS
<1>1. ASSUME NEW p \in PValues, NEW returns \in Returns, Runs(p, returns)
      PROVE  EvaluationInv'
  <2>1. p \in 0 .. D /\ returns \in {NoReturns} \cup [Halves -> Scores]
    BY LevelAssumption DEF Returns
  <2>2. /\ Pending /\ Gave(FALSE, p, returns)
        /\ pvalues' = Append(pvalues, p) /\ failed' = Append(failed, FALSE)
        /\ UNCHANGED <<stage, n, results>>
    BY <1>1 DEF Runs
  <2>3. QED
    BY <2>1, <2>2, InvOneMore
<1>2. CASE Fails
  <2>1. D \in 0 .. D
    BY LevelAssumption
  <2>2. /\ Pending /\ Gave(TRUE, D, NoReturns)
        /\ pvalues' = Append(pvalues, D) /\ failed' = Append(failed, TRUE)
        /\ UNCHANGED <<stage, n, results>>
    BY <1>2 DEF Fails
  <2>3. QED
    BY <2>1, <2>2, InvOneMore
<1>3. CASE Corrects
  <2>1. Aligned' /\ AllRan'
    BY <1>3 DEF Corrects, EvaluationInv, Aligned, AllRan, Outcome, Halves, n_partitions, NoReturns
  <2>2. IsCorrected'
    <3>1. PICK o \in Orders(pvalues) :
            correction' = [rejected |-> rejected(pvalues, o, Alpha),
                           adjusted |-> adjusted(pvalues, o, D)]
      BY <1>3 DEF Corrects
    <3>2. /\ correction'.rejected = rejected(pvalues, o, Alpha)
          /\ correction'.adjusted = adjusted(pvalues, o, D) /\ pvalues' = pvalues
      BY <1>3, <3>1 DEF Corrects
    <3>3. QED
      BY <3>2 DEF IsCorrected
  <2>3. Reported'
    <3>1. evaluations' = <<>> /\ n' \in Nat
      BY <1>3 DEF Corrects, EvaluationInv, Aligned, Reported
    <3>2. QED
      BY <3>1 DEF Reported
  <2>4. QED
    BY <2>1, <2>2, <2>3 DEF EvaluationInv
<1>4. CASE Overfitting
  <2>1. /\ ran' = [i \in 1 .. n |-> [ran[i] EXCEPT !.returns = NoReturns]]
        /\ Len(ran) = n /\ n \in Nat /\ n' = n /\ ran \in Seq(Outcome)
    BY <1>4 DEF Overfitting, EvaluationInv, Aligned, AllRan
  <2>2. \A i \in 1 .. n : /\ ran'[i] \in Outcome
                          /\ ran'[i].p = ran[i].p /\ ran'[i].fails = ran[i].fails
    <3>1. TAKE i \in 1 .. n
    <3>2. ran[i] \in Outcome
      BY <2>1
    <3>3. QED
      BY <2>1, <3>2 DEF Outcome
  <2>3. ran' \in Seq(Outcome) /\ Len(ran') = n
    BY <2>1, <2>2
  <2>4. Aligned' /\ AllRan'
    BY <1>4, <2>1, <2>2, <2>3
       DEF Overfitting, EvaluationInv, Aligned, AllRan, Outcome, Halves, n_partitions, NoReturns
  <2>5. IsCorrected'
    BY <1>4 DEF Overfitting, EvaluationInv, IsCorrected, Corrected
  <2>6. Reported'
    <3>1. evaluations' = <<>> /\ n' \in Nat
      BY <1>4 DEF Overfitting, EvaluationInv, Aligned, Reported
    <3>2. QED
      BY <3>1 DEF Reported
  <2>7. QED
    BY <2>4, <2>5, <2>6 DEF EvaluationInv
<1>5. ASSUME NEW convincing \in BOOLEAN, Judges(convincing) PROVE EvaluationInv'
  <2> DEFINE i == Len(evaluations) + 1
             e == [pvalue |-> pvalues[i],
                   adjusted |-> correction.adjusted[i],
                   significant |-> ~failed[i] /\ i \in correction.rejected,
                   survived |-> convincing /\ i \in correction.rejected]
  <2>1. /\ stage = "judging" /\ i <= n /\ (convincing => ~failed[i])
        /\ evaluations' = Append(evaluations, e)
        /\ UNCHANGED <<stage, n, pvalues, failed, correction, ran>>
    BY <1>5 DEF Judges
  <2>2. evaluations \in Seq(Verdict) /\ i \in 1 .. n /\ n = Len(ran)
    BY <2>1 DEF EvaluationInv, Reported, AllRan, Aligned
  <2>3. pvalues[i] \in 0 .. D /\ correction.adjusted[i] \in {correction.adjusted[h] : h \in 1 .. n}
    <3>1. pvalues \in Seq(0 .. D) /\ Len(pvalues) = Len(ran)
      BY DEF EvaluationInv, Aligned
    <3>2. pvalues[i] \in 0 .. D
      BY <2>2, <3>1, SequenceIsFunction, Zenon
    <3>3. QED
      BY <2>2, <3>2, Zenon
  <2>4. e \in Verdict
    BY <2>3 DEF Verdict
  <2>5. /\ e.pvalue = pvalues[i] /\ (failed[i] => ~e.significant)
        /\ e.survived => e.significant
    BY <2>1
  <2> HIDE DEF e
  <2>6. Aligned' /\ AllRan' /\ IsCorrected'
    BY <2>1 DEF EvaluationInv, Aligned, AllRan, IsCorrected, Corrected,
                Outcome, Halves, n_partitions, NoReturns
  <2>7. Reported'
    <3>1. evaluations' \in Seq(Verdict) /\ Len(evaluations') = i /\ Verdict' = Verdict
      BY <2>1, <2>2, <2>4 DEF Verdict
    <3>2. ASSUME NEW h \in 1 .. i
          PROVE  /\ evaluations'[h].pvalue = pvalues[h]
                 /\ failed[h] => ~evaluations'[h].significant
                 /\ evaluations'[h].survived => evaluations'[h].significant
      <4>1. CASE h = i
        BY <2>1, <2>2, <2>5, <4>1
      <4>2. CASE h \in 1 .. Len(evaluations)
        <5>1. evaluations'[h] = evaluations[h]
          BY <2>1, <2>2, <4>2
        <5>2. QED
          BY <4>2, <5>1 DEF EvaluationInv, Reported
      <4>3. QED
        BY <2>2, <4>1, <4>2
    <3>3. QED
      BY <2>1, <3>1, <3>2 DEF Reported
  <2>8. QED
    BY <2>6, <2>7 DEF EvaluationInv
<1>6. CASE UNCHANGED vars
  BY <1>6 DEF vars, results, EvaluationInv, Aligned, AllRan, IsCorrected, Reported, Corrected,
              Outcome, Verdict, Halves, n_partitions, NoReturns
<1>7. CASE Exits
  <2>1. /\ stage = "backtests" /\ stage' = "aborted" /\ Len(ran) <= n
        /\ evaluations = <<>> /\ UNCHANGED <<n, ran, pvalues, failed, results>>
    BY <1>7 DEF Exits, Pending, EvaluationInv, AllRan, Reported
  <2>2. Aligned' /\ AllRan'
    BY <2>1 DEF EvaluationInv, Aligned, AllRan, Outcome, Halves, n_partitions, NoReturns
  <2>3. IsCorrected' /\ Reported'
    <3>1. n \in Nat
      BY DEF EvaluationInv, Aligned
    <3>2. evaluations' = <<>> /\ stage' = "aborted" /\ n' = n
      BY <2>1 DEF results
    <3>3. QED
      BY <3>1, <3>2 DEF IsCorrected, Corrected, Reported
  <2>4. QED
    BY <2>2, <2>3 DEF EvaluationInv
<1>8. QED
  BY <1>1, <1>2, <1>3, <1>4, <1>5, <1>6, <1>7 DEF Next

LEMMA EvaluationInvariant == Spec => []EvaluationInv
<1>1. QED
  BY InvInit, InvNext, PTL DEF Spec

\* What a report says of a candidate is its own, whichever of them fail.
THEOREM OwnEvaluations == Spec => []EvaluationsAreTheirOwn
<1>1. EvaluationInv => EvaluationsAreTheirOwn
  <2>1. SUFFICES ASSUME EvaluationInv, NEW i \in DOMAIN evaluations
                 PROVE  /\ evaluations[i].pvalue = ran[i].p
                        /\ ran[i].fails => ~evaluations[i].significant
                        /\ evaluations[i].survived => evaluations[i].significant
    BY DEF EvaluationsAreTheirOwn
  <2>2. i \in 1 .. Len(evaluations) /\ i \in 1 .. Len(ran)
    BY <2>1 DEF EvaluationInv, Aligned, AllRan, Reported
  <2>3. pvalues[i] = ran[i].p /\ failed[i] = ran[i].fails
    BY <2>1, <2>2, AlignedAt, Zenon DEF EvaluationInv
  <2>4. QED
    BY <2>1, <2>2, <2>3 DEF EvaluationInv, Reported
<1>2. QED
  BY <1>1, EvaluationInvariant, PTL

\* The candidates benjamini_hochberg rejects in an evaluation are those of the
\* step-up rule, for every number of candidates and every level.
THEOREM ExactStepUp == Spec => []StepUpIsExact
<1>1. EvaluationInv => StepUpIsExact
  <2>1. SUFFICES ASSUME EvaluationInv, Corrected
                 PROVE  correction.rejected = StepUp(pvalues, n, Alpha)
    BY DEF StepUpIsExact, StepUp, Under
  <2>2. PICK o \in Orders(pvalues) : correction.rejected = rejected(pvalues, o, Alpha)
    BY <2>1 DEF EvaluationInv, IsCorrected
  <2>3. n \in Nat /\ Len(pvalues) = n /\ pvalues \in [1 .. n -> Nat]
    <3>1. n \in Nat /\ Len(pvalues) = n /\ pvalues \in Seq(0 .. D)
      BY <2>1 DEF EvaluationInv, Aligned, AllRan, Corrected
    <3>2. pvalues \in [1 .. n -> 0 .. D]
      BY <3>1, SequenceIsFunction, Zenon
    <3>3. 0 .. D \subseteq Nat
      OBVIOUS
    <3>4. QED
      BY <3>1, <3>2, <3>3
  <2>4. Alpha \in Nat
    BY LevelAssumption
  <2>5. QED
    BY <2>2, <2>3, <2>4, RejectedIsStepUp
<1>2. QED
  BY <1>1, EvaluationInvariant, PTL

(***************************************************************************)
(* Without the failed candidates.                                          *)
(***************************************************************************)

\* R is a total order of S.
TotalOrder(R, S) ==
  /\ \A x \in S : <<x, x>> \in R
  /\ \A x, y \in S : <<x, y>> \in R \/ <<y, x>> \in R
  /\ \A x, y \in S : <<x, y>> \in R /\ <<y, x>> \in R => x = y
  /\ \A x, y, z \in S : <<x, y>> \in R /\ <<y, z>> \in R => <<x, z>> \in R

UpTo(R, S, x) == {y \in S : <<y, x>> \in R}
RankIn(R, S) == [x \in S |-> Cardinality(UpTo(R, S, x))]

\* Counting what comes no later numbers the elements 1 to |S|, in order.
LEMMA RanksAreOrdered ==
  ASSUME NEW S, IsFiniteSet(S), NEW R, TotalOrder(R, S)
  PROVE  /\ RankIn(R, S) \in Bijection(S, 1 .. Cardinality(S))
         /\ \A x, y \in S : RankIn(R, S)[x] <= RankIn(R, S)[y] => <<x, y>> \in R
<1>1. \A x \in S : /\ UpTo(R, S, x) \in SUBSET S /\ IsFiniteSet(UpTo(R, S, x))
                   /\ Cardinality(UpTo(R, S, x)) \in Nat
                   /\ Cardinality(UpTo(R, S, x)) <= Cardinality(S)
                   /\ Cardinality(UpTo(R, S, x)) # 0
  <2>1. TAKE x \in S
  <2>2. UpTo(R, S, x) \in SUBSET S /\ x \in UpTo(R, S, x)
    BY DEF UpTo, TotalOrder
  <2>3. /\ IsFiniteSet(UpTo(R, S, x)) /\ Cardinality(UpTo(R, S, x)) \in Nat
        /\ Cardinality(UpTo(R, S, x)) <= Cardinality(S)
    BY <2>2, FS_Subset, FS_CardinalityType
  <2>4. Cardinality(UpTo(R, S, x)) # 0
    BY <2>2, <2>3, FS_EmptySet
  <2>5. QED
    BY <2>2, <2>3, <2>4
<1>2. Cardinality(S) \in Nat
  BY FS_CardinalityType
<1>3. \A x \in S : RankIn(R, S)[x] = Cardinality(UpTo(R, S, x))
  BY DEF RankIn
<1>4. RankIn(R, S) \in [S -> 1 .. Cardinality(S)]
  <2>1. \A x \in S : Cardinality(UpTo(R, S, x)) \in 1 .. Cardinality(S)
    BY <1>1, <1>2
  <2>2. QED
    BY <2>1 DEF RankIn
<1>5. ASSUME NEW x \in S, NEW y \in S, RankIn(R, S)[x] <= RankIn(R, S)[y]
      PROVE  <<x, y>> \in R
  <2>1. SUFFICES ASSUME <<y, x>> \in R PROVE <<x, y>> \in R
    BY DEF TotalOrder
  <2>2. UpTo(R, S, y) \in SUBSET UpTo(R, S, x)
    BY <2>1 DEF UpTo, TotalOrder
  <2>3. Cardinality(UpTo(R, S, y)) <= Cardinality(UpTo(R, S, x))
    BY <1>1, <2>2, FS_Subset
  <2>4. Cardinality(UpTo(R, S, x)) <= Cardinality(UpTo(R, S, y))
    BY <1>3, <1>5
  <2>5. Cardinality(UpTo(R, S, x)) = Cardinality(UpTo(R, S, y))
    BY <1>1, <2>3, <2>4
  <2>6. UpTo(R, S, x) = UpTo(R, S, y)
    BY <1>1, <2>2, <2>5, FS_Subset
  <2>7. x \in UpTo(R, S, x)
    BY DEF UpTo, TotalOrder
  <2>8. QED
    BY <2>6, <2>7 DEF UpTo
<1>6. RankIn(R, S) \in Injection(S, 1 .. Cardinality(S))
  <2>1. ASSUME NEW x \in S, NEW y \in S, RankIn(R, S)[x] = RankIn(R, S)[y] PROVE x = y
    <3>1. RankIn(R, S)[x] <= RankIn(R, S)[y] /\ RankIn(R, S)[y] <= RankIn(R, S)[x]
      BY <1>1, <1>3, <2>1
    <3>2. QED
      BY <1>5, <3>1 DEF TotalOrder
  <2>2. QED
    BY <1>4, <2>1 DEF Injection, IsInjective
<1>7. RankIn(R, S) \in Surjection(S, 1 .. Cardinality(S))
  <2>1. IsFiniteSet(1 .. Cardinality(S)) /\ Cardinality(1 .. Cardinality(S)) = Cardinality(S)
    BY <1>2, FS_Interval
  <2>2. QED
    BY <1>6, <2>1, FS_Injection
<1>8. QED
  BY <1>5, <1>6, <1>7 DEF Bijection

\* argsort can always sort.
LEMMA OrderExists ==
  ASSUME NEW m \in Nat, NEW p \in [1 .. m -> Nat], Len(p) = m
  PROVE  \E o : o \in Orders(p)
<1> DEFINE S == 1 .. m
           R == {w \in S \X S : p[w[1]] < p[w[2]] \/ (p[w[1]] = p[w[2]] /\ w[1] <= w[2])}
           rank == RankIn(R, S)
<1>1. \A i, j \in S : <<i, j>> \in R <=> p[i] < p[j] \/ (p[i] = p[j] /\ i <= j)
  OBVIOUS
<1>2. \A i \in S : p[i] \in Nat /\ i \in Nat
  OBVIOUS
<1>3. TotalOrder(R, S)
  <2>1. \A i, j \in S : <<i, j>> \in R \/ <<j, i>> \in R
    <3>1. TAKE i, j \in S
    <3>2. PICK a \in Nat, b \in Nat : a = p[i] /\ b = p[j]
      BY <1>2
    <3>3. QED
      BY <1>1, <1>2, <3>2
  <2>2. \A i, j \in S : <<i, j>> \in R /\ <<j, i>> \in R => i = j
    <3>1. TAKE i, j \in S
    <3>2. PICK a \in Nat, b \in Nat : a = p[i] /\ b = p[j]
      BY <1>2
    <3>3. QED
      BY <1>1, <1>2, <3>2
  <2>3. \A i, j, k \in S : <<i, j>> \in R /\ <<j, k>> \in R => <<i, k>> \in R
    <3>1. TAKE i, j, k \in S
    <3>2. PICK a \in Nat, b \in Nat, c \in Nat : a = p[i] /\ b = p[j] /\ c = p[k]
      BY <1>2
    <3>3. QED
      BY <1>1, <1>2, <3>2
  <2>4. \A i \in S : <<i, i>> \in R
    BY <1>1, <1>2
  <2> HIDE DEF R, S
  <2>5. QED
    BY <2>1, <2>2, <2>3, <2>4, Zenon DEF TotalOrder
<1>4. IsFiniteSet(S) /\ Cardinality(S) = m
  BY FS_Interval
<1> HIDE DEF R
<1>5. rank \in Bijection(S, S) /\ \A i, j \in S : rank[i] <= rank[j] => <<i, j>> \in R
  BY <1>3, <1>4, RanksAreOrdered
<1> HIDE DEF rank
<1> DEFINE o == [k \in S |-> CHOOSE i \in S : rank[i] = k]
<1>6. \A k \in S : o[k] \in S /\ rank[o[k]] = k
  BY <1>5 DEF Bijection, Surjection
<1> HIDE DEF o
<1>7. o \in Permutation(m)
  <2>1. o \in [1 .. m -> 1 .. m]
    BY <1>6 DEF o
  <2>2. \A i, j \in 1 .. m : o[i] = o[j] => i = j
    BY <1>6, Zenon
  <2>3. QED
    BY <2>1, <2>2, Zenon DEF Permutation
<1>8. \A i, j \in 1 .. m : i <= j => p[o[i]] <= p[o[j]]
  <2>1. TAKE i, j \in 1 .. m
  <2>2. HAVE i <= j
  <2>3. o[i] \in S /\ o[j] \in S /\ rank[o[i]] = i /\ rank[o[j]] = j
    BY <1>6, Zenon
  <2>4. <<o[i], o[j]>> \in R
    BY <1>5, <2>2, <2>3, Zenon
  <2>5. PICK a \in Nat, b \in Nat : a = p[o[i]] /\ b = p[o[j]]
    BY <1>2, <2>3, Zenon
  <2>6. p[o[i]] < p[o[j]] \/ p[o[i]] = p[o[j]]
    BY <1>1, <2>3, <2>4, Zenon
  <2>7. QED
    BY <2>5, <2>6
<1>9. QED
  BY <1>7, <1>8, Zenon DEF Orders

LEMMA LessIsTotal == ASSUME NEW C, C \subseteq Int PROVE TotalOrder({w \in C \X C : w[1] <= w[2]}, C)
<1> DEFINE R == {w \in C \X C : w[1] <= w[2]}
<1>1. \A i, j \in C : <<i, j>> \in R <=> i <= j
  OBVIOUS
<1> HIDE DEF R
<1>2. TotalOrder(R, C)
  BY <1>1 DEF TotalOrder
<1>3. QED
  BY <1>2 DEF R

\* The candidates of C, in the order they ran, are numbered 1 to |C|.
Place(C, i) == Cardinality({h \in C : h <= i})

LEMMA Places ==
  ASSUME NEW C, C \subseteq Int, IsFiniteSet(C)
  PROVE  /\ \A i \in C : Place(C, i) \in 1 .. Cardinality(C)
         /\ \A i, j \in C : Place(C, i) = Place(C, j) => i = j
         /\ \A k \in 1 .. Cardinality(C) : \E i \in C : Place(C, i) = k
<1> DEFINE R == {w \in C \X C : w[1] <= w[2]}
<1>1. \A i \in C : UpTo(R, C, i) = {h \in C : h <= i}
  BY DEF UpTo
<1>2. TotalOrder(R, C)
  BY LessIsTotal
<1>3. RankIn(R, C) \in Bijection(C, 1 .. Cardinality(C))
  <2> HIDE DEF R
  <2>1. QED
    BY <1>2, RanksAreOrdered
<1>4. \A i \in C : RankIn(R, C)[i] = Place(C, i)
  BY <1>1, Zenon DEF RankIn, Place
<1> HIDE DEF R
<1>5. QED
  BY <1>3, <1>4 DEF Bijection, Injection, IsInjective, Surjection

\* What is significant among all the candidates is so among those that ran.
LEMMA StricterWithFailures ==
  ASSUME NEW m \in Nat, NEW p \in [1 .. m -> 0 .. D], NEW C \in SUBSET (1 .. m),
         \A c \in (1 .. m) \ C : p[c] = D,
         NEW q \in [1 .. Cardinality(C) -> 0 .. D],
         \A c \in C : q[Place(C, c)] = p[c],
         NEW i \in C, i \in StepUp(p, m, Alpha)
  PROVE  Place(C, i) \in StepUp(q, Cardinality(C), Alpha)
<1>1. PICK k \in 1 .. m : /\ i \in Under(p, m, k, Alpha)
                          /\ Cardinality(Under(p, m, k, Alpha)) >= k
  BY DEF StepUp
<1> DEFINE U == Under(p, m, k, Alpha)
           g == Cardinality(C)
           V == Under(q, g, k, Alpha)
<1>2. D \in Nat /\ Alpha \in Nat /\ Alpha < D
  BY LevelAssumption
<1>3. IsFiniteSet(C) /\ g \in Nat /\ C \subseteq Int /\ g <= m
  <2>1. IsFiniteSet(1 .. m) /\ Cardinality(1 .. m) = m
    BY FS_Interval
  <2>2. IsFiniteSet(C) /\ Cardinality(C) <= Cardinality(1 .. m)
    BY <2>1, FS_Subset, Zenon
  <2>3. g \in Nat
    BY <2>2, FS_CardinalityType
  <2>4. QED
    BY <2>1, <2>2, <2>3
<1>4. U \in SUBSET C
  <2>1. ASSUME NEW c \in U, c \notin C PROVE FALSE
    <3>0. m > 0
      OBVIOUS
    <3>1. c \in 1 .. m /\ p[c] * m <= k * Alpha
      BY <2>1 DEF Under
    <3>2. D * m <= k * Alpha
      BY <2>1, <3>1
    <3>3. k * Alpha <= m * Alpha
      BY <1>2, Monotone
    <3>4. PICK d \in Nat \ {0} : D = Alpha + d
      BY <1>2, D - Alpha \in Nat \ {0}, D = Alpha + (D - Alpha)
    <3>5. D * m = m * Alpha + d * m /\ d * m > 0
      BY <1>2, <3>0, <3>4
    <3>6. m * Alpha \in Int /\ d * m \in Int /\ k * Alpha \in Int
      BY <1>2, <3>4
    <3>7. k * Alpha <= m * Alpha /\ m * Alpha + d * m <= k * Alpha
      BY <3>2, <3>3, <3>5
    <3>8. PICK x \in Int, y \in Int, z \in Int :
            x = k * Alpha /\ y = m * Alpha /\ z = d * m
      BY <3>6
    <3>9. x <= y /\ y + z <= x /\ z > 0
      BY <3>5, <3>7, <3>8
    <3>10. QED
      BY <3>9
  <2>2. QED
    BY <2>1
<1>5. IsFiniteSet(U) /\ Cardinality(U) \in Nat /\ Cardinality(U) <= g
  BY <1>3, <1>4, FS_Subset, FS_CardinalityType
<1>6. k \in 1 .. g
  BY <1>1, <1>3, <1>5
<1>7. \A c \in U : Place(C, c) \in V
  <2>1. TAKE c \in U
  <2>2. c \in C /\ Place(C, c) \in 1 .. g /\ p[c] * m <= k * Alpha
    BY <1>3, <1>4, Places DEF Under
  <2>3. PICK a \in Nat : a = p[c] /\ a = q[Place(C, c)]
    BY <2>2
  <2>4. a * g <= a * m /\ a * g \in Nat /\ a * m \in Nat /\ k * Alpha \in Nat
    <3>1. PICK d \in Nat : m = g + d
      BY <1>3, m - g \in Nat, m = g + (m - g)
    <3>2. a * m = a * g + a * d /\ a * d \in Nat /\ a * g \in Nat
      BY <1>3, <3>1
    <3>3. QED
      BY <1>2, <3>2
  <2>5. q[Place(C, c)] * g <= k * Alpha
    BY <2>2, <2>3, <2>4
  <2>6. QED
    BY <2>2, <2>5, Zenon DEF Under
<1>8. IsFiniteSet(V)
  <2>1. V \in SUBSET (1 .. g) /\ IsFiniteSet(1 .. g)
    BY <1>3, FS_Interval DEF Under
  <2>2. QED
    BY <2>1, FS_Subset
<1>9. [c \in U |-> Place(C, c)] \in Injection(U, V)
  BY <1>3, <1>4, <1>7, Places DEF Injection, IsInjective
<1>10. Cardinality(V) >= k
  <2>1. Cardinality(U) <= Cardinality(V) /\ Cardinality(V) \in Nat
    BY <1>8, <1>9, FS_Injection, FS_CardinalityType
  <2>2. QED
    BY <1>1, <1>5, <2>1
<1>11. Place(C, i) \in V /\ Place(C, i) \in 1 .. g
  BY <1>1, <1>3, <1>7, Places
<1>12. QED
  BY <1>6, <1>10, <1>11, Zenon DEF StepUp

\* OwnP lists the p-values of the candidates of C in the order they ran.
LEMMA OwnPIs ==
  ASSUME Aligned, Len(ran) = n, NEW C \in SUBSET (1 .. n)
  PROVE  /\ IsFiniteSet(C) /\ Cardinality(C) \in Nat
         /\ OwnP(C) \in [1 .. Cardinality(C) -> 0 .. D]
         /\ \A c \in C : OwnP(C)[Place(C, c)] = ran[c].p
<1>1. n \in Nat /\ C \subseteq Int
  BY DEF Aligned
<1>2. IsFiniteSet(C) /\ Cardinality(C) \in Nat
  <2>1. IsFiniteSet(1 .. n)
    BY <1>1, FS_Interval
  <2>2. IsFiniteSet(C)
    BY <2>1, FS_Subset
  <2>3. QED
    BY <2>2, FS_CardinalityType
<1>3. \A c \in C : ran[c].p \in 0 .. D
  <2>1. TAKE c \in C
  <2>2. c \in 1 .. Len(ran)
    OBVIOUS
  <2>3. ran \in [1 .. Len(ran) -> Outcome]
    BY SequenceIsFunction DEF Aligned
  <2>4. ran[c] \in Outcome
    BY <2>2, <2>3
  <2>5. QED
    BY <2>4 DEF Outcome
<1> DEFINE at(k) == CHOOSE i \in C : Place(C, i) = k
<1>3a. /\ \A i \in C : Place(C, i) \in 1 .. Cardinality(C)
       /\ \A i, j \in C : Place(C, i) = Place(C, j) => i = j
       /\ \A k \in 1 .. Cardinality(C) : \E i \in C : Place(C, i) = k
  BY <1>1, <1>2, Places
<1>4. \A k \in 1 .. Cardinality(C) : at(k) \in C /\ Place(C, at(k)) = k
  BY <1>3a, Zenon
<1>5. OwnP(C) = [k \in 1 .. Cardinality(C) |-> ran[at(k)].p]
  BY DEF OwnP, Place
<1> HIDE DEF at
<1>6. OwnP(C) \in [1 .. Cardinality(C) -> 0 .. D]
  BY <1>3, <1>4, <1>5
<1>7. ASSUME NEW c \in C PROVE OwnP(C)[Place(C, c)] = ran[c].p
  <2>1. Place(C, c) \in 1 .. Cardinality(C)
    BY <1>3a
  <2>2. at(Place(C, c)) = c
    BY <1>4, <1>3a, <2>1, Zenon
  <2>3. QED
    BY <1>5, <2>1, <2>2
<1>8. QED
  BY <1>2, <1>6, <1>7

\* A candidate that crashes makes the test stricter: what is significant would
\* be so without the failed ones, and what Bonferroni rejects is rejected, for
\* any number of candidates and however equal p-values are ordered.
THEOREM FailuresMakeStricter == Spec => []FailuresOnlyHurt
<1> DEFINE good == {i \in 1 .. n : ~ran[i].fails}
           alone == OwnP(good)
<1>1. ASSUME EvaluationInv, StepUpIsExact, Corrected
      PROVE  /\ \A i \in correction.rejected \cap good :
                  \E o \in Orders(alone) : Place(good, i) \in rejected(alone, o, Alpha)
             /\ bonferroni([i \in 1 .. n |-> ran[i].p], Alpha) \subseteq correction.rejected
  <2>1. Aligned /\ Len(ran) = n /\ n \in Nat /\ Alpha \in Nat
    BY <1>1, LevelAssumption DEF EvaluationInv, Aligned, AllRan, Corrected
  <2>2. correction.rejected = StepUp(pvalues, n, Alpha)
    BY <1>1 DEF StepUpIsExact, StepUp, Under
  <2>3. pvalues \in [1 .. n -> 0 .. D] /\ \A i \in 1 .. n : pvalues[i] = ran[i].p
    <3>1. pvalues \in Seq(0 .. D) /\ Len(pvalues) = n
      BY <2>1 DEF Aligned
    <3>2. QED
      BY <2>1, <3>1, SequenceIsFunction, AlignedAt
  <2>4. /\ Cardinality(good) \in Nat /\ good \in SUBSET (1 .. n)
        /\ alone \in [1 .. Cardinality(good) -> 0 .. D]
        /\ \A c \in good : alone[Place(good, c)] = pvalues[c]
    BY <2>1, <2>3, OwnPIs
  <2>5. \A c \in (1 .. n) \ good : pvalues[c] = D
    BY <2>1, <2>3, AlignedAt
  <2> HIDE DEF good, alone
  <2>6. ASSUME NEW i \in correction.rejected \cap good
        PROVE  \E o \in Orders(alone) : Place(good, i) \in rejected(alone, o, Alpha)
    <3>1. Place(good, i) \in StepUp(alone, Cardinality(good), Alpha)
      BY <2>1, <2>2, <2>3, <2>4, <2>5, StricterWithFailures
    <3>2. alone \in [1 .. Cardinality(good) -> Nat] /\ Len(alone) = Cardinality(good)
      BY <2>4
    <3>3. PICK o : o \in Orders(alone)
      BY <2>4, <3>2, OrderExists
    <3>4. rejected(alone, o, Alpha) = StepUp(alone, Cardinality(good), Alpha)
      BY <2>1, <2>4, <3>2, <3>3, RejectedIsStepUp
    <3>5. QED
      BY <3>1, <3>3, <3>4
  <2>7. ASSUME NEW i \in bonferroni([c \in 1 .. n |-> ran[c].p], Alpha)
        PROVE  i \in StepUp(pvalues, n, Alpha)
    <3>1. i \in 1 .. n /\ pvalues[i] * n <= Alpha
      BY <2>1, <2>3 DEF bonferroni
    <3>2. 1 \in 1 .. n /\ 1 * Alpha = Alpha
      BY <2>1, <3>1
    <3>3. i \in Under(pvalues, n, 1, Alpha)
      BY <3>1, <3>2 DEF Under
    <3>4. IsFiniteSet(Under(pvalues, n, 1, Alpha))
      <4>1. IsFiniteSet(1 .. n) /\ Under(pvalues, n, 1, Alpha) \in SUBSET (1 .. n)
        BY <2>1, FS_Interval DEF Under
      <4>2. QED
        BY <4>1, FS_Subset
    <3>5. Cardinality(Under(pvalues, n, 1, Alpha)) >= 1
      <4>1. Cardinality(Under(pvalues, n, 1, Alpha)) \in Nat
        BY <3>4, FS_CardinalityType
      <4>2. Cardinality(Under(pvalues, n, 1, Alpha)) # 0
        BY <3>3, <3>4, FS_EmptySet
      <4>3. QED
        BY <4>1, <4>2
    <3>6. QED
      BY <3>1, <3>2, <3>3, <3>5, Zenon DEF StepUp
  <2>8. QED
    BY <2>2, <2>6, <2>7
<1>2. EvaluationInv /\ StepUpIsExact => FailuresOnlyHurt
  BY <1>1, Zenon DEF FailuresOnlyHurt, Place
<1>3. QED
  BY <1>2, EvaluationInvariant, ExactStepUp, PTL

(***************************************************************************)
(* The adjusted p-values.  Functions defined by recursion are reasoned     *)
(* about through sets of numbers that are closed under the successor.      *)
(***************************************************************************)
LEMMA EveryNumber ==
  ASSUME NEW T, 0 \in T, \A k \in Nat : k \in T => k + 1 \in T
  PROVE  Nat \subseteq T
<1>1. SUFFICES ASSUME NEW x \in Nat, x \notin T PROVE FALSE
  OBVIOUS
<1> DEFINE B == {k \in Nat : k \notin T}
<1>2. B \subseteq Nat /\ B # {}
  BY <1>1
<1>3. PICK k \in B : \A y \in B : ~ (<<y, k>> \in OpToRel(<, Nat))
  <2> HIDE DEF B
  <2>1. QED
    BY <1>2, NatLessThanWellFounded, WFMin
<1>4. k # 0 /\ k - 1 \in Nat /\ k = (k - 1) + 1
  OBVIOUS
<1>5. k - 1 \in B
  BY <1>4
<1>6. <<k - 1, k>> \in OpToRel(<, Nat)
  BY <1>4 DEF OpToRel
<1>7. QED
  BY <1>3, <1>5, <1>6

LEMMA FactorialIs ==
  ASSUME NEW m \in Nat
  PROVE  \E f : /\ f = [i \in 0 .. m |-> IF i = 0 THEN 1 ELSE i * f[i - 1]]
                /\ Factorial(m) = f[m]
<1> DEFINE T == {k \in Nat : \E f : f = [i \in 0 .. k |-> IF i = 0 THEN 1 ELSE i * f[i - 1]]}
<1>1. 0 \in T
  <2>1. [i \in 0 .. 0 |-> 1] = [i \in 0 .. 0 |-> IF i = 0 THEN 1 ELSE i * [j \in 0 .. 0 |-> 1][i - 1]]
    OBVIOUS
  <2>2. QED
    BY <2>1
<1>2. \A k \in Nat : k \in T => k + 1 \in T
  <2>1. TAKE k \in Nat
  <2>2. HAVE k \in T
  <2>3. PICK f : f = [i \in 0 .. k |-> IF i = 0 THEN 1 ELSE i * f[i - 1]]
    BY <2>2
  <2> DEFINE g == [i \in 0 .. k + 1 |-> IF i = k + 1 THEN (k + 1) * f[k] ELSE f[i]]
  <2>4. g = [i \in 0 .. k + 1 |-> IF i = 0 THEN 1 ELSE i * g[i - 1]]
    <3>1. \A i \in 0 .. k + 1 : g[i] = IF i = 0 THEN 1 ELSE i * g[i - 1]
      <4>1. TAKE i \in 0 .. k + 1
      <4>2. CASE i = k + 1
        BY <4>2
      <4>3. CASE i \in 0 .. k
        <5>1. f[i] = IF i = 0 THEN 1 ELSE i * f[i - 1]
          BY <2>3, <4>3
        <5>2. QED
          BY <4>3, <5>1
      <4>4. QED
        BY <4>2, <4>3
    <3>2. g = [i \in 0 .. k + 1 |-> g[i]]
      OBVIOUS
    <3> HIDE DEF g
    <3>3. QED
      BY <3>1, <3>2
  <2> HIDE DEF g
  <2>5. QED
    BY <2>4
<1>3. m \in T
  <2> HIDE DEF T
  <2>1. QED
    BY <1>1, <1>2, EveryNumber
<1> DEFINE F == CHOOSE f : f = [i \in 0 .. m |-> IF i = 0 THEN 1 ELSE i * f[i - 1]]
<1>4. F = [i \in 0 .. m |-> IF i = 0 THEN 1 ELSE i * F[i - 1]]
  BY <1>3, Zenon
<1>5. Factorial(m) = F[m]
  BY DEF Factorial
<1>6. QED
  BY <1>4, <1>5

\* A quotient that is a whole number.
LEMMA WholeQuotient ==
  ASSUME NEW i \in Nat \ {0}, NEW q \in Nat, NEW F, F = i * q
  PROVE  F \div i = q
<1>1. F \in Nat
  OBVIOUS
<1>2. PICK d \in Int, r \in 0 .. i - 1 : F = i * d + r /\ F \div i = d
  <2>1. F = i * (F \div i) + (F % i) /\ F \div i \in Int /\ F % i \in 0 .. i - 1
    BY <1>1
  <2>2. QED
    BY <2>1
<1>3. i * (q - d) = r
  BY <1>2
<1>4. q - d \in Int /\ r >= 0 /\ r < i
  BY <1>2
<1>5. CASE q - d >= 1
  <2>1. PICK e \in Nat : q - d = 1 + e
    BY <1>4, <1>5, q - d - 1 \in Nat, q - d = 1 + (q - d - 1)
  <2>2. i * (1 + e) = i + i * e /\ i * e >= 0
    BY <2>1
  <2>3. QED
    BY <1>3, <1>4, <2>1, <2>2
<1>6. CASE q - d <= -1
  <2>1. PICK e \in Nat : q - d = -(1 + e)
    BY <1>4, <1>6, -(q - d) - 1 \in Nat, q - d = -(1 + (-(q - d) - 1))
  <2>2. i * (-(1 + e)) = -(i + i * e) /\ i * e >= 0
    BY <2>1
  <2>3. QED
    BY <1>3, <1>4, <2>1, <2>2
<1>7. QED
  BY <1>2, <1>4, <1>5, <1>6

\* m! is positive, and a multiple of every rank.
LEMMA FactorialDivides ==
  ASSUME NEW m \in Nat
  PROVE  /\ Factorial(m) \in Nat \ {0}
         /\ \A i \in 1 .. m : /\ Factorial(m) \div i \in Nat \ {0}
                              /\ i * (Factorial(m) \div i) = Factorial(m)
<1>1. PICK f : /\ f = [i \in 0 .. m |-> IF i = 0 THEN 1 ELSE i * f[i - 1]]
               /\ Factorial(m) = f[m]
  BY FactorialIs
<1> DEFINE Multiple(k) == f[k] \in Nat \ {0} /\ \A i \in 1 .. k : \E q \in Nat : f[k] = i * q
           T == {k \in Nat : k <= m => Multiple(k)}
<1>2. 0 \in T
  <2>1. f[0] = 1
    BY <1>1
  <2>2. QED
    BY <2>1
<1>3. ASSUME NEW k \in Nat, k + 1 <= m, Multiple(k) PROVE Multiple(k + 1)
  <2>1. f[k + 1] = (k + 1) * f[k] /\ f[k] \in Nat \ {0}
    <3>1. k + 1 \in 0 .. m /\ k + 1 # 0 /\ (k + 1) - 1 = k
      BY <1>3
    <3>2. QED
      BY <1>1, <1>3, <3>1
  <2>2. f[k + 1] \in Nat \ {0}
    BY <2>1
  <2>3. ASSUME NEW i \in 1 .. k + 1 PROVE \E q \in Nat : f[k + 1] = i * q
    <3>1. CASE i = k + 1
      BY <2>1, <3>1
    <3>2. CASE i \in 1 .. k
      <4>1. PICK q \in Nat : f[k] = i * q
        BY <1>3, <3>2
      <4>2. (k + 1) * (i * q) = i * ((k + 1) * q) /\ (k + 1) * q \in Nat
        OBVIOUS
      <4>3. QED
        BY <2>1, <4>1, <4>2
    <3>3. QED
      BY <3>1, <3>2
  <2>4. QED
    BY <2>2, <2>3
<1>4. \A k \in Nat : k \in T => k + 1 \in T
  <2>1. TAKE k \in Nat
  <2>2. HAVE k \in T
  <2> HIDE DEF Multiple
  <2>3. CASE k + 1 <= m
    BY <1>3, <2>2, <2>3
  <2>4. CASE ~(k + 1 <= m)
    BY <2>4
  <2>5. QED
    BY <2>3, <2>4
<1>5. Multiple(m)
  <2>1. m \in T
    <3> HIDE DEF T
    <3>1. QED
      BY <1>2, <1>4, EveryNumber
  <2> HIDE DEF Multiple
  <2>2. QED
    BY <2>1
<1>6. ASSUME NEW i \in 1 .. m
      PROVE  /\ Factorial(m) \div i \in Nat \ {0}
             /\ i * (Factorial(m) \div i) = Factorial(m)
  <2>1. PICK q \in Nat : f[m] = i * q
    BY <1>5
  <2>2. q # 0
    BY <1>5, <2>1
  <2>3. f[m] \div i = q
    BY <2>1, WholeQuotient
  <2>4. QED
    BY <1>1, <2>1, <2>2, <2>3
<1>7. QED
  BY <1>1, <1>5, <1>6

\* f is defined downwards from the rank a on.
Descends(f, a, val, m, top) ==
  f = [i \in a .. m + 1 |->
         IF i = m + 1 THEN top ELSE IF val[i] < f[i + 1] THEN val[i] ELSE f[i + 1]]

\* The function by which running_min is defined exists.
LEMMA RunningMinIs ==
  ASSUME NEW val, NEW m \in Nat, NEW top
  PROVE  Descends(running_min(val, m, top), 1, val, m, top)
<1> DEFINE From(a, f) == f = [i \in a .. m + 1 |->
                                IF i = m + 1 THEN top
                                ELSE IF val[i] < f[i + 1] THEN val[i] ELSE f[i + 1]]
           T == {k \in Nat : k <= m => \E f : From(m + 1 - k, f)}
<1>1. 0 \in T
  <2> DEFINE f == [i \in m + 1 .. m + 1 |-> top]
  <2>1. From(m + 1, f)
    OBVIOUS
  <2> HIDE DEF f, From
  <2>2. m + 1 - 0 = m + 1
    OBVIOUS
  <2>3. QED
    BY <2>1, <2>2
<1>2. ASSUME NEW k \in Nat, k + 1 <= m, \E f : From(m + 1 - k, f)
      PROVE  \E f : From(m + 1 - (k + 1), f)
  <2>1. PICK a \in 1 .. m + 1 : a = m + 1 - k /\ m + 1 - (k + 1) = a - 1 /\ a - 1 \in 1 .. m
    BY <1>2
  <2>2. PICK f : From(a, f)
    BY <1>2, <2>1
  <2> DEFINE least == IF val[a - 1] < f[a] THEN val[a - 1] ELSE f[a]
             g == [i \in a - 1 .. m + 1 |-> IF i = a - 1 THEN least ELSE f[i]]
  <2>3. \A i \in a - 1 .. m + 1 :
          g[i] = IF i = m + 1 THEN top
                 ELSE IF val[i] < g[i + 1] THEN val[i] ELSE g[i + 1]
    <3>1. TAKE i \in a - 1 .. m + 1
    <3>2. CASE i = a - 1
      <4>1. g[i] = least /\ i # m + 1 /\ i + 1 = a /\ i + 1 \in a - 1 .. m + 1
        BY <2>1, <3>2
      <4>2. g[i + 1] = f[a]
        BY <2>1, <4>1
      <4> HIDE DEF g
      <4>3. QED
        BY <3>2, <4>1, <4>2
    <3>3. CASE i \in a .. m + 1
      <4>1. g[i] = f[i] /\ (i # m + 1 => g[i + 1] = f[i + 1])
        BY <2>1, <3>3
      <4>2. f[i] = IF i = m + 1 THEN top
                   ELSE IF val[i] < f[i + 1] THEN val[i] ELSE f[i + 1]
        BY <2>2, <3>3
      <4> HIDE DEF g
      <4>3. QED
        BY <4>1, <4>2
    <3>4. QED
      BY <2>1, <3>2, <3>3
  <2>4. g = [i \in a - 1 .. m + 1 |-> g[i]]
    OBVIOUS
  <2>5. From(a - 1, g)
    <3> HIDE DEF g
    <3>1. QED
      BY <2>3, <2>4
  <2> HIDE DEF From, g
  <2>6. QED
    BY <2>1, <2>5
<1>3. \A k \in Nat : k \in T => k + 1 \in T
  <2>1. TAKE k \in Nat
  <2>2. HAVE k \in T
  <2> HIDE DEF From
  <2>3. CASE k + 1 <= m
    BY <1>2, <2>2, <2>3
  <2>4. CASE ~(k + 1 <= m)
    BY <2>4
  <2>5. QED
    BY <2>3, <2>4
<1>4. \E f : From(1, f)
  <2>1. m \in T
    <3> HIDE DEF T
    <3>1. QED
      BY <1>1, <1>3, EveryNumber
  <2>2. m + 1 - m = 1
    OBVIOUS
  <2> HIDE DEF From
  <2>3. QED
    BY <2>1, <2>2
<1> DEFINE F == CHOOSE f : From(1, f)
<1>5. F = running_min(val, m, top)
  BY DEF running_min
<1>6. Descends(F, 1, val, m, top)
  <2>1. From(1, F)
    BY <1>4, Zenon
  <2>2. QED
    BY <2>1 DEF Descends
<1> HIDE DEF F
<1>7. QED
  BY <1>5, <1>6

\* It is the least of the values from a rank on and the top.
LEMMA RunningMinLeast ==
  ASSUME NEW m \in Nat, NEW val \in [1 .. m -> Nat], NEW top \in Nat
  PROVE  \A i \in 1 .. m :
           LET x == running_min(val, m, top)[i]
           IN /\ x \in Nat /\ x <= top
              /\ \A j \in i .. m : x <= val[j]
              /\ x = top \/ \E j \in i .. m : x = val[j]
<1> DEFINE f == running_min(val, m, top)
           Least(i) == /\ f[i] \in Nat /\ f[i] <= top
                       /\ \A j \in i .. m : f[i] <= val[j]
                       /\ f[i] = top \/ \E j \in i .. m : f[i] = val[j]
           T == {k \in Nat : k <= m => Least(m + 1 - k)}
<1>1. \A i \in 1 .. m + 1 :
        f[i] = IF i = m + 1 THEN top ELSE IF val[i] < f[i + 1] THEN val[i] ELSE f[i + 1]
  <2>1. PICK g : g = f /\ Descends(g, 1, val, m, top)
    BY RunningMinIs
  <2> HIDE DEF f
  <2>2. QED
    BY <2>1 DEF Descends
<1> HIDE DEF f
<1>2. 0 \in T
  <2>1. f[m + 1] = top /\ m + 1 - 0 = m + 1
    BY <1>1
  <2>2. QED
    BY <2>1
<1>3. ASSUME NEW i \in 1 .. m, Least(i + 1) PROVE Least(i)
  <2>1. f[i] = IF val[i] < f[i + 1] THEN val[i] ELSE f[i + 1]
    BY <1>1
  <2>2. PICK a \in Nat, b \in Nat : a = val[i] /\ b = f[i + 1] /\ b <= top
    BY <1>3
  <2>3. f[i] = IF a < b THEN a ELSE b
    BY <2>1, <2>2
  <2>4. \A j \in i .. m : j = i \/ j \in i + 1 .. m
    OBVIOUS
  <2>5. \A j \in i + 1 .. m : b <= val[j] /\ val[j] \in Nat
    BY <1>3, <2>2
  <2>6. \A j \in i .. m : f[i] <= val[j]
    BY <2>2, <2>3, <2>4, <2>5
  <2>7. f[i] = top \/ \E j \in i .. m : f[i] = val[j]
    <3>1. CASE a < b
      BY <2>2, <2>3, <3>1
    <3>2. CASE ~(a < b)
      BY <1>3, <2>2, <2>3, <3>2
    <3>3. QED
      BY <3>1, <3>2
  <2>8. QED
    BY <2>2, <2>3, <2>6, <2>7
<1>4. \A k \in Nat : k \in T => k + 1 \in T
  <2>1. TAKE k \in Nat
  <2>2. HAVE k \in T
  <2> HIDE DEF Least
  <2>3. CASE k + 1 <= m
    <3>1. PICK i \in 1 .. m : i = m + 1 - (k + 1) /\ i + 1 = m + 1 - k
      BY <2>3
    <3>2. Least(i)
      BY <1>3, <2>2, <2>3, <3>1
    <3>3. QED
      BY <3>1, <3>2
  <2>4. CASE ~(k + 1 <= m)
    BY <2>4
  <2>5. QED
    BY <2>3, <2>4
<1>5. T = Nat
  <2> HIDE DEF Least
  <2>1. T \subseteq Nat
    OBVIOUS
  <2> HIDE DEF T
  <2>2. QED
    BY <1>2, <1>4, <2>1, EveryNumber
<1>6. ASSUME NEW i \in 1 .. m PROVE Least(i)
  <2>1. PICK k \in Nat : k <= m /\ i = m + 1 - k
    BY m + 1 - i \in Nat, m + 1 - i <= m, i = m + 1 - (m + 1 - i)
  <2> HIDE DEF Least
  <2>2. QED
    BY <1>5, <2>1
<1>7. QED
  BY <1>6 DEF f

\* One raw value, p * m / rank in units of 1 / (D * m!), against a multiple of
\* the level and of a p-value no larger.
LEMMA RawValue ==
  ASSUME NEW m \in Nat, NEW i \in 1 .. m, NEW P \in Nat, NEW h \in Nat \ {0},
         NEW F \in Nat, i * h = F, NEW alpha \in Nat
  PROVE  /\ P * m * h \in Nat
         /\ P * m * h <= alpha * F <=> P * m <= i * alpha
         /\ \A Q \in Nat : Q <= P => Q * F <= P * m * h
<1>1. PICK a \in Nat, b \in Nat : a = P * m /\ b = i * alpha
  OBVIOUS
<1>2. P * m * h = a * h /\ alpha * F = b * h /\ a * h \in Nat /\ b * h \in Nat
  <2>1. alpha * (i * h) = (i * alpha) * h
    OBVIOUS
  <2>2. QED
    BY <1>1, <2>1
<1>3. a * h <= b * h <=> a <= b
  <2>1. CASE a <= b
    <3>1. PICK d \in Nat : b = a + d
      BY <2>1, b - a \in Nat, b = a + (b - a)
    <3>2. b * h = a * h + d * h /\ d * h \in Nat
      BY <3>1
    <3>3. QED
      BY <1>2, <2>1, <3>2
  <2>2. CASE ~(a <= b)
    <3>1. PICK d \in Nat \ {0} : a = b + d
      BY <2>2, a - b \in Nat \ {0}, a = b + (a - b)
    <3>2. a * h = b * h + d * h /\ d * h > 0 /\ d * h \in Nat
      BY <3>1
    <3>3. QED
      BY <1>2, <2>2, <3>2
  <2>3. QED
    BY <2>1, <2>2
<1>4. ASSUME NEW Q \in Nat, Q <= P PROVE Q * F <= P * m * h
  <2>1. Q * i <= P * m
    <3>1. PICK d \in Nat, e \in Nat : P = Q + d /\ m = i + e
      BY <1>4, P - Q \in Nat, m - i \in Nat, P = Q + (P - Q), m = i + (m - i)
    <3>2. P * m = Q * i + Q * e + d * i + d * e
      BY <3>1
    <3>3. Q * e \in Nat /\ d * i \in Nat /\ d * e \in Nat /\ Q * i \in Nat
      BY <3>1
    <3>4. QED
      BY <3>2, <3>3
  <2>2. PICK x \in Nat, d \in Nat : x = Q * i /\ P * m = x + d
    BY <1>1, <2>1, P * m - Q * i \in Nat, P * m = Q * i + (P * m - Q * i), Q * i \in Nat
  <2>3. Q * F = x * h
    <3>1. Q * (i * h) = (Q * i) * h
      OBVIOUS
    <3>2. QED
      BY <2>2, <3>1
  <2>4. P * m * h = x * h + d * h /\ d * h \in Nat /\ x * h \in Nat
    BY <2>2
  <2>5. QED
    BY <2>3, <2>4
<1>5. QED
  BY <1>1, <1>2, <1>3, <1>4

\* Of two ranks with the same p-value the later one has the smaller raw value.
LEMMA RawFalls ==
  ASSUME NEW P \in Nat, NEW m \in Nat, NEW i \in Nat \ {0}, NEW j \in Nat, i <= j,
         NEW h \in Nat, NEW g \in Nat, i * h = j * g
  PROVE  P * m * g <= P * m * h
<1>1. g <= h
  <2>1. SUFFICES ASSUME h < g PROVE FALSE
    OBVIOUS
  <2>2. PICK d \in Nat \ {0}, e \in Nat : g = h + d /\ j = i + e
    BY <2>1, g - h \in Nat \ {0}, g = h + (g - h), j - i \in Nat, j = i + (j - i)
  <2>3. j * g = i * h + i * d + e * g /\ i * d > 0 /\ e * g >= 0
    BY <2>2
  <2>4. i * h \in Nat /\ i * d \in Nat /\ e * g \in Nat
    BY <2>2
  <2>5. QED
    BY <2>3, <2>4
<1>2. PICK d \in Nat, a \in Nat : h = g + d /\ a = P * m
  BY <1>1, h - g \in Nat, h = g + (h - g), P * m \in Nat
<1>3. a * h = a * g + a * d /\ a * g \in Nat /\ a * d \in Nat
  BY <1>2
<1>4. QED
  BY <1>2, <1>3

\* The adjusted p-values of any order argsort may give.
LEMMA AdjustedIs ==
  ASSUME NEW m \in Nat, NEW p \in [1 .. m -> 0 .. D], Len(p) = m, NEW o \in Orders(p)
  PROVE  LET adj == adjusted(p, o, D)
             F == Factorial(m)
         IN \A i, c \in 1 .. m :
              /\ adj[i] <= Alpha * F <=> i \in rejected(p, o, Alpha)
              /\ adj[i] >= p[i] * F /\ adj[i] <= D * F
              /\ p[i] <= p[c] => adj[i] <= adj[c]
<1> DEFINE F == Factorial(m)
           h(i) == F \div i
           val == [i \in 1 .. m |-> p[o[i]] * m * h(i)]
           f == running_min(val, m, D * F)
           rank(c) == CHOOSE i \in 1 .. m : o[i] = c
           K == cutoff(p, o, Alpha)
<1>1. D \in Nat \ {0} /\ Alpha \in Nat /\ Alpha < D
  BY LevelAssumption
<1>2. F \in Nat \ {0} /\ \A i \in 1 .. m : h(i) \in Nat \ {0} /\ i * h(i) = F
  BY FactorialDivides
<1>3. o \in Permutation(m) /\ \A i, j \in 1 .. m : i <= j => p[o[i]] <= p[o[j]]
  BY Zenon DEF Orders
<1>4. o \in [1 .. m -> 1 .. m] /\ \A i, j \in 1 .. m : o[i] = o[j] => i = j
  BY <1>3 DEF Permutation
<1>5. \A i \in 1 .. m : p[o[i]] \in 0 .. D /\ p[o[i]] \in Nat
  BY <1>1, <1>4
<1>6. \A c \in 1 .. m : rank(c) \in 1 .. m /\ o[rank(c)] = c
  BY <1>3, OrderReachesAll
<1>7. adjusted(p, o, D) = [c \in 1 .. m |-> f[rank(c)]]
  BY DEF adjusted
<1>8. /\ K \in 0 .. m /\ (K = 0 \/ p[o[K]] * m <= K * Alpha)
      /\ \A i \in 1 .. m : p[o[i]] * m <= i * Alpha => i <= K
  BY CutoffIs, Zenon
<1>9. rejected(p, o, Alpha) = {o[i] : i \in 1 .. K}
  BY DEF rejected
<1> HIDE DEF F, h, rank, K
<1>10. \A i \in 1 .. m :
         /\ val[i] \in Nat
         /\ val[i] <= Alpha * F <=> p[o[i]] * m <= i * Alpha
         /\ \A Q \in Nat : Q <= p[o[i]] => Q * F <= val[i]
  <2>1. TAKE i \in 1 .. m
  <2>2. val[i] = p[o[i]] * m * h(i)
    OBVIOUS
  <2> HIDE DEF val
  <2>3. PICK P \in Nat, g \in Nat \ {0} : P = p[o[i]] /\ g = h(i) /\ i * g = F
    BY <1>2, <1>5, Zenon
  <2>4. /\ P * m * g \in Nat
        /\ P * m * g <= Alpha * F <=> P * m <= i * Alpha
        /\ \A Q \in Nat : Q <= P => Q * F <= P * m * g
    <3>1. F \in Nat /\ Alpha \in Nat
      BY <1>1, <1>2
    <3>2. ASSUME NEW B \in Nat, i * g = B
          PROVE  /\ P * m * g \in Nat
                 /\ P * m * g <= Alpha * B <=> P * m <= i * Alpha
                 /\ \A Q \in Nat : Q <= P => Q * B <= P * m * g
      BY <3>1, <3>2, RawValue
    <3>3. QED
      BY <2>3, <3>1, <3>2, Zenon
  <2>5. QED
    BY <2>2, <2>3, <2>4, Zenon
<1>11. val \in [1 .. m -> Nat] /\ D * F \in Nat
  <2>1. val = [i \in 1 .. m |-> val[i]]
    OBVIOUS
  <2> HIDE DEF val
  <2>2. QED
    BY <1>1, <1>2, <1>10, <2>1
<1>12. \A i, j \in 1 .. m : i <= j /\ p[o[i]] = p[o[j]] => val[j] <= val[i]
  <2>1. TAKE i, j \in 1 .. m
  <2>2. HAVE i <= j /\ p[o[i]] = p[o[j]]
  <2>3. val[i] = p[o[i]] * m * h(i) /\ val[j] = p[o[j]] * m * h(j)
    OBVIOUS
  <2> HIDE DEF val
  <2>4. PICK P \in Nat, g \in Nat, k \in Nat :
          P = p[o[i]] /\ P = p[o[j]] /\ g = h(j) /\ k = h(i) /\ i * k = j * g
    BY <1>2, <1>5, <2>2
  <2>5. P * m * g <= P * m * k
    <3>1. i \in Nat \ {0} /\ j \in Nat
      OBVIOUS
    <3>2. QED
      BY <2>2, <2>4, <3>1, RawFalls, Zenon
  <2>6. QED
    BY <2>3, <2>4, <2>5
<1> HIDE DEF val
<1>13. \A i \in 1 .. m :
         /\ f[i] \in Nat /\ f[i] <= D * F
         /\ \A j \in i .. m : f[i] <= val[j]
         /\ f[i] = D * F \/ \E j \in i .. m : f[i] = val[j]
  BY <1>11, RunningMinLeast
<1> HIDE DEF f
<1>14. Alpha * F < D * F /\ Alpha * F \in Nat
  <2>1. PICK d \in Nat \ {0} : D = Alpha + d
    BY <1>1, D - Alpha \in Nat \ {0}, D = Alpha + (D - Alpha)
  <2>2. D * F = Alpha * F + d * F /\ d * F > 0 /\ d * F \in Nat /\ Alpha * F \in Nat
    BY <1>1, <1>2, <2>1
  <2>3. QED
    BY <2>2
<1>15. \A i \in 1 .. m : f[i] <= Alpha * F <=> i <= K
  <2>1. TAKE i \in 1 .. m
  <2>2. ASSUME f[i] <= Alpha * F PROVE i <= K
    <3>1. PICK j \in i .. m : f[i] = val[j]
      BY <1>11, <1>13, <1>14, <2>2
    <3>2. j \in 1 .. m /\ i <= j
      OBVIOUS
    <3>3. j <= K
      BY <1>8, <1>10, <2>2, <3>1, <3>2
    <3>4. QED
      BY <1>8, <3>2, <3>3
  <2>3. ASSUME i <= K PROVE f[i] <= Alpha * F
    <3>1. K \in i .. m /\ K \in 1 .. m /\ p[o[K]] * m <= K * Alpha
      BY <1>8, <2>3
    <3>2. f[i] <= val[K] /\ val[K] <= Alpha * F /\ val[K] \in Nat /\ f[i] \in Nat
      BY <1>10, <1>13, <3>1
    <3>3. QED
      BY <1>14, <3>2
  <2>4. QED
    BY <2>2, <2>3
<1>16. \A i \in 1 .. m : p[o[i]] * F <= f[i]
  <2>1. TAKE i \in 1 .. m
  <2>2. PICK P \in Nat : P = p[o[i]] /\ P <= D
    BY <1>1, <1>5
  <2>3. CASE f[i] = D * F
    <3>1. PICK d \in Nat : D = P + d
      BY <1>1, <2>2, D - P \in Nat, D = P + (D - P)
    <3>2. D * F = P * F + d * F /\ d * F \in Nat /\ P * F \in Nat
      BY <1>2, <3>1
    <3>3. QED
      BY <2>2, <2>3, <3>2
  <2>4. CASE \E j \in i .. m : f[i] = val[j]
    <3>1. PICK j \in i .. m : f[i] = val[j]
      BY <2>4
    <3>2. j \in 1 .. m /\ P <= p[o[j]]
      BY <1>3, <2>2, <3>1
    <3>3. P * F <= val[j]
      BY <1>10, <2>2, <3>2
    <3>4. QED
      BY <2>2, <3>1, <3>3
  <2>5. QED
    BY <1>13, <2>3, <2>4
<1>17. \A i, j \in 1 .. m : p[o[i]] <= p[o[j]] => f[i] <= f[j]
  <2>1. TAKE i, j \in 1 .. m
  <2>2. HAVE p[o[i]] <= p[o[j]]
  <2>3. CASE f[j] = D * F
    BY <1>13, <2>3
  <2>4. CASE \E k \in j .. m : f[j] = val[k]
    <3>1. PICK k \in j .. m : f[j] = val[k]
      BY <2>4
    <3>2. k \in 1 .. m /\ j <= k
      BY <3>1
    <3>3. CASE i <= k
      <4>1. k \in i .. m
        BY <3>2, <3>3
      <4>2. QED
        BY <1>13, <3>1, <4>1
    <3>4. CASE ~(i <= k)
      <4>1. k <= i /\ j <= i
        BY <3>2, <3>4
      <4>2. p[o[k]] = p[o[i]]
        <5>1. p[o[j]] <= p[o[k]] /\ p[o[k]] <= p[o[i]]
          BY <1>3, <3>2, <4>1
        <5>2. QED
          BY <1>5, <2>2, <3>2, <5>1
      <4>3. val[i] <= val[k]
        BY <1>12, <3>2, <4>1, <4>2
      <4>4. f[i] <= val[i] /\ f[i] \in Nat /\ val[i] \in Nat /\ val[k] \in Nat
        BY <1>10, <1>13, <3>2
      <4>5. QED
        BY <3>1, <4>3, <4>4
    <3>5. QED
      BY <3>3, <3>4
  <2>5. QED
    BY <1>13, <2>3, <2>4
<1>18. ASSUME NEW i \in 1 .. m PROVE i \in rejected(p, o, Alpha) <=> rank(i) <= K
  <2>1. rank(i) \in 1 .. m /\ o[rank(i)] = i
    BY <1>6
  <2>2. ASSUME i \in rejected(p, o, Alpha) PROVE rank(i) <= K
    <3>1. PICK r \in 1 .. K : o[r] = i
      BY <1>9, <2>2
    <3>2. r \in 1 .. m /\ r <= K
      BY <1>8
    <3>3. r = rank(i)
      BY <1>4, <2>1, <3>1, <3>2, Zenon
    <3>4. QED
      BY <3>2, <3>3
  <2>3. ASSUME rank(i) <= K PROVE i \in rejected(p, o, Alpha)
    <3>1. rank(i) \in 1 .. K
      BY <1>8, <2>1, <2>3
    <3>2. QED
      BY <1>9, <2>1, <3>1, Zenon
  <2>4. QED
    BY <2>2, <2>3
<1>19. ASSUME NEW i \in 1 .. m, NEW c \in 1 .. m
       PROVE  LET adj == adjusted(p, o, D)
              IN /\ adj[i] <= Alpha * F <=> i \in rejected(p, o, Alpha)
                 /\ adj[i] >= p[i] * F /\ adj[i] <= D * F
                 /\ p[i] <= p[c] => adj[i] <= adj[c]
  <2>1. PICK r \in 1 .. m, s \in 1 .. m : r = rank(i) /\ s = rank(c) /\ o[r] = i /\ o[s] = c
    BY <1>6
  <2>2. adjusted(p, o, D)[i] = f[r] /\ adjusted(p, o, D)[c] = f[s]
    BY <1>7, <2>1
  <2>3. f[r] <= Alpha * F <=> i \in rejected(p, o, Alpha)
    BY <1>15, <1>18, <2>1
  <2>4. p[i] * F <= f[r] /\ f[r] <= D * F
    BY <1>13, <1>16, <2>1
  <2>5. p[i] <= p[c] => f[r] <= f[s]
    BY <1>17, <2>1
  <2>6. QED
    BY <2>2, <2>3, <2>4, <2>5
<1>20. QED
  BY <1>19 DEF F

\* The adjusted p-value is at most alpha exactly for what is rejected, never
\* below the p-value or above 1, and in the order of the p-values: for any
\* number of candidates, failed ones among them.
THEOREM AdjustedTellsTheSame == Spec => []AdjustedAgrees
<1>1. EvaluationInv => AdjustedAgrees
  <2>1. SUFFICES ASSUME EvaluationInv, Corrected, NEW i \in 1 .. n, NEW c \in 1 .. n
                 PROVE  /\ correction.adjusted[i] <= Alpha * Factorial(n)
                             <=> i \in correction.rejected
                        /\ /\ correction.adjusted[i] >= pvalues[i] * Factorial(n)
                           /\ correction.adjusted[i] <= D * Factorial(n)
                        /\ pvalues[i] <= pvalues[c]
                             => correction.adjusted[i] <= correction.adjusted[c]
    BY DEF AdjustedAgrees
  <2>2. PICK o \in Orders(pvalues) : /\ correction.rejected = rejected(pvalues, o, Alpha)
                                     /\ correction.adjusted = adjusted(pvalues, o, D)
    BY <2>1 DEF EvaluationInv, IsCorrected
  <2>3. n \in Nat /\ Len(pvalues) = n /\ pvalues \in [1 .. n -> 0 .. D]
    <3>1. n \in Nat /\ Len(pvalues) = n /\ pvalues \in Seq(0 .. D)
      BY <2>1 DEF EvaluationInv, Aligned, AllRan, Corrected
    <3>2. QED
      BY <3>1, SequenceIsFunction, Zenon
  <2>4. QED
    BY <2>2, <2>3, AdjustedIs
<1>2. QED
  BY <1>1, EvaluationInvariant, PTL

(***************************************************************************)
(* The probability of backtest overfitting.                                *)
(***************************************************************************)

\* The returns are kept until then, in the order the candidates ran.
ScoresInv ==
  /\ steps \in Nat
  /\ stage \in {"backtests", "overfitting"} =>
       /\ scores \in Seq({NoReturns} \cup [Halves -> Scores]) /\ Len(scores) = Len(ran)
       /\ \A i \in 1 .. Len(ran) :
            /\ scores[i] = ran[i].returns
            /\ ~ran[i].fails /\ steps >= cscv_partitions => scores[i] \in [Halves -> Scores]

LEMMA ScoresInit == Init => ScoresInv
<1> SUFFICES ASSUME Init PROVE ScoresInv
  OBVIOUS
<1>1. steps \in Nat
  BY PartitionsAssumption DEF Init
<1>2. scores = <<>> /\ ran = <<>>
  BY DEF Init
<1>3. scores \in Seq({NoReturns} \cup [Halves -> Scores]) /\ Len(scores) = 0 /\ Len(ran) = 0
  <2> DEFINE S == {NoReturns} \cup [Halves -> Scores]
  <2> HIDE DEF S
  <2>1. scores \in Seq(S) /\ Len(scores) = 0 /\ Len(ran) = 0
    BY <1>2
  <2>2. QED
    BY <2>1 DEF S
<1>4. QED
  BY <1>1, <1>3 DEF ScoresInv

\* One more candidate.
LEMMA ScoresOneMore ==
  ASSUME ScoresInv, ran \in Seq(Outcome), stage = "backtests", UNCHANGED <<stage, steps>>,
         NEW returns \in {NoReturns} \cup [Halves -> Scores], NEW fails \in BOOLEAN, NEW p \in 0 .. D,
         Gave(fails, p, returns), scores' = Append(scores, returns),
         ~fails /\ steps >= cscv_partitions => returns \in [Halves -> Scores]
  PROVE  ScoresInv'
<1> DEFINE S == {NoReturns} \cup [Halves -> Scores]
           x == [fails |-> fails, p |-> p, returns |-> returns]
<1>1. PICK k \in Nat : k = Len(ran)
  BY DEF ScoresInv
<1>2. scores \in Seq(S) /\ Len(scores) = k
  BY <1>1 DEF ScoresInv
<1>3. returns \in S /\ x \in Outcome
  BY DEF Outcome
<1>4. x.returns = returns /\ x.fails = fails
  OBVIOUS
<1>5. ran' = Append(ran, x)
  BY DEF Gave
<1> HIDE DEF S, x
<1>6. /\ Len(ran') = k + 1 /\ ran'[k + 1] = x
      /\ \A i \in 1 .. k : ran'[i] = ran[i]
  BY <1>1, <1>3, <1>5
<1>7. /\ scores' \in Seq(S) /\ Len(scores') = k + 1 /\ scores'[k + 1] = returns
      /\ \A i \in 1 .. k : scores'[i] = scores[i]
  BY <1>1, <1>2, <1>3
<1>8. ASSUME NEW i \in 1 .. k + 1
      PROVE  /\ scores'[i] = ran'[i].returns
             /\ ~ran'[i].fails /\ steps >= cscv_partitions => scores'[i] \in [Halves -> Scores]
  <2>1. CASE i = k + 1
    BY <1>4, <1>6, <1>7, <2>1
  <2>2. CASE i \in 1 .. k
    <3>1. scores'[i] = scores[i] /\ ran'[i] = ran[i]
      BY <1>6, <1>7, <2>2
    <3>2. /\ scores[i] = ran[i].returns
          /\ ~ran[i].fails /\ steps >= cscv_partitions => scores[i] \in [Halves -> Scores]
      BY <1>1, <2>2 DEF ScoresInv
    <3>3. ran'[i].returns = ran[i].returns /\ ran'[i].fails = ran[i].fails
      BY <3>1
    <3>4. scores'[i] = ran'[i].returns
      BY <3>1, <3>2, <3>3
    <3>5. ASSUME ~ran'[i].fails, steps >= cscv_partitions
          PROVE  scores'[i] \in [Halves -> Scores]
      <4>1. scores[i] \in [Halves -> Scores]
        BY <3>2, <3>3, <3>5
      <4>2. QED
        BY <3>1, <4>1
    <3>6. QED
      BY <3>4, <3>5
  <2>3. i = k + 1 \/ i \in 1 .. k
    OBVIOUS
  <2>4. QED
    BY <2>1, <2>2, <2>3, Zenon
<1>9. scores' \in Seq({NoReturns} \cup [Halves -> Scores])
  BY <1>7 DEF S
<1>10. QED
  BY <1>6, <1>7, <1>8, <1>9 DEF ScoresInv

LEMMA ScoresNext == EvaluationInv /\ ScoresInv /\ [Next]_vars => ScoresInv'
<1> SUFFICES ASSUME EvaluationInv, ScoresInv, [Next]_vars PROVE ScoresInv'
  OBVIOUS
<1>1. ran \in Seq(Outcome)
  BY DEF EvaluationInv, Aligned
<1>2. ASSUME NEW p \in PValues, NEW returns \in Returns, Runs(p, returns) PROVE ScoresInv'
  <2>1. p \in 0 .. D
    BY LevelAssumption
  <2>2. returns \in {NoReturns} \cup [Halves -> Scores]
    BY DEF Returns
  <2>3. steps >= cscv_partitions => returns \in [Halves -> Scores]
    BY PartitionsAssumption DEF Returns, ScoresInv
  <2>4. /\ stage = "backtests" /\ UNCHANGED <<stage, steps>> /\ scores' = Append(scores, returns)
        /\ Gave(FALSE, p, returns)
    BY <1>2 DEF Runs, Pending
  <2>5. QED
    BY <1>1, <2>1, <2>2, <2>3, <2>4, ScoresOneMore
<1>3. CASE Fails
  <2>1. /\ stage = "backtests" /\ UNCHANGED <<stage, steps>> /\ scores' = Append(scores, NoReturns)
        /\ Gave(TRUE, D, NoReturns)
    BY <1>3 DEF Fails, Pending
  <2>2. D \in 0 .. D
    BY LevelAssumption
  <2>3. QED
    BY <1>1, <2>1, <2>2, ScoresOneMore
<1>4. CASE Corrects
  BY <1>4 DEF Corrects, ScoresInv
<1>5. CASE Overfitting
  BY <1>5 DEF Overfitting, ScoresInv
<1>6. ASSUME NEW convincing \in BOOLEAN, Judges(convincing) PROVE ScoresInv'
  BY <1>6 DEF Judges, ScoresInv
<1>7. CASE UNCHANGED vars
  BY <1>7 DEF vars, ScoresInv
<1>8. CASE Exits
  BY <1>8 DEF Exits, ScoresInv
<1>9. QED
  BY <1>2, <1>3, <1>4, <1>5, <1>6, <1>7, <1>8 DEF Next

LEMMA ScoresHold == Spec => [](EvaluationInv /\ ScoresInv)
<1>1. EvaluationInv /\ [Next]_vars => EvaluationInv'
  BY InvNext
<1>2. QED
  BY InvInit, ScoresInit, <1>1, ScoresNext, PTL DEF Spec

\* The halves of the blocks come in pairs.
LEMMA ComplementIsHalf ==
  ASSUME NEW is \in Halves
  PROVE  Complement(is) \in Halves /\ Complement(Complement(is)) = is
<1> DEFINE N == n_partitions
<1>1. N \in Nat
  <2>1. cscv_partitions \in Nat /\ cscv_partitions >= 2
    BY PartitionsAssumption
  <2>2. cscv_partitions % 2 \in {0, 1}
    BY <2>1
  <2>3. QED
    BY <2>1, <2>2 DEF n_partitions
<1>2. is \in SUBSET (1 .. N) /\ 2 * Cardinality(is) = N
  BY DEF Halves
<1>3. IsFiniteSet(1 .. N) /\ Cardinality(1 .. N) = N
  BY <1>1, FS_Interval
<1>4. IsFiniteSet(is) /\ Cardinality(is) \in Nat
  BY <1>2, <1>3, FS_Subset, FS_CardinalityType
<1>5. is \cap (1 .. N) = is
  BY <1>2
<1>6. Cardinality((1 .. N) \ is) = N - Cardinality(is)
  <2> DEFINE I == 1 .. N
  <2>1. IsFiniteSet(I) /\ Cardinality(I) = N /\ I \cap is = is
    BY <1>1, <1>3, <1>5
  <2> HIDE DEF I, N
  <2>2. Cardinality(I \ is) = Cardinality(I) - Cardinality(I \cap is)
    BY <2>1, FS_Difference
  <2>3. Cardinality(I \ is) = N - Cardinality(is)
    BY <2>1, <2>2
  <2>4. QED
    BY <2>3 DEF I
<1>7. Complement(is) = (1 .. N) \ is
  BY DEF Complement
<1>8. Complement(is) \in Halves
  BY <1>1, <1>2, <1>4, <1>6, <1>7 DEF Halves
<1>9. QED
  BY <1>2, <1>8 DEF Complement

\* A score for each candidate and half.
Matrix(g) == [1 .. g -> [Halves -> Int]]

IsBest(M, g, is, b) ==
  /\ b \in 1 .. g
  /\ \A c \in 1 .. g : M[c][is] <= M[b][is]
  /\ \A c \in 1 .. b - 1 : M[c][is] < M[b][is]

\* argmax finds the first of the best.
LEMMA BestIs ==
  ASSUME NEW g \in Nat \ {0}, NEW M \in Matrix(g), NEW is \in Halves
  PROVE  IsBest(M, g, is, Best(M, is))
<1> DEFINE v(c) == M[c][is]
           First(b, k) == b \in 1 .. k /\ (\A c \in 1 .. k : v(c) <= v(b)) /\ \A c \in 1 .. b - 1 : v(c) < v(b)
           T == {k \in Nat : k + 1 <= g => \E b \in 1 .. k + 1 : First(b, k + 1)}
<1>1. DOMAIN M = 1 .. g /\ \A c \in 1 .. g : v(c) \in Int
  BY DEF Matrix
<1> HIDE DEF v
<1>2. 0 \in T
  <2>1. First(1, 0 + 1)
    BY <1>1
  <2> HIDE DEF First
  <2>2. QED
    BY <2>1
<1>3. \A k \in Nat : k \in T => k + 1 \in T
  <2>1. TAKE k \in Nat
  <2>2. HAVE k \in T
  <2>3. CASE (k + 1) + 1 <= g
    <3>1. PICK b \in 1 .. k + 1 : First(b, k + 1)
      BY <2>2, <2>3
    <3>2. b \in 1 .. g /\ (k + 1) + 1 \in 1 .. g /\ \A c \in 1 .. k + 1 : c \in 1 .. g
      BY <2>3, <3>1
    <3>3. \A c \in 1 .. (k + 1) + 1 : c \in 1 .. k + 1 \/ c = (k + 1) + 1
      OBVIOUS
    <3>4. CASE v((k + 1) + 1) <= v(b)
      <4>1. \A c \in 1 .. (k + 1) + 1 : v(c) <= v(b)
        BY <3>1, <3>3, <3>4
      <4>2. First(b, (k + 1) + 1)
        BY <3>1, <4>1
      <4> HIDE DEF First
      <4>3. b \in 1 .. (k + 1) + 1
        BY <3>1
      <4>4. QED
        BY <4>2, <4>3
    <3>5. CASE ~(v((k + 1) + 1) <= v(b))
      <4>1. \A c \in 1 .. k + 1 : v(c) < v((k + 1) + 1)
        <5>1. TAKE c \in 1 .. k + 1
        <5>2. v(c) <= v(b) /\ v(c) \in Int /\ v(b) \in Int /\ v((k + 1) + 1) \in Int
          BY <1>1, <3>1, <3>2
        <5>3. QED
          BY <3>5, <5>2
      <4>2. v((k + 1) + 1) <= v((k + 1) + 1)
        BY <1>1, <3>2
      <4>3. \A c \in 1 .. (k + 1) + 1 : v(c) <= v((k + 1) + 1)
        <5>1. TAKE c \in 1 .. (k + 1) + 1
        <5>2. c \in 1 .. k + 1 => v(c) < v((k + 1) + 1) /\ v(c) \in Int /\ v((k + 1) + 1) \in Int
          BY <1>1, <3>2, <4>1
        <5>3. QED
          BY <3>3, <4>2, <5>2
      <4>4. \A c \in 1 .. ((k + 1) + 1) - 1 : c \in 1 .. k + 1
        OBVIOUS
      <4>5. (k + 1) + 1 \in 1 .. (k + 1) + 1
        OBVIOUS
      <4>6. First((k + 1) + 1, (k + 1) + 1)
        BY <4>1, <4>3, <4>4, <4>5
      <4> HIDE DEF First
      <4>7. QED
        BY <4>5, <4>6
    <3>6. QED
      BY <3>4, <3>5
  <2>4. CASE ~((k + 1) + 1 <= g)
    <3> HIDE DEF First
    <3>1. QED
      BY <2>4
  <2>5. QED
    BY <2>3, <2>4
<1>4. \E b \in 1 .. g : First(b, g)
  <2>1. g - 1 \in Nat /\ (g - 1) + 1 = g /\ (g - 1) + 1 <= g
    OBVIOUS
  <2>2. g - 1 \in T
    <3> HIDE DEF T
    <3>1. QED
      BY <1>2, <1>3, <2>1, EveryNumber
  <2> HIDE DEF First
  <2>3. QED
    BY <2>1, <2>2
<1> DEFINE P(b) == (\A c \in 1 .. g : M[c][is] <= M[b][is]) /\ \A c \in 1 .. b - 1 : M[c][is] < M[b][is]
<1>5. \E b \in 1 .. g : P(b)
  BY <1>4 DEF v
<1>6. Best(M, is) = CHOOSE b \in 1 .. g : P(b)
  BY <1>1 DEF Best
<1>7. Best(M, is) \in 1 .. g /\ P(Best(M, is))
  <2> HIDE DEF P
  <2>1. QED
    BY <1>5, <1>6
<1>8. QED
  BY <1>7 DEF IsBest

\* Those that do worse than b.
Worse(M, g, h, b) == {c \in 1 .. g : M[c][h] < M[b][h]}

LEMMA OverfitIs ==
  ASSUME NEW g \in Nat \ {0}, NEW M \in Matrix(g), Len(M) = g, NEW is \in Halves,
         NEW b, b = Best(M, is)
  PROVE  /\ Overfit(M, is) <=> 2 * (Cardinality(Worse(M, g, Complement(is), b)) + 1) <= g + 1
         /\ IsFiniteSet(Worse(M, g, Complement(is), b))
         /\ Cardinality(Worse(M, g, Complement(is), b)) \in Nat
<1>1. DOMAIN M = 1 .. g
  BY DEF Matrix
<1>2. Worse(M, g, Complement(is), b) \in SUBSET (1 .. g) /\ IsFiniteSet(1 .. g)
  BY FS_Interval DEF Worse
<1>3. IsFiniteSet(Worse(M, g, Complement(is), b)) /\ Cardinality(Worse(M, g, Complement(is), b)) \in Nat
  BY <1>2, FS_Subset, FS_CardinalityType
<1>4. Overfit(M, is) <=> 2 * (Cardinality(Worse(M, g, Complement(is), b)) + 1) <= g + 1
  BY <1>1 DEF Overfit, Worse
<1>5. QED
  BY <1>3, <1>4

\* A candidate that is the best of every half is nowhere overfit.
LEMMA DominantIsNotOverfit ==
  ASSUME NEW g \in Nat, g >= 2, NEW M \in Matrix(g), Len(M) = g, NEW a \in 1 .. g,
         \A is \in Halves : \A c \in (1 .. g) \ {a} : M[c][is] < M[a][is]
  PROVE  probability_backtest_overfitting(M) = 0
<1>1. ASSUME NEW is \in Halves PROVE ~Overfit(M, is)
  <2> DEFINE b == Best(M, is)
             oos == Complement(is)
  <2>1. oos \in Halves
    BY ComplementIsHalf
  <2>2. IsBest(M, g, is, b)
    BY BestIs
  <2> HIDE DEF b, oos
  <2>3. b \in 1 .. g /\ M[a][is] <= M[b][is] /\ M[a][is] \in Int /\ M[b][is] \in Int
    BY <2>2 DEF IsBest, Matrix
  <2>4. b = a
    BY <2>3
  <2>5. Worse(M, g, oos, a) = (1 .. g) \ {a}
    <3>1. M[a][oos] \in Int
      BY <2>1 DEF Matrix
    <3>2. ~(M[a][oos] < M[a][oos])
      BY <3>1
    <3>3. QED
      BY <2>1, <3>2 DEF Worse
  <2>6. Cardinality((1 .. g) \ {a}) = g - 1
    <3> DEFINE I == 1 .. g
    <3>1. IsFiniteSet(I) /\ Cardinality(I) = g /\ a \in I
      BY FS_Interval
    <3> HIDE DEF I
    <3>2. Cardinality(I \ {a}) = Cardinality(I) - 1
      BY <3>1, FS_RemoveElement
    <3>3. QED
      BY <3>1, <3>2 DEF I
  <2>7. Overfit(M, is) <=> 2 * (Cardinality(Worse(M, g, oos, b)) + 1) <= g + 1
    BY OverfitIs DEF b, oos
  <2>8. Overfit(M, is) <=> 2 * ((g - 1) + 1) <= g + 1
    BY <2>4, <2>5, <2>6, <2>7
  <2>9. ~(2 * ((g - 1) + 1) <= g + 1)
    OBVIOUS
  <2>10. QED
    BY <2>8, <2>9
<1>2. {is \in Halves : Overfit(M, is)} = {}
  BY <1>1
<1>3. QED
  BY <1>2, FS_EmptySet DEF probability_backtest_overfitting

\* Where each half has the order of the other reversed, every choice is overfit.
LEMMA ReversedIsOverfit ==
  ASSUME NEW g \in Nat, g >= 2, NEW M \in Matrix(g), Len(M) = g,
         \A c, d \in 1 .. g, is \in Halves : M[d][is] < M[c][is] => M[c][Complement(is)] < M[d][Complement(is)]
  PROVE  probability_backtest_overfitting(M) = Cardinality(Halves)
<1>1. ASSUME NEW is \in Halves PROVE Overfit(M, is)
  <2> DEFINE b == Best(M, is)
             oos == Complement(is)
  <2>1. oos \in Halves /\ Complement(oos) = is
    BY ComplementIsHalf
  <2>2. IsBest(M, g, is, b)
    BY BestIs
  <2> HIDE DEF b, oos
  <2>3. Worse(M, g, oos, b) = {}
    <3>1. ASSUME NEW c \in 1 .. g, M[c][oos] < M[b][oos] PROVE FALSE
      <4>1. b \in 1 .. g /\ M[c][is] <= M[b][is] /\ M[c][is] \in Int /\ M[b][is] \in Int
        BY <2>2 DEF IsBest, Matrix
      <4>2. M[b][is] < M[c][is]
        BY <2>1, <3>1, <4>1
      <4>3. QED
        BY <4>1, <4>2
    <3>2. QED
      BY <3>1 DEF Worse
  <2>4. Overfit(M, is) <=> 2 * (Cardinality(Worse(M, g, oos, b)) + 1) <= g + 1
    BY OverfitIs DEF b, oos
  <2>5. Cardinality(Worse(M, g, oos, b)) = 0
    BY <2>3, FS_EmptySet
  <2>6. QED
    BY <2>4, <2>5
<1>2. {is \in Halves : Overfit(M, is)} = Halves
  BY <1>1
<1>3. QED
  BY <1>2 DEF probability_backtest_overfitting

IsBestAlone(M, g, is, a) == a \in 1 .. g /\ \A d \in (1 .. g) \ {a} : M[d][is] < M[a][is]

LEMMA BestAloneIs ==
  ASSUME NEW g \in Nat \ {0}, NEW M \in Matrix(g), NEW is \in Halves, NEW a, IsBestAlone(M, g, is, a)
  PROVE  Best(M, is) = a
<1>1. IsBest(M, g, is, Best(M, is))
  BY BestIs
<1> DEFINE b == Best(M, is)
<1> HIDE DEF b
<1>2. a \in 1 .. g /\ b \in 1 .. g /\ M[a][is] <= M[b][is]
  BY <1>1 DEF b, IsBest, IsBestAlone
<1>3. M[a][is] \in Int /\ M[b][is] \in Int
  BY <1>2 DEF Matrix
<1>4. a # b => M[b][is] < M[a][is]
  BY <1>2 DEF IsBestAlone
<1>5. QED
  BY <1>2, <1>3, <1>4 DEF b

\* Unless two share the best score, reversing the candidates changes nothing.
LEMMA OrderDoesNotMatter ==
  ASSUME NEW g \in Nat \ {0}, NEW M \in Matrix(g), Len(M) = g,
         \A is \in Halves : \E a \in 1 .. g : IsBestAlone(M, g, is, a)
  PROVE  probability_backtest_overfitting(Reverse(M)) = probability_backtest_overfitting(M)
<1> DEFINE R == Reverse(M)
           other(k) == (g - k) + 1
<1>1. R = [k \in 1 .. g |-> M[other(k)]]
  BY DEF Reverse
<1>2. \A k \in 1 .. g : other(k) \in 1 .. g /\ other(other(k)) = k
  OBVIOUS
<1> HIDE DEF R, other
<1>3. \A k \in 1 .. g : M[other(k)] \in [Halves -> Int]
  BY <1>2 DEF Matrix
<1>4. R \in Matrix(g) /\ \A k \in 1 .. g : R[k] = M[other(k)] /\ R[other(k)] = M[k]
  BY <1>1, <1>2, <1>3 DEF Matrix
<1>5. Len(R) = g
  BY <1>1
<1>6. ASSUME NEW is \in Halves PROVE Overfit(R, is) <=> Overfit(M, is)
  <2>1. PICK a \in 1 .. g : IsBestAlone(M, g, is, a)
    OBVIOUS
  <2> DEFINE b == other(a)
             oos == Complement(is)
  <2>2. b \in 1 .. g
    BY <1>2
  <2>3. IsBestAlone(R, g, is, b)
    <3>1. ASSUME NEW d \in (1 .. g) \ {b} PROVE R[d][is] < R[b][is]
      <4>1. other(d) \in (1 .. g) \ {a}
        BY <1>2
      <4>2. M[other(d)][is] < M[a][is]
        BY <2>1, <4>1 DEF IsBestAlone
      <4>3. R[d] = M[other(d)] /\ R[b] = M[a]
        BY <1>4
      <4>4. QED
        BY <4>2, <4>3
    <3>2. QED
      BY <2>2, <3>1 DEF IsBestAlone
  <2>4. Best(M, is) = a /\ Best(R, is) = b
    BY <1>4, <2>1, <2>3, BestAloneIs
  <2> DEFINE W == Worse(M, g, oos, a)
             V == Worse(R, g, oos, b)
  <2>5. /\ Overfit(M, is) <=> 2 * (Cardinality(W) + 1) <= g + 1
        /\ IsFiniteSet(W)
    BY <2>4, OverfitIs
  <2>6. Overfit(R, is) <=> 2 * (Cardinality(V) + 1) <= g + 1
    BY <1>4, <1>5, <2>4, OverfitIs
  <2>7. Cardinality(W) = Cardinality(V)
    <3>1. R[b] = M[a]
      BY <1>4
    <3>2. \A c \in W : c \in 1 .. g /\ other(c) \in V /\ other(other(c)) = c
      <4>1. TAKE c \in W
      <4>2. c \in 1 .. g /\ M[c][oos] < M[a][oos]
        BY DEF Worse
      <4>3. other(c) \in 1 .. g /\ other(other(c)) = c /\ R[other(c)] = M[c]
        BY <1>2, <1>4, <4>2
      <4>4. other(c) \in V
        BY <3>1, <4>2, <4>3 DEF Worse
      <4>5. QED
        BY <4>2, <4>3, <4>4
    <3>3. \A c \in V : other(c) \in W /\ other(other(c)) = c
      <4>1. TAKE c \in V
      <4>2. c \in 1 .. g /\ R[c][oos] < R[b][oos]
        BY DEF Worse
      <4>3. other(c) \in 1 .. g /\ other(other(c)) = c /\ R[c] = M[other(c)]
        BY <1>2, <1>4, <4>2
      <4>4. other(c) \in W
        BY <3>1, <4>2, <4>3 DEF Worse
      <4>5. QED
        BY <4>3, <4>4
    <3> HIDE DEF W, V
    <3>4. [c \in W |-> other(c)] \in Bijection(W, V)
      <4> DEFINE f == [c \in W |-> other(c)]
      <4>1. f \in [W -> V] /\ \A c \in W : f[c] = other(c)
        BY <3>2
      <4>2. \A c, d \in W : f[c] = f[d] => c = d
        BY <3>2
      <4>3. \A v \in V : \E c \in W : f[c] = v
        BY <3>3
      <4> HIDE DEF f
      <4>4. f \in Bijection(W, V)
        BY <4>1, <4>2, <4>3, Zenon DEF Bijection, Injection, IsInjective, Surjection
      <4>5. QED
        BY <4>4 DEF f
    <3>5. ExistsBijection(W, V)
      BY <3>4, Zenon DEF ExistsBijection
    <3>6. QED
      BY <2>5, <3>5, FS_Bijection
  <2>8. QED
    BY <2>5, <2>6, <2>7
<1>7. {is \in Halves : Overfit(R, is)} = {is \in Halves : Overfit(M, is)}
  BY <1>6
<1>8. probability_backtest_overfitting(R) = probability_backtest_overfitting(M)
  BY <1>7, Zenon DEF probability_backtest_overfitting
<1>9. QED
  BY <1>8 DEF R

Good == {i \in 1 .. n : ~ran[i].fails}

\* ok_returns lists the scores of the candidates that ran, in their order.
LEMMA OkReturnsAre ==
  ASSUME EvaluationInv, ScoresInv, stage = "overfitting", steps >= cscv_partitions,
         NEW g, g = Cardinality(Good)
  PROVE  /\ g \in Nat /\ ok_returns \in Matrix(g) /\ Len(ok_returns) = g
         /\ \A c \in Good : Place(Good, c) \in 1 .. g /\ ok_returns[Place(Good, c)] = ran[c].returns
         /\ \A c, d \in Good : Place(Good, c) = Place(Good, d) => c = d
         /\ \A k \in 1 .. g : \E c \in Good : Place(Good, c) = k
<1> DEFINE seen(i) == Cardinality({h \in 1 .. i : ~failed[h]})
           at(k) == CHOOSE i \in 1 .. n : ~failed[i] /\ seen(i) = k
<1>1. Aligned /\ Len(ran) = n /\ n \in Nat
  BY DEF EvaluationInv, Aligned, AllRan, Corrected
<1>2. \A i \in 1 .. n : failed[i] = ran[i].fails
  BY <1>1, AlignedAt
<1>3. {i \in 1 .. n : ~failed[i]} = Good
  BY <1>2 DEF Good
<1>4. IsFiniteSet(Good) /\ g \in Nat /\ Good \subseteq Int
  <2>1. IsFiniteSet(1 .. n) /\ Good \in SUBSET (1 .. n)
    BY <1>1, FS_Interval DEF Good
  <2>2. IsFiniteSet(Good)
    BY <2>1, FS_Subset
  <2>3. QED
    BY <2>1, <2>2, FS_CardinalityType
<1>5. /\ \A c \in Good : Place(Good, c) \in 1 .. g
      /\ \A c, d \in Good : Place(Good, c) = Place(Good, d) => c = d
      /\ \A k \in 1 .. g : \E c \in Good : Place(Good, c) = k
  BY <1>4, Places
<1>6. \A i \in 1 .. n : seen(i) = Place(Good, i)
  <2>1. TAKE i \in 1 .. n
  <2>2. {h \in 1 .. i : ~failed[h]} = {h \in Good : h <= i}
    BY <1>1, <1>3
  <2>3. QED
    BY <2>2 DEF Place
<1> HIDE DEF seen
<1>7. \A k \in 1 .. g : at(k) \in Good /\ Place(Good, at(k)) = k
  <2>1. TAKE k \in 1 .. g
  <2>2. PICK c \in Good : Place(Good, c) = k
    BY <1>5
  <2>3. c \in 1 .. n /\ ~failed[c] /\ seen(c) = k
    BY <1>3, <1>6, <2>2
  <2>4. at(k) \in 1 .. n /\ ~failed[at(k)] /\ seen(at(k)) = k
    BY <2>3, Zenon
  <2>5. QED
    BY <1>3, <1>6, <2>4
<1>8. ok_returns = [k \in 1 .. g |-> scores[at(k)]]
  BY <1>3 DEF ok_returns, seen
<1> HIDE DEF at
<1>9. \A c \in Good : scores[c] = ran[c].returns /\ scores[c] \in [Halves -> Scores]
  <2>1. TAKE c \in Good
  <2>2. c \in 1 .. Len(ran) /\ ~ran[c].fails
    BY <1>1 DEF Good
  <2>3. QED
    BY <2>2 DEF ScoresInv
<1>10. \A c \in Good : scores[c] \in [Halves -> Int]
  BY <1>9, ScoresAssumption
<1>11. ok_returns \in Matrix(g)
  BY <1>7, <1>8, <1>10 DEF Matrix
<1>12. Len(ok_returns) = g
  BY <1>4, <1>8
<1>13. \A c \in Good : ok_returns[Place(Good, c)] = ran[c].returns
  <2>1. TAKE c \in Good
  <2>2. Place(Good, c) \in 1 .. g
    BY <1>5
  <2>3. at(Place(Good, c)) = c
    BY <1>5, <1>7, <2>2
  <2>4. QED
    BY <1>8, <1>9, <2>2, <2>3
<1>14. QED
  BY <1>4, <1>5, <1>11, <1>12, <1>13

\* The probability of overfitting is about the choice among the candidates that
\* ran: 0 where one of them is the best of every half, 1 where the halves have
\* opposite orders, and the same for the list of candidates reversed unless two
\* share a best score, for any number of candidates, blocks and scores.
THEOREM OverfittingIsAboutTheChoice == Spec => PboJudgesSelection
<1> DEFINE Beats(c, d, is) == ran[d].returns[is] < ran[c].returns[is]
           unique == \A is \in Halves : \E c \in Good : \A d \in Good \ {c} : Beats(c, d, is)
           A == /\ (\E c \in Good : \A d \in Good \ {c}, is \in Halves : Beats(c, d, is)) => pbo' = 0
                /\ (\A c, d \in Good, is \in Halves : Beats(c, d, is) => Beats(d, c, Complement(is)))
                     => pbo' = Cardinality(Halves)
                /\ unique => pbo' = probability_backtest_overfitting(Reverse(ok_returns))
<1>1. ASSUME EvaluationInv, ScoresInv, Overfitting, pbo' # NaN PROVE A
  <2> DEFINE M == ok_returns
  <2>1. /\ stage = "overfitting" /\ steps >= cscv_partitions
        /\ Len(M) >= 2 /\ pbo' = probability_backtest_overfitting(M)
    BY <1>1 DEF Overfitting
  <2>2. PICK g : g = Cardinality(Good)
    OBVIOUS
  <2>3. /\ g \in Nat /\ M \in Matrix(g) /\ Len(M) = g
        /\ \A c \in Good : Place(Good, c) \in 1 .. g /\ M[Place(Good, c)] = ran[c].returns
        /\ \A c, d \in Good : Place(Good, c) = Place(Good, d) => c = d
        /\ \A k \in 1 .. g : \E c \in Good : Place(Good, c) = k
    BY <1>1, <2>1, <2>2, OkReturnsAre
  <2> HIDE DEF M
  <2>4. g >= 2 /\ g \in Nat \ {0}
    BY <2>1, <2>3
  <2>5. ASSUME NEW c \in Good, NEW is \in Halves, \A d \in Good \ {c} : Beats(c, d, is)
        PROVE  IsBestAlone(M, g, is, Place(Good, c))
    <3>1. ASSUME NEW k \in (1 .. g) \ {Place(Good, c)} PROVE M[k][is] < M[Place(Good, c)][is]
      <4>1. PICK d \in Good : Place(Good, d) = k
        BY <2>3
      <4>2. d \in Good \ {c} /\ M[k] = ran[d].returns /\ M[Place(Good, c)] = ran[c].returns
        BY <2>3, <4>1
      <4>3. QED
        BY <2>5, <4>2
    <3>2. Place(Good, c) \in 1 .. g
      BY <2>3
    <3>3. QED
      BY <3>1, <3>2 DEF IsBestAlone
  <2>6. ASSUME NEW c \in Good, \A d \in Good \ {c}, is \in Halves : Beats(c, d, is) PROVE pbo' = 0
    <3>1. PICK a \in 1 .. g : a = Place(Good, c)
      BY <2>3
    <3>2. \A is \in Halves : IsBestAlone(M, g, is, a)
      BY <2>5, <2>6, <3>1
    <3>3. \A is \in Halves : \A d \in (1 .. g) \ {a} : M[d][is] < M[a][is]
      BY <3>2 DEF IsBestAlone
    <3>4. QED
      BY <2>1, <2>3, <2>4, <3>3, DominantIsNotOverfit
  <2>7. ASSUME \A c, d \in Good, is \in Halves : Beats(c, d, is) => Beats(d, c, Complement(is))
        PROVE  pbo' = Cardinality(Halves)
    <3>1. ASSUME NEW k \in 1 .. g, NEW l \in 1 .. g, NEW is \in Halves, M[l][is] < M[k][is]
          PROVE  M[k][Complement(is)] < M[l][Complement(is)]
      <4>1. PICK c \in Good : Place(Good, c) = k
        BY <2>3
      <4>2. PICK d \in Good : Place(Good, d) = l
        BY <2>3
      <4>3. M[k] = ran[c].returns /\ M[l] = ran[d].returns
        BY <2>3, <4>1, <4>2
      <4>4. Beats(c, d, is)
        BY <3>1, <4>3
      <4>5. Beats(d, c, Complement(is))
        BY <2>7, <4>4
      <4>6. QED
        BY <4>3, <4>5
    <3>2. QED
      BY <2>1, <2>3, <2>4, <3>1, ReversedIsOverfit
  <2>8. ASSUME unique PROVE pbo' = probability_backtest_overfitting(Reverse(M))
    <3>1. \A is \in Halves : \E a \in 1 .. g : IsBestAlone(M, g, is, a)
      <4>1. TAKE is \in Halves
      <4>2. PICK c \in Good : \A d \in Good \ {c} : Beats(c, d, is)
        BY <2>8
      <4>3. IsBestAlone(M, g, is, Place(Good, c)) /\ Place(Good, c) \in 1 .. g
        BY <2>3, <2>5, <4>2
      <4>4. QED
        BY <4>3
    <3>2. QED
      BY <2>1, <2>3, <2>4, <3>1, OrderDoesNotMatter
  <2> HIDE DEF Beats
  <2>9. QED
    BY <2>6, <2>7, <2>8 DEF M
<1>2. EvaluationInv /\ ScoresInv /\ Next => (stage = "overfitting" /\ pbo' # NaN => A)
  <2>1. ASSUME Next, stage = "overfitting" PROVE Overfitting
    BY <2>1 DEF Next, Runs, Fails, Exits, Corrects, Judges, Pending
  <2> HIDE DEF A
  <2>2. QED
    BY <1>1, <2>1
<1>3. EvaluationInv /\ ScoresInv /\ [Next]_vars =>
        [stage = "overfitting" /\ pbo' # NaN => A]_vars
  <2> HIDE DEF A
  <2>1. QED
    BY <1>2
<1>4. QED
  BY <1>3, ScoresHold, PTL DEF Spec, PboJudgesSelection, Good

(***************************************************************************)
(* What the caller sees.                                                   *)
(***************************************************************************)

\* There is no probability of overfitting before the candidates are judged, and
\* none of a single one.
ChoiceInv ==
  /\ n <= MaxCandidates
  /\ stage # "judging" => pbo = NaN
  /\ pbo # NaN => n >= 2

LEMMA ChoiceInit == Init => ChoiceInv
  BY ScoresAssumption DEF Init, ChoiceInv

\* ok_returns has no more entries than there are candidates.
LEMMA OkReturnsAreFew ==
  ASSUME n \in Nat
  PROVE  Len(ok_returns) \in Nat /\ Len(ok_returns) <= n
<1>1. PICK g : g = Cardinality({i \in 1 .. n : ~failed[i]})
  OBVIOUS
<1>2. g \in Nat /\ g <= n
  <2>1. IsFiniteSet(1 .. n) /\ Cardinality(1 .. n) = n
    BY FS_Interval
  <2>2. {i \in 1 .. n : ~failed[i]} \subseteq 1 .. n
    OBVIOUS
  <2>3. QED
    BY <1>1, <2>1, <2>2, FS_Subset, FS_CardinalityType
<1>3. Len(ok_returns) = g
  BY <1>1, <1>2 DEF ok_returns
<1>4. QED
  BY <1>2, <1>3

LEMMA ChoiceNext == EvaluationInv /\ ChoiceInv /\ [Next]_vars => ChoiceInv'
<1> SUFFICES ASSUME EvaluationInv, ChoiceInv, [Next]_vars PROVE ChoiceInv'
  OBVIOUS
<1>1. n \in Nat
  BY DEF EvaluationInv, Aligned
<1>2. CASE Overfitting
  <2>1. pbo' # NaN => Len(ok_returns) >= 2
    BY <1>2 DEF Overfitting
  <2>2. pbo' # NaN => n >= 2
    BY <1>1, <2>1, OkReturnsAreFew
  <2>3. stage' = "judging" /\ n' = n
    BY <1>2 DEF Overfitting
  <2>4. QED
    BY <2>2, <2>3 DEF ChoiceInv
<1>3. CASE ~Overfitting
  <2>1. n' = n /\ pbo' = pbo /\ (stage' = stage \/ stage = "backtests")
    BY <1>3 DEF Next, Runs, Fails, Exits, Corrects, Judges, Pending, vars, results
  <2>2. stage' = "judging" \/ stage # "judging"
    BY <1>3 DEF Next, Runs, Fails, Exits, Corrects, Judges, Pending, vars, results
  <2>3. QED
    BY <2>1, <2>2 DEF ChoiceInv
<1>4. QED
  BY <1>2, <1>3

LEMMA ChoiceHolds == Spec => [](EvaluationInv /\ ChoiceInv)
<1>1. Init => EvaluationInv /\ ChoiceInv
  BY InvInit, ChoiceInit
<1>2. EvaluationInv /\ ChoiceInv /\ [Next]_vars => (EvaluationInv /\ ChoiceInv)'
  BY InvNext, ChoiceNext
<1>3. QED
  BY <1>1, <1>2, PTL DEF Spec

\* The report is made once.
LEMMA JudgedOnce ==
  ASSUME EvaluationInv, Next
  PROVE  ~Judged /\ n' = n
<1>1. n \in Nat /\ Len(evaluations) \in Nat
  BY DEF EvaluationInv, Aligned, Reported
<1>2. ~Judged
  <2>1. CASE stage # "judging"
    BY <2>1 DEF Judged
  <2>2. CASE stage = "judging"
    <3>1. PICK convincing \in BOOLEAN : Judges(convincing)
      BY <2>2 DEF Next, Runs, Fails, Exits, Corrects, Overfitting, Pending
    <3>2. Len(evaluations) + 1 <= n
      BY <3>1 DEF Judges
    <3>3. QED
      BY <1>1, <3>2 DEF Judged
  <2>3. QED
    BY <2>1, <2>2
<1>3. n' = n
  BY DEF Next, Runs, Fails, Exits, Corrects, Overfitting, Judges, Pending
<1>4. QED
  BY <1>2, <1>3

\* A step that does not finish the report shows nothing of it.
LEMMA Unseen ==
  ASSUME ~Judged, ~Judged', n' = n
  PROVE  UNCHANGED <<Caller!jobVars, Caller!storeVars>>
  BY DEF Caller!jobVars, Caller!storeVars

\* The one that does is the orchestrator's.
LEMMA Seen ==
  ASSUME EvaluationInv', ChoiceInv', ~Judged, Judged', n' = n
  PROVE  Caller!Evaluate("job")
<1> DEFINE J == {"job"}
           C == {e \in 0 .. MaxCandidates - 1 : e < n}
           S == {i - 1 : i \in {c \in 1 .. n : evaluations'[c].survived}}
           P == IF pbo' # NaN THEN "number" ELSE "null"
           report == [survived |-> S, pbo |-> P]
<1>1. n \in Nat /\ n <= MaxCandidates /\ MaxCandidates \in Nat /\ (pbo' # NaN => n >= 2)
  BY ScoresAssumption DEF EvaluationInv, Aligned, ChoiceInv
<1>2. S \subseteq C
  <2>1. SUFFICES ASSUME NEW i \in 1 .. n PROVE i - 1 \in C
    OBVIOUS
  <2>2. QED
    BY <1>1
<1>3. P = "number" => Cardinality(C) >= 2
  <2>1. SUFFICES ASSUME n >= 2 PROVE Cardinality(C) >= 2
    BY <1>1
  <2>2. C = 0 .. n - 1
    BY <1>1
  <2>3. Cardinality(0 .. n - 1) = n
    BY <1>1, FS_Interval
  <2>4. QED
    BY <1>1, <2>1, <2>2, <2>3
<1>4. report \in {r \in [survived : SUBSET C, pbo : {"null", "number"}] :
                    r.pbo = "number" => Cardinality(C) >= 2}
  <2> HIDE DEF C, S
  <2>1. QED
    BY <1>2, <1>3
<1>5. Caller!Candidates("job") = C
  BY DEF Caller!Candidates, Caller!ExpsOf
<1>6. report \in Caller!Reports("job")
  <2> HIDE DEF C, report
  <2>1. Caller!Cardinality(C) = Cardinality(C)
    BY Zenon DEF Caller!Cardinality, Cardinality
  <2>2. QED
    BY <1>4, <1>5, <2>1 DEF Caller!Reports, Caller!Null, Caller!Computed
<1>7. QED
  <2> HIDE DEF C
  <2>1. report.survived = S /\ report.pbo = P
    OBVIOUS
  <2>2. QED
    BY <1>6, <2>1 DEF Caller!Evaluate, Caller!Goto, Caller!storeVars, Caller!expVars

\* The evaluation is the orchestrator's one step, for any number of candidates,
\* any of which may fail, and any scores.
THEOREM EvaluationReports == Spec => EvaluationIsReport
<1>1. ASSUME EvaluationInv, EvaluationInv', ChoiceInv', [Next]_vars
      PROVE  [Caller!Evaluate("job")]_<<Caller!jobVars, Caller!storeVars>>
  <2>1. CASE Next
    <3>1. ~Judged /\ n' = n
      BY <1>1, <2>1, JudgedOnce
    <3>2. CASE Judged'
      BY <1>1, <3>1, <3>2, Seen
    <3>3. CASE ~Judged'
      BY <3>1, <3>3, Unseen
    <3>4. QED
      BY <3>2, <3>3
  <2>2. CASE UNCHANGED vars
    <3>1. UNCHANGED <<Caller!jobVars, Caller!storeVars>>
      BY <2>2 DEF vars, results, Judged, Caller!jobVars, Caller!storeVars
    <3>2. QED
      BY <3>1
  <2>3. QED
    BY <1>1, <2>1, <2>2
<1>2. EvaluationInv /\ ChoiceInv /\ (EvaluationInv /\ ChoiceInv)' /\ [Next]_vars =>
        [Caller!Evaluate("job")]_<<Caller!jobVars, Caller!storeVars>>
  BY <1>1
<1>3. QED
  BY <1>2, ChoiceHolds, PTL DEF Spec, EvaluationIsReport

\* What is shown of the correction is exact, for every number of candidates.
THEOREM CorrectionHolds == Spec => []CorrectionIsExact
<1>1. StepUpIsExact /\ AdjustedAgrees => CorrectionIsExact
  BY DEF CorrectionIsExact
<1>2. QED
  BY <1>1, ExactStepUp, AdjustedTellsTheSame, PTL
=============================================================================
