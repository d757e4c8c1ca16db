-------------------------- MODULE MultipleTesting --------------------------
(***************************************************************************)
(* benjamini_hochberg and bonferroni (eval/multiple_testing.py).  The      *)
(* p-values are p[i] / D and the level is alpha / D, so that comparisons   *)
(* of quotients become comparisons of products; the code computes them in  *)
(* floating point.                                                         *)
(***************************************************************************)
EXTENDS Integers, Sequences

Permutation(m) == {o \in [1 .. m -> 1 .. m] : \A i, j \in 1 .. m : o[i] = o[j] => i = j}

\* argsort need not keep the order of equal values: any of these.
Orders(p) ==
  {o \in Permutation(Len(p)) : \A i, j \in 1 .. Len(p) : i <= j => p[o[i]] <= p[o[j]]}

\* The ranks whose p-value is at most rank / m * alpha.
below(p, o, alpha) == {i \in 1 .. Len(p) : p[o[i]] * Len(p) <= i * alpha}

\* Mutant: the first rank that is not below ends the search (step down).
StepDown(p, o, alpha) ==
  CHOOSE k \in 0 .. Len(p) :
    /\ 1 .. k \subseteq below(p, o, alpha)
    /\ k + 1 \notin below(p, o, alpha)

\* k, the last rank that is below, 0 if none is.
cutoff(p, o, alpha) ==
  CHOOSE k \in 0 .. Len(p) :
    /\ k = 0 \/ k \in below(p, o, alpha)
    /\ \A i \in below(p, o, alpha) : i <= k

rejected(p, o, alpha) == {o[i] : i \in 1 .. cutoff(p, o, alpha)}

\* adjusted, in units of 1 / (D * m!), where every quotient is a whole number.
Factorial(m) == LET f[i \in 0 .. m] == IF i = 0 THEN 1 ELSE i * f[i - 1] IN f[m]

\* Mutant: without the running minimum.
NotMonotone(p, o, D) ==
  LET m == Len(p)
  IN [c \in 1 .. m |-> LET i == CHOOSE i \in 1 .. m : o[i] = c
                       IN p[c] * m * (Factorial(m) \div i)]

\* prev, from the last rank down: the least value from a rank on, at most top.
running_min(val, m, top) ==
  LET adj[i \in 1 .. m + 1] ==
        IF i = m + 1 THEN top
        ELSE IF val[i] < adj[i + 1] THEN val[i] ELSE adj[i + 1]
  IN adj

adjusted(p, o, D) ==
  LET m == Len(p)
      val == [i \in 1 .. m |-> p[o[i]] * m * (Factorial(m) \div i)]
      adj == running_min(val, m, D * Factorial(m))
  IN [c \in 1 .. m |-> adj[CHOOSE i \in 1 .. m : o[i] = c]]

bonferroni(p, alpha) == {i \in 1 .. Len(p) : p[i] * Len(p) <= alpha}
=============================================================================
