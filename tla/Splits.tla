------------------------------- MODULE Splits -------------------------------
(***************************************************************************)
(* How an event stream of length n is cut: partition_events                *)
(* (data/partition.py), the windows of walk_forward (eval/walk_forward.py) *)
(* and purged_kfold_indices (eval/purged_cv.py).  Indices start at 0 and   *)
(* an interval [from, to) leaves its end out, as in the code.              *)
(***************************************************************************)
EXTENDS Integers

min(a, b) == IF a <= b THEN a ELSE b

Interval(from, to) == [from |-> from, to |-> to]
Indices(i) == i.from .. i.to - 1

\* int(a / b) of a product or quotient computed in floating point: where the
\* exact value is an integer the computed one may lie just below it.
Truncated(a, b) ==
  {a \div b} \cup (IF a > 0 /\ a % b = 0 THEN {a \div b - 1} ELSE {})

\* Mutant: the validation partition follows the training one at once.
NoGapAfterTrain(n, n_train, n_val, embargo) ==
  LET val == Interval(min(n, n_train), min(n, min(n, n_train) + n_val))
  IN [train |-> Interval(0, n_train),
      validation |-> val,
      holdout |-> Interval(min(n, val.to + embargo), n)]

\* partition_events, from the truncated products of n.
partition_events(n, n_train, n_val, embargo) ==
  LET val_start == min(n, n_train + embargo)
      val == Interval(val_start, min(n, val_start + n_val))
  IN [train |-> Interval(0, n_train),
      validation |-> val,
      holdout |-> Interval(min(n, val.to + embargo), n)]

\* bounds of walk_forward: linspace(0, n, k + 1) as integers, both ends exact.
WindowBounds(n, k) ==
  {b \in [0 .. k -> 0 .. n] :
     /\ b[0] = 0 /\ b[k] = n
     /\ \A i \in 1 .. k - 1 : b[i] \in Truncated(i * n, k)}

\* Mutant: a window keeps the first event of the next one.
OverlappingWindows(b) == {Interval(b[i - 1], b[i] + 1) : i \in DOMAIN b \ {0}}

\* The windows that are run: those of fewer than two events are skipped.
Windows(b) ==
  {w \in {Interval(b[i - 1], b[i]) : i \in DOMAIN b \ {0}} : w.to - w.from >= 2}

\* array_split(arange(n), k)[i]: the first n % k blocks have one more.
Block(n, k, i) ==
  Interval(i * (n \div k) + min(i, n % k), (i + 1) * (n \div k) + min(i + 1, n % k))

\* Mutant: the embargo is counted from the start of the test block.
EmbargoFromStart(n, k, embargo, i) ==
  LET test == Block(n, k, i)
  IN [test |-> Indices(test),
      train |-> (0 .. n - 1) \ (test.from .. min(n, test.from + embargo + 1) - 1)]

\* The i-th fold of purged_kfold_indices.
Fold(n, k, embargo, i) ==
  LET test == Block(n, k, i)
  IN [test |-> Indices(test),
      train |-> (0 .. n - 1) \ (test.from .. min(n, test.to + embargo) - 1)]
=============================================================================
