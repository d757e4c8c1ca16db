---------------------------- MODULE RunLifecycle ----------------------------
(***************************************************************************)
(* What the monitor promises about runs to a reader of its lists, with no  *)
(* jobs, tables or cursors in it:                                          *)
(*   - runs are numbered 1, 2, 3, ... in the order they are opened;        *)
(*   - a run is shown as running, then perhaps as completed, and may be    *)
(*     deleted at any time; a deleted run never comes back, under any id;  *)
(*   - a result (an evaluated experiment of a run) enters the board at     *)
(*     most once, only while its run is shown as running, and a result     *)
(*     taken off the board by hand or with its run stays off.              *)
(***************************************************************************)
EXTENDS Integers

CONSTANT Results  \* names of the results within one run

VARIABLES
  opened,   \* number of runs opened so far
  status,   \* status[r], for each run opened
  board,    \* pairs <<run, result>> on display
  spent     \* pairs that were on display once, or never can be any more

vars == <<opened, status, board, spent>>

Init ==
  /\ opened = 0
  /\ status = [r \in {} |-> "running"]
  /\ board = {}
  /\ spent = {}

Open ==
  /\ opened' = opened + 1
  /\ status' = [r \in 1 .. opened + 1 |->
                  IF r = opened + 1 THEN "running" ELSE status[r]]
  /\ UNCHANGED <<board, spent>>

\* A run that was deleted meanwhile still spends its results, off the board.
Reveal(r, x) ==
  /\ r \in 1 .. opened
  /\ status[r] # "completed"
  /\ <<r, x>> \notin spent
  /\ spent' = spent \cup {<<r, x>>}
  /\ board' = IF status[r] = "running" THEN board \cup {<<r, x>>} ELSE board
  /\ UNCHANGED <<opened, status>>

Complete(r) ==
  /\ r \in 1 .. opened
  /\ status[r] = "running"
  /\ status' = [status EXCEPT ![r] = "completed"]
  /\ UNCHANGED <<opened, board, spent>>

Withdraw(r, x) ==
  /\ <<r, x>> \in board
  /\ board' = board \ {<<r, x>>}
  /\ UNCHANGED <<opened, status, spent>>

Delete(r) ==
  /\ r \in 1 .. opened
  /\ status[r] # "deleted"
  /\ status' = [status EXCEPT ![r] = "deleted"]
  /\ board' = {b \in board : b[1] # r}
  /\ UNCHANGED <<opened, spent>>

Next ==
  \/ Open
  \/ \E r \in 1 .. opened :
       \/ Complete(r)
       \/ Delete(r)
       \/ \E x \in Results : Reveal(r, x) \/ Withdraw(r, x)

Spec == Init /\ [][Next]_vars
=============================================================================
