--------------------------- MODULE SequentialFirst ---------------------------
(***************************************************************************)
(* What search/concurrent.rs promises of first_success: the call answers   *)
(* once, and its answer is the one of the sequential "return the first     *)
(* success" loop (the `workers <= 1` path), for whatever the tasks do.     *)
(***************************************************************************)
EXTENDS Integers

CONSTANTS
  N,        \* how many tasks
  Outcome   \* what a task may turn out to do

\* "success" and "failure" are the predicate's verdicts on the value, "panic"
\* is a task that panics, "predicate_panic" a value the predicate panics on,
\* "hang" a task that never returns.
Behaviour == {"success", "failure", "panic", "predicate_panic", "hang"}

ASSUME TasksAssumption == N \in Nat /\ Outcome \subseteq Behaviour

Task == 0..(N - 1)
None == -1       \* no task succeeded
Pending == -2    \* the call has not returned
Unwound == -3    \* the call panicked

VARIABLES
  outcome,  \* outcome[i]: what task i does when it is run
  result    \* what the call returned

\* The task at which the loop stops: every task below it failed or panicked,
\* and catch_unwind swallowed the panic.
Decisive(oc, i) ==
  /\ oc[i] \in {"success", "predicate_panic"}
  /\ \A k \in 0..(i - 1) : oc[k] \in {"failure", "panic"}

\* The answer of the loop.
FirstOf(oc, answer) ==
  \/ \E i \in Task :
        /\ Decisive(oc, i)
        /\ answer = IF oc[i] = "success" THEN i ELSE Unwound
  \/ /\ \A i \in Task : oc[i] \in {"failure", "panic"}
     /\ answer = None

Called == outcome \in [Task -> Outcome] /\ result = Pending

\* The threads may also unwind because the predicate panicked on a value the
\* loop would not have come to.
Answers ==
  /\ result = Pending
  /\ \/ FirstOf(outcome, result')
     \/ result' = Unwound /\ \E i \in Task : outcome[i] = "predicate_panic"
  /\ UNCHANGED outcome

SequentialSpec == Called /\ [][Answers]_<<outcome, result>>
============================================================================
