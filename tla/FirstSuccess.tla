---------------------------- MODULE FirstSuccess ----------------------------
(***************************************************************************)
(* first_success with threads (search/concurrent.rs:264-343): a pool of    *)
(* workers pulls task indices from one counter, skips an index above the   *)
(* lowest success known so far, and the caller joins all of them.          *)
(***************************************************************************)
EXTENDS SequentialFirst

CONSTANT Worker    \* the threads of the scope, workers_for(n) of them

ASSUME PoolAssumption == Worker # {}

VARIABLES
  next,     \* the shared counter of the next index to pull
  best,     \* lowest success known; N stands for usize::MAX
  wins,     \* the indices whose value has been stored
  at,       \* where each worker is in its loop
  hand      \* the index each worker has pulled

vars == <<outcome, next, best, wins, at, hand, result>>

Place == {"pull", "check", "run", "min", "store", "exit", "dead"}

FirstSuccessTypeOK ==
  /\ outcome \in [Task -> Outcome]
  /\ next \in Nat
  /\ best \in 0..N
  /\ wins \subseteq Task
  /\ at \in [Worker -> Place]
  /\ hand \in [Worker -> Nat]
  /\ \A w \in Worker : at[w] \notin {"pull", "exit"} => hand[w] \in Task
  /\ result \in Task \cup {None, Pending, Unwound}

Init ==
  /\ Called
  /\ next = 0
  /\ best = N
  /\ wins = {}
  /\ at = [w \in Worker |-> "pull"]
  /\ hand = [w \in Worker |-> 0]

\* fetch_add on the counter; past the last index the worker leaves its loop.
Pull(w) ==
  /\ at[w] = "pull"
  /\ next' = next + 1
  /\ hand' = [hand EXCEPT ![w] = next]
  /\ at' = [at EXCEPT ![w] = IF next >= N THEN "exit" ELSE "check"]
  /\ UNCHANGED <<outcome, best, wins, result>>

\* Mutant of Check: any success stops the others, also below it.
CheckAnySuccess(w) ==
  /\ at[w] = "check"
  /\ at' = [at EXCEPT ![w] = IF best < N THEN "pull" ELSE "run"]
  /\ UNCHANGED <<outcome, next, best, wins, hand, result>>

\* An index above a known success is skipped unrun.
Check(w) ==
  /\ at[w] = "check"
  /\ at' = [at EXCEPT ![w] = IF hand[w] > best THEN "pull" ELSE "run"]
  /\ UNCHANGED <<outcome, next, best, wins, hand, result>>

\* The task and then the predicate.  A panic of the task is caught, one of
\* the predicate ends the thread; a task that hangs has no step.
Run(w) ==
  /\ at[w] = "run"
  /\ outcome[hand[w]] # "hang"
  /\ at' = [at EXCEPT ![w] = CASE outcome[hand[w]] = "success" -> "min"
                               [] outcome[hand[w]] = "predicate_panic" -> "dead"
                               [] OTHER -> "pull"]
  /\ UNCHANGED <<outcome, next, best, wins, hand, result>>

\* fetch_min on best, and only then the value is stored.
RaiseFlag(w) ==
  /\ at[w] = "min"
  /\ at' = [at EXCEPT ![w] = "store"]
  /\ best' = IF hand[w] < best THEN hand[w] ELSE best
  /\ UNCHANGED <<outcome, next, wins, hand, result>>

StoreWin(w) ==
  /\ at[w] = "store"
  /\ at' = [at EXCEPT ![w] = "pull"]
  /\ wins' = wins \cup {hand[w]}
  /\ UNCHANGED <<outcome, next, best, hand, result>>

\* Mutant of Join: a thread that panicked is waited for.
JoinTheLiving ==
  /\ result = Pending
  /\ \A w \in Worker : at[w] = "exit"
  /\ \/ wins = {} /\ result' = None
     \/ \E i \in wins : (\A k \in wins : i <= k) /\ result' = i
  /\ UNCHANGED <<outcome, next, best, wins, at, hand>>

\* The scope ends when every worker has; a thread that panicked makes it
\* panic.  The lowest stored win is returned.
Join ==
  /\ result = Pending
  /\ \A w \in Worker : at[w] \in {"exit", "dead"}
  /\ \/ \E w \in Worker : at[w] = "dead" /\ result' = Unwound
     \/ /\ \A w \in Worker : at[w] = "exit"
        /\ \/ wins = {} /\ result' = None
           \/ \E i \in wins : (\A k \in wins : i <= k) /\ result' = i
  /\ UNCHANGED <<outcome, next, best, wins, at, hand>>

Step(w) == Pull(w) \/ Check(w) \/ Run(w) \/ RaiseFlag(w) \/ StoreWin(w)

Next == Join \/ \E w \in Worker : Step(w)

Spec == Init /\ [][Next]_vars

\* Operating system threads are scheduled, and the caller waits for them.
FairSpec == Spec /\ WF_vars(Join) /\ \A w \in Worker : WF_vars(Step(w))

----------------------------------------------------------------------------
(* Properties *)

\* concurrent.rs:10-12: whatever the threads' schedule, the call answers as
\* the sequential loop would, unless a predicate panics.
SameAsSequential == SequentialSpec

\* The value is stored after `best` is lowered, so a skip may happen before
\* the value that justifies it is in place.  It never leaves a gap: for every
\* index that was skipped there is a lower success stored or about to be.
SkipsAreDominated ==
  best < N => /\ outcome[best] = "success"
              /\ best \in wins \/ \E w \in Worker : at[w] = "store" /\ hand[w] = best

\* The call returns if no task hangs, also when threads die of a panic.
CallReturns == (\A i \in Task : outcome[i] # "hang") => <>(result # Pending)
============================================================================
