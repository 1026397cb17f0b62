------------------------- MODULE FirstSuccessProofs -------------------------
(***************************************************************************)
(* For any number of tasks and of workers, the pool of FirstSuccess        *)
(* answers as the sequential loop does.                                    *)
(*                                                                         *)
(* The heart of the argument is Accounted: an index that was handed out is *)
(* either still in a worker's hand, or its win is stored, or it lies above *)
(* a known success, or it failed, unless a predicate killed a worker.      *)
(* When every worker has left its loop nothing is in a hand any more and   *)
(* every index was handed out.                                             *)
(***************************************************************************)
EXTENDS FirstSuccess, TLAPS

Busy == {"check", "run", "min", "store"}

\* An index in a worker's hand was handed out and is a task.
HandsOut == \A w \in Worker : at[w] \in Busy => hand[w] \in Task /\ hand[w] < next

\* Only successes are stored or on their way.
OnlySuccessesWin ==
  /\ \A i \in wins : outcome[i] = "success"
  /\ \A w \in Worker : at[w] \in {"min", "store"} => outcome[hand[w]] = "success"

Accounted ==
  \A i \in Task : i < next =>
     \/ i \in wins
     \/ best < i
     \/ \E w \in Worker : at[w] \in Busy /\ hand[w] = i
     \/ outcome[i] \in {"failure", "panic"}
     \/ \E w \in Worker : at[w] = "dead"

\* A worker leaves its loop only when every index has been handed out, and
\* dies only of a predicate that panics.
Leaving ==
  \A w \in Worker :
     /\ at[w] = "exit" => next >= N
     /\ at[w] = "dead" => \E i \in Task : outcome[i] = "predicate_panic"

IInv ==
  /\ FirstSuccessTypeOK
  /\ HandsOut
  /\ OnlySuccessesWin
  /\ SkipsAreDominated
  /\ Accounted
  /\ Leaving

\* The initial state satisfies the invariant.
LEMMA InitIInv == Init => IInv
  BY TasksAssumption
  DEF Init, Called, IInv, FirstSuccessTypeOK, HandsOut, OnlySuccessesWin,
      SkipsAreDominated, Accounted, Leaving, Busy, Place, Task, None, Pending, Unwound

\* One step per action.
LEMMA NextIInv ==
  ASSUME IInv, [Next]_vars
  PROVE  IInv'
<1> USE TasksAssumption
<1>1. ASSUME NEW w \in Worker, Pull(w) PROVE IInv'
  <2> USE <1>1 DEF Pull, IInv
  <2>1. FirstSuccessTypeOK' BY DEF FirstSuccessTypeOK, Place, Task
  <2>2. HandsOut' BY DEF HandsOut, FirstSuccessTypeOK, Busy, Task
  <2>3. OnlySuccessesWin' BY DEF OnlySuccessesWin, FirstSuccessTypeOK
  <2>4. SkipsAreDominated' BY DEF SkipsAreDominated, FirstSuccessTypeOK
  <2>5. Accounted'
    <3> SUFFICES ASSUME NEW i \in Task, i < next + 1,
                        i \notin wins, ~ best < i, outcome[i] \notin {"failure", "panic"},
                        ~ \E v \in Worker : at'[v] = "dead"
                 PROVE  \E v \in Worker : at'[v] \in Busy /\ hand'[v] = i
      BY DEF Accounted
    <3>1. CASE i < next
      <4>0. ~ \E v \in Worker : at[v] = "dead" BY DEF FirstSuccessTypeOK
      <4>1. PICK v \in Worker : at[v] \in Busy /\ hand[v] = i BY <3>1, <4>0 DEF Accounted
      <4>2. v # w BY <4>1 DEF Busy
      <4> QED BY <4>1, <4>2 DEF FirstSuccessTypeOK
    <3>2. CASE i = next BY <3>2 DEF FirstSuccessTypeOK, Busy, Task
    <3> QED BY <3>1, <3>2 DEF FirstSuccessTypeOK, Task
  <2>6. Leaving' BY DEF Leaving, FirstSuccessTypeOK
  <2> QED BY <2>1, <2>2, <2>3, <2>4, <2>5, <2>6
<1>2. ASSUME NEW w \in Worker, Check(w) PROVE IInv'
  <2> USE <1>2 DEF Check, IInv
  <2>1. FirstSuccessTypeOK' BY DEF FirstSuccessTypeOK, Place
  <2>2. HandsOut' BY DEF HandsOut, FirstSuccessTypeOK, Busy
  <2>3. OnlySuccessesWin' BY DEF OnlySuccessesWin, FirstSuccessTypeOK
  <2>4. SkipsAreDominated' BY DEF SkipsAreDominated, FirstSuccessTypeOK
  <2>5. Accounted' BY DEF Accounted, FirstSuccessTypeOK, Busy
  <2>6. Leaving' BY DEF Leaving, FirstSuccessTypeOK
  <2> QED BY <2>1, <2>2, <2>3, <2>4, <2>5, <2>6
<1>3. ASSUME NEW w \in Worker, Run(w) PROVE IInv'
  <2> USE <1>3 DEF Run, IInv
  <2>1. hand[w] \in Task /\ outcome[hand[w]] \in Outcome
    BY DEF HandsOut, FirstSuccessTypeOK, Busy
  <2>2. \/ outcome[hand[w]] = "success" /\ at' = [at EXCEPT ![w] = "min"]
        \/ outcome[hand[w]] \in {"failure", "panic"} /\ at' = [at EXCEPT ![w] = "pull"]
        \/ outcome[hand[w]] = "predicate_panic" /\ at' = [at EXCEPT ![w] = "dead"]
    BY <2>1 DEF Behaviour
  <2>3. FirstSuccessTypeOK' BY <2>2 DEF FirstSuccessTypeOK, Place
  <2>4. HandsOut' BY <2>2 DEF HandsOut, FirstSuccessTypeOK, Busy
  <2>5. OnlySuccessesWin' BY <2>2 DEF OnlySuccessesWin, FirstSuccessTypeOK
  <2>6. SkipsAreDominated' BY <2>2 DEF SkipsAreDominated, FirstSuccessTypeOK
  <2>7. Accounted' BY <2>2 DEF Accounted, FirstSuccessTypeOK, Busy
  <2>8. Leaving' BY <2>1, <2>2 DEF Leaving, FirstSuccessTypeOK
  <2> QED BY <2>3, <2>4, <2>5, <2>6, <2>7, <2>8
<1>4. ASSUME NEW w \in Worker, RaiseFlag(w) PROVE IInv'
  <2> USE <1>4 DEF RaiseFlag, IInv
  <2>1. hand[w] \in Task BY DEF HandsOut, Busy
  <2>2. FirstSuccessTypeOK' BY <2>1 DEF FirstSuccessTypeOK, Place, Task
  <2>3. HandsOut' BY DEF HandsOut, FirstSuccessTypeOK, Busy
  <2>4. OnlySuccessesWin' BY DEF OnlySuccessesWin, FirstSuccessTypeOK
  <2>5. SkipsAreDominated'
    BY <2>1 DEF SkipsAreDominated, OnlySuccessesWin, FirstSuccessTypeOK, Task
  <2>6. Accounted' BY <2>1 DEF Accounted, FirstSuccessTypeOK, Busy, Task
  <2>7. Leaving' BY DEF Leaving, FirstSuccessTypeOK
  <2> QED BY <2>2, <2>3, <2>4, <2>5, <2>6, <2>7
<1>5. ASSUME NEW w \in Worker, StoreWin(w) PROVE IInv'
  <2> USE <1>5 DEF StoreWin, IInv
  <2>1. hand[w] \in Task BY DEF HandsOut, Busy
  <2>2. FirstSuccessTypeOK' BY <2>1 DEF FirstSuccessTypeOK, Place
  <2>3. HandsOut' BY DEF HandsOut, FirstSuccessTypeOK, Busy
  <2>4. OnlySuccessesWin' BY DEF OnlySuccessesWin, FirstSuccessTypeOK
  <2>5. SkipsAreDominated' BY DEF SkipsAreDominated, FirstSuccessTypeOK
  <2>6. Accounted' BY DEF Accounted, FirstSuccessTypeOK, Busy
  <2>7. Leaving' BY DEF Leaving, FirstSuccessTypeOK
  <2> QED BY <2>2, <2>3, <2>4, <2>5, <2>6, <2>7
<1>6. CASE Join
  <2> USE <1>6 DEF Join, IInv
  <2>1. FirstSuccessTypeOK'
    BY DEF FirstSuccessTypeOK, None, Unwound
  <2>2. HandsOut' /\ OnlySuccessesWin' /\ SkipsAreDominated' /\ Accounted' /\ Leaving'
    BY DEF HandsOut, OnlySuccessesWin, SkipsAreDominated, Accounted, Leaving
  <2> QED BY <2>1, <2>2
<1>7. CASE UNCHANGED vars
  BY <1>7 DEF vars, IInv, FirstSuccessTypeOK, HandsOut, OnlySuccessesWin,
              SkipsAreDominated, Accounted, Leaving
<1> QED BY <1>1, <1>2, <1>3, <1>4, <1>5, <1>6, <1>7 DEF Next, Step

\* When every worker has left its loop, every index is stored, dominated or
\* failed, so the lowest stored win is the one the loop stops at.
LEMMA JoinAnswers ==
  ASSUME IInv, Join, \A w \in Worker : at[w] = "exit"
  PROVE  FirstOf(outcome, result')
<1> USE TasksAssumption DEF IInv, Join
<1>1. next >= N BY PoolAssumption DEF Leaving
<1>2. best < N => best \in wins BY DEF SkipsAreDominated
<1>3. \A i \in Task : i \in wins \/ best < i \/ outcome[i] \in {"failure", "panic"}
  <2> SUFFICES ASSUME NEW i \in Task
               PROVE  i \in wins \/ best < i \/ outcome[i] \in {"failure", "panic"}
    OBVIOUS
  <2>1. i < next BY <1>1 DEF Task, FirstSuccessTypeOK
  <2> QED BY <2>1 DEF Accounted, Busy
<1>4. CASE wins = {} /\ result' = None
  BY <1>4, <1>2, <1>3 DEF FirstOf, FirstSuccessTypeOK, Task
<1>5. CASE \E i \in wins : (\A k \in wins : i <= k) /\ result' = i
  <2>1. PICK i \in wins : (\A k \in wins : i <= k) /\ result' = i BY <1>5
  <2>2. i \in Task /\ outcome[i] = "success" BY DEF FirstSuccessTypeOK, OnlySuccessesWin
  <2>3. ASSUME NEW k \in 0..(i - 1) PROVE outcome[k] \in {"failure", "panic"}
    <3>1. k \in Task /\ k < i BY <2>2 DEF Task
    <3>2. k \notin wins BY <2>1, <2>2, <3>1 DEF Task
    <3>3. ~ best < k BY <1>2, <2>1, <2>2, <3>1 DEF Task, FirstSuccessTypeOK
    <3> QED BY <1>3, <3>1, <3>2, <3>3
  <2>4. Decisive(outcome, i) BY <2>2, <2>3 DEF Decisive
  <2> QED BY <2>1, <2>2, <2>4 DEF FirstOf
<1> QED BY <1>4, <1>5, PoolAssumption

\* The invariant holds in every reachable state.
LEMMA SpecIInv == Spec => []IInv
BY InitIInv, NextIInv, PTL DEF Spec

\* A success that justifies a skip is always stored or about to be
\* (concurrent.rs:303-329), for any number of tasks and workers.
THEOREM SkipsAlwaysDominated == Spec => []SkipsAreDominated
<1>1. IInv => SkipsAreDominated BY DEF IInv
<1> QED BY <1>1, SpecIInv, PTL

\* The determinism concurrent.rs:10-12 promises: whatever the schedule, the
\* call returns what the sequential loop returns, or unwinds with the panic of
\* a predicate.  A task may fail, panic or hang.
THEOREM ConcurrentIsSequential == Spec => SameAsSequential
<1>1. Init => Called BY DEF Init
<1>2. ASSUME IInv, [Next]_vars PROVE [Answers]_<<outcome, result>>
  <2>1. CASE Join
    <3>1. CASE \A w \in Worker : at[w] = "exit"
      BY <2>1, <3>1, <1>2, JoinAnswers DEF Join, Answers
    <3>2. CASE \E w \in Worker : at[w] = "dead" /\ result' = Unwound
      BY <2>1, <3>2, <1>2 DEF Join, Answers, IInv, Leaving
    <3> QED BY <2>1, <3>1, <3>2 DEF Join
  <2>2. CASE UNCHANGED <<outcome, result>> BY <2>2
  <2>3. [Next]_vars => Join \/ UNCHANGED <<outcome, result>>
    BY DEF Next, Step, Pull, Check, Run, RaiseFlag, StoreWin, vars
  <2> QED BY <1>2, <2>1, <2>2, <2>3
<1> QED BY <1>1, <1>2, SpecIInv, PTL DEF Spec, SameAsSequential, SequentialSpec
============================================================================
