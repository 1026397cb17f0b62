------------------------------ MODULE Calculus ------------------------------
(***************************************************************************)
(* What a forward search is given (reason/search/inverse_method.rs):       *)
(* sequents and the rules of a caller, RuleSpec, that lead from one to     *)
(* others.                                                                 *)
(***************************************************************************)
EXTENDS Subsumption

CONSTANTS
  Atom,      \* literals, as hypotheses and conclusions
  Sequent,   \* those that axioms, goals and rules name
  Problem,   \* what is searched: [axioms, goal, rules]
  Config     \* SaturationConfig: [max_steps, max_clauses, focus_cap]

\* RuleSpec: when a sequent with the trigger as its conclusion is known, those to
\* emit follow.  The trigger stays as the caller wrote it.
Rule == [trigger : Atom, emit : SUBSET Sequent, invertible : BOOLEAN]

ASSUME CalculusAssumption ==
  /\ Atom \subseteq Literal
  /\ Fresh \in Seq(Name) /\ \A j, k \in DOMAIN Fresh : Fresh[j] = Fresh[k] => j = k
  /\ \A l \in Atom : Cardinality(Bound(l)) <= Len(Fresh)
  /\ Sequent \subseteq [hyps : SUBSET Atom, concl : Atom]
  /\ Problem \subseteq [axioms : SUBSET Sequent, goal : Sequent, rules : SUBSET Rule]
  /\ Config \subseteq [max_steps : Nat, max_clauses : Nat, focus_cap : Nat]

\* The canonical forms of the literals.
Form == [l \in Atom |-> Canonical(l)]

\* subsumes.
Subsumes(general, specific) ==
  /\ Form[general.concl] = Form[specific.concl]
  /\ {Form[h] : h \in general.hyps} \subseteq {Form[h] : h \in specific.hyps}
=============================================================================
