--------------------------- MODULE InverseMethod ---------------------------
(***************************************************************************)
(* saturate (reason/search/inverse_method.rs): forward proof search by a   *)
(* given-clause loop.  Sequents are derived from the axioms until one      *)
(* subsumes the goal or no rule gives anything new; a sequent that a       *)
(* stored one subsumes is not stored, and a stored one that a new one      *)
(* subsumes is evicted.                                                    *)
(*                                                                         *)
(* What a rule emits is stored in any order, and where the order of the    *)
(* code looks at the text of sequents, any of them may be given.           *)
(***************************************************************************)
EXTENDS Calculus

VARIABLES
  problem, config,   \* chosen at the start
  stage,         \* the part of the loop, or how it ended
  live, active,  \* stored sequents not evicted; those already given
  stored,        \* how many were ever stored
  todo,          \* emitted, not yet looked at
  extra, grew,   \* stored in this macro-step; whether its round stored any
  focus,         \* focus rounds left
  steps,
  full           \* a sequent was dropped because the store was full

saturationVars == <<problem, config, stage, live, active, stored, todo, extra, grew, focus, steps, full>>

Running == {"seed", "select", "focus", "sync"}
Ended == {"goal_derived", "step_bound_reached", "saturated"}

SaturationTypeOK ==
  /\ problem \in Problem /\ config \in Config
  /\ stage \in Running \cup Ended
  /\ live \subseteq Sequent /\ active \subseteq live
  /\ todo \subseteq Sequent /\ extra \subseteq Sequent
  /\ stored \in Nat /\ focus \in Int /\ steps \in Nat
  /\ grew \in BOOLEAN /\ full \in BOOLEAN

\* Mutant of Proved: a weaker sequent will do.
ProvedByWeaker == \E c \in live : Subsumes(problem.goal, c)
Proved == \E c \in live : Subsumes(c, problem.goal)

\* RuleSpec::apply for all rules of one sort.
Emitted(premises, invertible) ==
  UNION {r.emit : r \in {q \in problem.rules :
           q.invertible = invertible /\ \E p \in premises : Form[p.concl] = q.trigger}}

SaturationInit ==
  /\ problem \in Problem /\ config \in Config
  /\ stage = "seed"
  /\ live = {} /\ active = {} /\ stored = 0
  /\ todo = problem.axioms /\ extra = {} /\ grew = FALSE
  /\ focus = 0 /\ steps = 0 /\ full = FALSE
----------------------------------------------------------------------------
\* What stays of a set of stored sequents when c evicts what it subsumes.
Unsubsumed(S, c) == {d \in S : ~ Subsumes(c, d)}

\* Mutant of ActiveWith: a sequent of the macro-step is active at once.
ActiveAtOnce(c) == Unsubsumed(active, c) \cup {d \in {c} : stage = "focus"}
\* The new sequent stays passive until it is given.
ActiveWith(c) == Unsubsumed(active, c)

\* Engine::add.  With the goal derived, what is left does not matter.
Add(c) ==
  /\ stage \in Running /\ c \in todo /\ ~ Proved
  /\ todo' = todo \ {c}
  /\ \/ /\ \E d \in live : Subsumes(d, c)
        /\ UNCHANGED <<live, active, stored, extra, grew, full>>
     \/ /\ \A d \in live : ~ Subsumes(d, c)
        /\ stored >= config.max_clauses
        /\ full' = TRUE
        /\ UNCHANGED <<live, active, stored, extra, grew>>
     \/ /\ \A d \in live : ~ Subsumes(d, c)
        /\ stored < config.max_clauses
        /\ live' = Unsubsumed(live, c) \cup {c}
        /\ active' = ActiveWith(c)
        /\ stored' = stored + 1
        /\ extra' = extra \cup {c} /\ grew' = TRUE
        /\ UNCHANGED full
  /\ UNCHANGED <<problem, config, stage, focus, steps>>

Goon == stage \in Running /\ todo = {} /\ ~ Proved

Seeded ==
  /\ Goon /\ stage = "seed" /\ stage' = "select"
  /\ UNCHANGED <<problem, config, live, active, stored, todo, extra, grew, focus, steps, full>>

\* select_given: a passive sequent with the fewest hypotheses.
MayBeGiven(c) ==
  /\ c \in live \ active
  /\ \A d \in live \ active :
       Cardinality({Form[h] : h \in c.hyps}) <= Cardinality({Form[h] : h \in d.hyps})

\* It is given, and the first round of its macro-step is worked out.
Give(c) ==
  /\ Goon /\ stage = "select" /\ steps < config.max_steps
  /\ MayBeGiven(c)
  /\ stage' = "focus" /\ steps' = steps + 1
  /\ active' = active \cup {c}
  /\ todo' = Emitted(active', TRUE)
  /\ extra' = {} /\ grew' = FALSE
  /\ focus' = config.focus_cap - 1
  /\ UNCHANGED <<problem, config, live, stored, full>>

FocusAgain ==
  /\ Goon /\ stage = "focus" /\ grew /\ focus > 0
  /\ todo' = Emitted(active \cup extra, TRUE)
  /\ grew' = FALSE /\ focus' = focus - 1
  /\ UNCHANGED <<problem, config, stage, live, active, stored, extra, steps, full>>

Synchronous ==
  /\ Goon /\ stage = "focus" /\ ~ (grew /\ focus > 0)
  /\ stage' = "sync"
  /\ todo' = Emitted(active, FALSE)
  /\ UNCHANGED <<problem, config, live, active, stored, extra, grew, focus, steps, full>>

NextGiven ==
  /\ Goon /\ stage = "sync" /\ stage' = "select"
  /\ UNCHANGED <<problem, config, live, active, stored, todo, extra, grew, focus, steps, full>>

\* How saturate_spec reports the end.
End ==
  /\ \/ stage \in Running /\ Proved /\ stage' = "goal_derived"
     \/ Goon /\ stage = "select" /\ steps >= config.max_steps /\ stage' = "step_bound_reached"
     \/ Goon /\ stage = "select" /\ steps < config.max_steps /\ live = active /\ stage' = "saturated"
  /\ UNCHANGED <<problem, config, live, active, stored, todo, extra, grew, focus, steps, full>>

SaturationNext ==
  \/ \E c \in Sequent : Add(c) \/ Give(c)
  \/ Seeded \/ FocusAgain \/ Synchronous \/ NextGiven \/ End

SaturationSpec == SaturationInit /\ [][SaturationNext]_saturationVars
----------------------------------------------------------------------------
(* Properties.                                                             *)

\* What the rules derive from the axioms.
ClosedUnderRules(S) ==
  /\ problem.axioms \subseteq S
  /\ \A r \in problem.rules : (\E p \in S : Form[p.concl] = r.trigger) => r.emit \subseteq S
Derivable ==
  LET closed == {S \in SUBSET Sequent : ClosedUnderRules(S)}
  IN  {c \in Sequent : \A S \in closed : c \in S}

\* Through any macro-steps and evictions nothing is stored that the rules do not
\* derive, so a goal is called derived only if a derivable sequent subsumes it.
HitIsDerivable ==
  /\ \A c \in live : c \in Derivable
  /\ stage = "goal_derived" => \E c \in Derivable : Subsumes(c, problem.goal)

\* "It never reports proved unless a derived clause genuinely subsumes the goal"
\* (inverse_method.rs:30-31): what is derived proves the goal itself, not only
\* something with the same canonical form.
HitIsGenuine ==
  stage = "goal_derived" => \E c \in Derivable : MakesRedundant(c, problem.goal)

\* It does as long as the names are used with care: in no literal is one both
\* bound and free, or free and of the form of a canonical name.
WellNamedHitIsGenuine == (\A l \in Atom : WellNamed(l)) => HitIsGenuine

\* A search that ran out of sequents, not of steps or of room, was right to
\* (inverse_method.rs:427-428, "no proof exists in this calculus"): no derivable
\* sequent subsumes the goal, although subsumed sequents were dropped unused
\* and rules lost the premises that had fired them.
SaturatedIsRight ==
  stage = "saturated" /\ ~ full => \A c \in Derivable : ~ Subsumes(c, problem.goal)

=============================================================================
