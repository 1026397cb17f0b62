----------------------------- MODULE MCSearches -----------------------------
(***************************************************************************)
(* The proof searches, side by side: a behaviour is of the graph search    *)
(* driver, of best-first search or of forward saturation, and the others   *)
(* have ended.                                                             *)
(***************************************************************************)
EXTENDS SearchDriver, InverseMethod, BestFirst

CONSTANTS
  g, h, notg, noth, qed,         \* states of the driver
  root, s1, s2, done, a, b       \* states and tactics of best-first search

----------------------------------------------------------------------------
\* The goal leads to h or a proof, its negation to either or to a proof.
StepsOf(x, y, z, w) ==
  [s \in State |-> CASE s = g -> x [] s = h -> y [] s = notg -> z [] s = noth -> w
                     [] s = qed -> {}]
Negation == [s \in State |-> CASE s = g -> notg [] s = h -> noth [] OTHER -> None]
GoalWorlds ==
  {[steps |-> StepsOf(x, y, z, w), closed |-> {qed}, negation |-> Negation] :
     x \in SUBSET {h, qed}, y \in SUBSET {g, qed}, z \in SUBSET {noth, h, qed},
     w \in SUBSET {notg, qed}}
GoalLimits ==
  {[rounds |-> 4, width |-> 2, depth |-> 2, nodes |-> n] : n \in {2, 5}}
    \cup {[rounds |-> 0, width |-> 1, depth |-> 1, nodes |-> 3]}
----------------------------------------------------------------------------
\* Every way two tactics can lead between four states, of which "done" is a
\* dead end and s2 knows one tactic, with the goal there, at the root, or out
\* of reach; the search tells all states apart, or takes two for one.
Proof == {root, s1, s2, done}
Goes == Proof \cup {Failed}
Steps ==
  {[x \in Proof \X {a, b} |->
      CASE x[1] = root -> first[x[2]]
        [] x[1] = s1 -> second[x[2]]
        [] x = <<s2, a>> -> t
        [] OTHER -> Failed] :
     first \in [{a, b} -> {s1, s2, done, Failed}],
     second \in [{a, b} -> {root, s2, done, Failed}], t \in Goes}
Apart == [s \in Proof |-> s]
S1AsS2 == [Apart EXCEPT ![s1] = s2]
S1AsRoot == [Apart EXCEPT ![s1] = root]
Trees ==
  {[step |-> step, closed |-> closed, key |-> key] :
     step \in Steps, closed \in {{}, {done}, {root}}, key \in {Apart, S1AsS2, S1AsRoot}}
----------------------------------------------------------------------------
\* Sequents with and without a hypothesis, over a closed literal, one with a
\* bound name under two names, and one about a free name; a rule for P and a rule
\* for Q, each synchronous or not, that emit sequents that are new, subsumed, or
\* subsume what triggered the rule.
Free(pred, w) == [pred |-> pred, binds |-> <<>>, uses |-> <<w>>]
ForAll(pred, w) == [pred |-> pred, binds |-> <<w>>, uses |-> <<w>>]
P == <<[pred |-> "P", binds |-> <<>>, uses |-> <<>>]>>
Q(w) == <<ForAll("Q", w)>>
R(w) == <<Free("R", w)>>
Names == {"x", "y", "v0", "v1"}
Predicates == {"P", "Q", "R", "S"}
MCFresh == <<"v0", "v1">>
Literals == {P, Q("x"), Q("y"), Q("v0"), R("x"), R("y")}
Fact(x) == [hyps |-> {}, concl |-> x]
Under(x, y) == [hyps |-> {x}, concl |-> y]
Sequents ==
  {Fact(P), Fact(Q("x")), Fact(R("x")), Fact(R("y")),
   Under(R("x"), P), Under(P, Q("y")), Under(P, R("x"))}
RulesOn(x, emits) ==
  {[trigger |-> x, emit |-> e, invertible |-> i] : e \in emits, i \in BOOLEAN}
Problems ==
  {[axioms |-> ax, goal |-> c, rules |-> {onP, onQ}] :
     ax \in {{Under(R("x"), P)}, {Under(R("x"), P), Under(P, Q("y"))}},
     c \in {Fact(R("x")), Fact(R("y")), Under(P, R("x"))},
     onP \in RulesOn(P, {{Under(P, Q("y"))}, {Fact(P), Under(P, Q("y"))}, {Fact(Q("x"))},
                        {Fact(P), Under(P, R("x"))}}),
     onQ \in RulesOn(Q("v0"), {{Fact(R("x"))}, {Under(P, R("x"))}, {Fact(P)},
                        {Fact(Q("x")), Under(P, R("x"))}})}
\* A name bound in one part and free in another, and one that is canonical:
\* (forall y, Q y) -> R y beside the same of x, and forall x, S x x beside S x v0.
CapturedPairs ==
  {<<<<ForAll("Q", "y"), Free("R", "y")>>, <<ForAll("Q", "x"), Free("R", "x")>>>>,
   <<<<[pred |-> "S", binds |-> <<"x">>, uses |-> <<"x", "x">>]>>,
     <<[pred |-> "S", binds |-> <<"x">>, uses |-> <<"x", "v0">>]>>>>}
CapturedLiterals == UNION {{pair[1], pair[2]} : pair \in CapturedPairs}
CapturedSequents == {Fact(l) : l \in CapturedLiterals}
CapturedProblems ==
  {[axioms |-> {Fact(pair[1])}, goal |-> Fact(pair[2]), rules |-> {}] : pair \in CapturedPairs}
\* Room and steps enough, with one focus round or more; one step; two sequents.
Configs ==
  {[max_steps |-> 9, max_clauses |-> 9, focus_cap |-> 0],
   [max_steps |-> 9, max_clauses |-> 9, focus_cap |-> 3],
   [max_steps |-> 1, max_clauses |-> 9, focus_cap |-> 3],
   [max_steps |-> 9, max_clauses |-> 2, focus_cap |-> 2]}

----------------------------------------------------------------------------
NoBest ==
  /\ tree = CHOOSE t \in Trees : TRUE
  /\ max_steps = 1 /\ phase = "gave_up"
  /\ arena = <<[state |-> root, parent |-> 0, tactic |-> Failed]>>
  /\ heap = {} /\ visited = {} /\ scored = 0 /\ order = <<>> /\ solved_node = 0
  /\ kept = <<>>
NoDriver ==
  /\ world = CHOOSE w \in World : TRUE
  /\ limits = CHOOSE x \in Limits : TRUE
  /\ at = "done" /\ nodes = {g} /\ disproof = {} /\ expanded = {}
  /\ edges = [s \in State |-> {}]
  /\ path = <<g>> /\ rounds = 0 /\ solved = FALSE /\ refuted = FALSE

NoForward ==
  /\ problem = CHOOSE x \in Problem : TRUE
  /\ config = CHOOSE x \in Config : TRUE
  /\ stage = "step_bound_reached" /\ live = {} /\ active = {} /\ todo = {} /\ extra = {}
  /\ stored = 0 /\ grew = FALSE /\ focus = 0 /\ steps = 0 /\ full = FALSE

SearchesSpec ==
  /\ \/ Init /\ NoBest /\ NoForward
     \/ BestInit /\ NoDriver /\ NoForward
     \/ SaturationInit /\ NoDriver /\ NoBest
  /\ [][\/ Next /\ UNCHANGED <<bestVars, saturationVars>>
        \/ BestNext /\ UNCHANGED <<vars, saturationVars>>
        \/ SaturationNext /\ UNCHANGED <<vars, bestVars>>]_<<vars, bestVars, saturationVars>>
=============================================================================
