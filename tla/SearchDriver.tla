---------------------------- MODULE SearchDriver ----------------------------
(***************************************************************************)
(* ProofSearchDriver::run_attempt (reason/search/driver.rs): Monte Carlo   *)
(* search on a graph whose nodes are goal states, with a negator: beside   *)
(* its tactic steps each state on the proof side gets an edge to its       *)
(* negation, and what is found below that is a disproof.                   *)
(*                                                                         *)
(* States of one dedup_key are one state here.  Scores are left out: the   *)
(* descent may take any edge, a rollout any line of tactics.               *)
(***************************************************************************)
EXTENDS Integers, Sequences, FiniteSets, SequencesExt

CONSTANTS
  State, Root,
  None,       \* the negation of a state that cannot be negated
  World,      \* what the expander and the negator do: [steps, closed, negation]
  Limits      \* the budgets: [rounds, width, depth, nodes], of nodes one at least

ASSUME DriverAssumption ==
  /\ Root \in State /\ None \notin State
  /\ World \subseteq [steps : [State -> SUBSET State], closed : SUBSET State,
                      negation : [State -> State \cup {None}]]
  /\ Limits \subseteq [rounds : Nat, width : Nat, depth : Nat, nodes : Nat]

VARIABLES
  world, limits,     \* chosen at the start
  at,                \* "next", "descend", "leaf", "rollout", "done"
  nodes,             \* the states in the graph
  disproof,          \* is_neg: those on the disproof side
  edges, expanded,
  path,              \* of this iteration
  rounds,            \* iterations left
  solved, refuted

vars == <<world, limits, at, nodes, disproof, edges, expanded, path, rounds, solved, refuted>>

DriverTypeOK ==
  /\ world \in World /\ limits \in Limits
  /\ at \in {"next", "descend", "leaf", "rollout", "done"}
  /\ Root \in nodes /\ nodes \subseteq State /\ disproof \subseteq nodes /\ expanded \subseteq nodes
  /\ edges \in [State -> SUBSET nodes]
  /\ path \in Seq(nodes) /\ path # <<>>
  /\ rounds \in Nat
  /\ solved \in BOOLEAN /\ refuted \in BOOLEAN

Current == path[Len(path)]
Closed(s) == s \in world.closed

\* The states that lines of tactics lead to, s included.
LeadsInto(S) == \A s \in S : world.steps[s] \subseteq S
From(s) == {t \in State : \A S \in SUBSET State : s \in S /\ LeadsInto(S) => t \in S}
Provable(s) == From(s) \cap world.closed # {}

Init ==
  /\ world \in World /\ limits \in Limits
  /\ at = "next"
  /\ nodes = {Root} /\ disproof = {} /\ expanded = {}
  /\ edges = [s \in State |-> {}]
  /\ path = <<Root>>
  /\ rounds = IF limits.rounds = 0 THEN 1 ELSE limits.rounds
  /\ solved = Closed(Root) /\ refuted = FALSE
----------------------------------------------------------------------------
Iterate ==
  /\ at = "next"
  /\ IF solved \/ refuted \/ rounds = 0
     THEN at' = "done" /\ UNCHANGED <<path, rounds>>
     ELSE at' = "descend" /\ path' = <<Root>> /\ rounds' = rounds - 1
  /\ UNCHANGED <<world, limits, nodes, disproof, edges, expanded, solved, refuted>>

Inner == ~ Closed(Current) /\ Current \in expanded /\ edges[Current] # {}

\* The selection goes down one edge; a state that is on the path already ends it.
Descend ==
  /\ at = "descend" /\ Inner /\ Len(path) <= limits.depth
  /\ \E s \in edges[Current] :
       IF s \in ToSet(path) THEN at' = "leaf" /\ UNCHANGED path
                            ELSE path' = Append(path, s) /\ UNCHANGED at
  /\ UNCHANGED <<world, limits, nodes, disproof, edges, expanded, rounds, solved, refuted>>

Arrive ==
  /\ at = "descend" /\ ~ (Inner /\ Len(path) <= limits.depth)
  /\ at' = "leaf"
  /\ UNCHANGED <<world, limits, nodes, disproof, edges, expanded, path, rounds, solved, refuted>>

\* A closed end: a proof, or a disproof.
Judge ==
  IF Current \in disproof THEN refuted' = TRUE /\ UNCHANGED solved
                          ELSE solved' = TRUE /\ UNCHANGED refuted

LeafClosed ==
  /\ at = "leaf" /\ Closed(Current)
  /\ at' = "next" /\ Judge
  /\ UNCHANGED <<world, limits, nodes, disproof, edges, expanded, path, rounds>>

LeafKnown ==
  /\ at = "leaf" /\ ~ Closed(Current) /\ Current \in expanded
  /\ at' = "rollout"
  /\ UNCHANGED <<world, limits, nodes, disproof, edges, expanded, path, rounds, solved, refuted>>

\* The first candidates, so many as the width allows.
Candidates(s) ==
  {T \in SUBSET world.steps[s] :
     \/ Cardinality(T) = limits.width
     \/ Cardinality(T) < limits.width /\ T = world.steps[s]}

\* The new ones among T that get a node: all of them, or what the cap leaves.
Mintable(T) ==
  {M \in SUBSET (T \ nodes) :
     \/ M = T \ nodes /\ Cardinality(nodes) + Cardinality(M) <= limits.nodes
     \/ M # T \ nodes /\ Cardinality(nodes) + Cardinality(M) = limits.nodes
     \/ M = {} /\ Cardinality(nodes) >= limits.nodes}

\* Mutant of Below: only the negation itself is flagged.
BelowNone(s, T) == {}
\* The steps of a state on the disproof side are flagged, new or known.
Below(s, T) == IF s \in disproof THEN T ELSE {}

\* The negation of a state on the proof side, if it has one and it has a node
\* or there is room for one.
Negations(s, known) ==
  {n \in {world.negation[s]} \ {None} :
     s \notin disproof /\ (n \in known \/ Cardinality(known) < limits.nodes)}

Expand ==
  LET s == Current IN
  /\ at = "leaf" /\ ~ Closed(s) /\ s \notin expanded
  /\ \E T \in Candidates(s) : \E M \in Mintable(T) :
       LET known == nodes \cup M
           found == T \cap known
           denials == Negations(s, known)
       IN  /\ nodes' = known \cup denials
           /\ disproof' = disproof \cup Below(s, found) \cup denials
           /\ edges' = [edges EXCEPT ![s] = found \cup denials]
  /\ expanded' = expanded \cup {s}
  /\ at' = "rollout"
  /\ UNCHANGED <<world, limits, path, rounds, solved, refuted>>

\* The rollout closes, if a line of tactics does, or gives up.
Rollout ==
  /\ at = "rollout"
  /\ at' = "next"
  /\ \/ Provable(Current) /\ Judge
     \/ UNCHANGED <<solved, refuted>>
  /\ UNCHANGED <<world, limits, nodes, disproof, edges, expanded, path, rounds>>

Next == Iterate \/ Descend \/ Arrive \/ LeafClosed \/ LeafKnown \/ Expand \/ Rollout

Spec == Init /\ [][Next]_vars
----------------------------------------------------------------------------
(* Properties.                                                             *)

\* A goal is called solved only if a line of tactics closes it, and refuted
\* only if one closes the negation of a state the tactics lead to from it,
\* however proof and disproof side share nodes; and never both.
VerdictHasLine ==
  /\ solved => Provable(Root)
  /\ refuted => \E s \in From(Root) :
                  world.negation[s] # None /\ Provable(world.negation[s])
  /\ ~ (solved /\ refuted)

\* The tactics never close a state and its negation.
Consistent ==
  \A s \in State : world.negation[s] # None =>
    ~ (Provable(s) /\ Provable(world.negation[s]))

\* What the documentation of DriverResult says: a refuted goal is false, so no
\* line of tactics closes it.
RefutedIsFalse == Consistent /\ refuted => ~ Provable(Root)

=============================================================================
