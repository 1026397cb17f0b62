------------------------------ MODULE BestFirst ------------------------------
(***************************************************************************)
(* Best-first proof search (reason/search/best_first.rs) and the shrinking *)
(* of the proof it finds (reason/search/minimize.rs).                      *)
(*                                                                         *)
(* A world says what each tactic makes of each proof state, which states   *)
(* are closed, and which states the search cannot tell apart (dedup_key).  *)
(* The frontier is popped in any order: scores come from a policy, hints   *)
(* and a trained critic, of which nothing is known.                        *)
(***************************************************************************)
EXTENDS Integers, Sequences, SequencesExt, FiniteSets

CONSTANTS
  GoalState, Tactic,
  Key,        \* what the search knows a state by
  Target,     \* the state to be proved
  Failed,     \* the result of a tactic that the prover rejects
  Tree,       \* the worlds: [step, closed, key]
  MaxSteps    \* the values of max_steps

ASSUME BestFirstAssumption ==
  /\ Target \in GoalState /\ Failed \notin GoalState
  /\ IsFiniteSet(Tactic)
  /\ Tree \subseteq [step : [GoalState \X Tactic -> GoalState \cup {Failed}],
                    closed : SUBSET GoalState, key : [GoalState -> Key]]
  /\ MaxSteps \subseteq Nat

VARIABLES
  tree, max_steps,   \* chosen at the start
  phase,             \* "search", "solved", "gave_up" (budget), "exhausted", "shrunk"
  arena,             \* every node found: its state, its parent, the tactic between
  heap,              \* the frontier: indices of the arena
  visited,           \* keys of the states expanded
  scored,            \* steps: how many expansions there were
  order,             \* keys in the order they were popped
  solved_node,       \* the closed node, or 0
  kept               \* the proof to emit, once it has been shrunk

bestVars ==
  <<tree, max_steps, phase, arena, heap, visited, scored, order, solved_node, kept>>

Found == [state : GoalState, parent : Nat, tactic : Tactic \cup {Failed}]
Phase == {"search", "solved", "gave_up", "exhausted", "shrunk"}

SearchTypeOK ==
  /\ tree \in Tree /\ max_steps \in MaxSteps
  /\ phase \in Phase
  /\ arena \in Seq(Found)
  /\ heap \subseteq DOMAIN arena
  /\ visited \subseteq Key
  /\ scored \in 0 .. max_steps
  /\ order \in Seq(Key)
  /\ solved_node \in Nat
  /\ kept \in Seq(Tactic)

KeyAt(i) == tree.key[arena[i].state]

BestInit ==
  /\ tree \in Tree /\ max_steps \in MaxSteps
  /\ phase = "search"
  /\ arena = <<[state |-> Target, parent |-> 0, tactic |-> Failed]>>
  /\ heap = {1}
  /\ visited = {}
  /\ scored = 0
  /\ order = <<>>
  /\ solved_node = 0
  /\ kept = <<>>
----------------------------------------------------------------------------
(* The search loop, by what it does with the node it pops.                 *)

\* The transposition guard.
Known(i) == KeyAt(i) \in visited

PopKnown(i) ==
  /\ Known(i)
  /\ heap' = heap \ {i}
  /\ UNCHANGED <<phase, arena, visited, scored, order, solved_node>>

\* A closed state is a proof, also when the budget is spent.
Solve(i) ==
  /\ ~ Known(i) /\ arena[i].state \in tree.closed
  /\ phase' = "solved" /\ solved_node' = i
  /\ heap' = heap \ {i} /\ order' = Append(order, KeyAt(i))
  /\ UNCHANGED <<arena, visited, scored>>

Spent == scored >= max_steps

GiveUp(i) ==
  /\ ~ Known(i) /\ arena[i].state \notin tree.closed /\ Spent
  /\ phase' = "gave_up"
  /\ heap' = heap \ {i} /\ order' = Append(order, KeyAt(i))
  /\ UNCHANGED <<arena, visited, scored, solved_node>>

\* What the scorer makes of a state: the tactics that the prover accepts.
Live(s) == {t \in Tactic : tree.step[<<s, t>>] # Failed}
ChildrenOf(i) ==
  LET live == SetToSeq(Live(arena[i].state))
  IN  [n \in DOMAIN live |-> [state |-> tree.step[<<arena[i].state, live[n]>>],
                              parent |-> i, tactic |-> live[n]]]

\* Mutant of Visits: a state counts as expanded once it has been found.
VisitsChildren(i) ==
  {KeyAt(i)} \cup {tree.key[tree.step[<<arena[i].state, t>>]] : t \in Live(arena[i].state)}
\* The keys an expansion is charged to: that of the node alone.
Visits(i) == {KeyAt(i)}

ExpandNode(i) ==
  /\ ~ Known(i) /\ arena[i].state \notin tree.closed /\ ~ Spent
  /\ visited' = visited \cup Visits(i)
  /\ order' = Append(order, KeyAt(i))
  /\ scored' = scored + 1
  /\ arena' = arena \o ChildrenOf(i)
  /\ heap' = (heap \ {i}) \cup (Len(arena) + 1 .. Len(arena'))
  /\ UNCHANGED <<phase, solved_node>>

Exhaust ==
  /\ heap = {}
  /\ phase' = "exhausted"
  /\ UNCHANGED <<arena, heap, visited, scored, order, solved_node>>

Search ==
  /\ phase = "search"
  /\ (\E i \in heap : PopKnown(i) \/ Solve(i) \/ GiveUp(i) \/ ExpandNode(i)) \/ Exhaust
  /\ UNCHANGED <<tree, max_steps, kept>>
----------------------------------------------------------------------------
(* The proof and its shrinking.                                            *)

\* path_nodes: the line of parents from the root to i.
PathTo[i \in 0 .. Len(arena)] ==
  IF i = 0 THEN <<>> ELSE Append(PathTo[arena[i].parent], i)

\* proof_tactics.
ProofTactics ==
  [n \in 1 .. Len(PathTo[solved_node]) - 1 |-> arena[PathTo[solved_node][n + 1]].tactic]

\* proof_graph: the arena with nodes of one key made one.
Merged ==
  {<<KeyAt(arena[i].parent), arena[i].tactic, KeyAt(i)>> :
     i \in {j \in DOMAIN arena : arena[j].parent # 0}}
MergedClosed == {KeyAt(i) : i \in {j \in DOMAIN arena : arena[j].state \in tree.closed}}

\* The keys that a line of tactics leads to in the merged graph.
KeysAfter(line) ==
  LET after[n \in 0 .. Len(line)] ==
        IF n = 0 THEN {KeyAt(1)}
        ELSE {e[3] : e \in {m \in Merged : m[1] \in after[n - 1] /\ m[2] = line[n]}}
  IN  after[Len(line)]
Closes(line) == KeysAfter(line) \cap MergedClosed # {}

Lines(n) == [1 .. n -> Tactic]

\* minimal_proof: breadth first, so a shortest closing line; which of them
\* depends on the order of insertion.
Shortest ==
  LET n == CHOOSE n \in 0 .. Len(ProofTactics) :
             /\ \E line \in Lines(n) : Closes(line)
             /\ \A m \in 0 .. n - 1 : \A line \in Lines(m) : ~ Closes(line)
  IN  {line \in Lines(n) : Closes(line)}

\* What the prover makes of a line of tactics from the root.
StateAfter(line) ==
  LET after[n \in 0 .. Len(line)] ==
        IF n = 0 THEN Target
        ELSE IF after[n - 1] = Failed THEN Failed
        ELSE tree.step[<<after[n - 1], line[n]>>]
  IN  after[Len(line)]
Replays(line) == StateAfter(line) \in tree.closed

\* Mutant of GateSays: the shrunk line is taken as the search's own.
GateSaysYes(line) == {TRUE}
\* The caller's gate accepts only what replays; it may also fail to answer.
GateSays(line) == {Replays(line), FALSE}

\* minimize_proof_checked, then best_safe.
Shrink ==
  /\ phase = "solved"
  /\ \E line \in Shortest : \E yes \in GateSays(line) :
       kept' = IF yes THEN line ELSE ProofTactics
  /\ phase' = "shrunk"
  /\ UNCHANGED <<tree, max_steps, arena, heap, visited, scored, order, solved_node>>

BestNext == Search \/ Shrink

BestSpec == BestInit /\ [][BestNext]_bestVars
----------------------------------------------------------------------------
(* Properties.                                                             *)

\* What is emitted proves the goal, also when the graph it was read from made
\* one node of two states, and it is no longer than what the search found.
KeptIsAProof ==
  phase = "shrunk" => Replays(kept) /\ Len(kept) <= Len(ProofTactics)

\* The smallest set with the root that the tactics do not leave.
Within(S) == Target \in S /\ \A s \in S : \A t \in Live(s) : tree.step[<<s, t>>] \in S

\* A search that ran out of states, not of budget, was right to: no closed
\* state can be reached, provided the key tells all states apart.
ExhaustedIsRight ==
  phase = "exhausted" /\ IsInjective(tree.key) =>
    \E S \in SUBSET GoalState : Within(S) /\ S \cap tree.closed = {}

=============================================================================
