----------------------------- MODULE ProofGraph -----------------------------
(***************************************************************************)
(* The proof DAG of one project as components/graph/db.rs keeps it in      *)
(* SQLite: nodes with a status and a three-valued taint, typed edges that  *)
(* are never allowed to close a cycle, and the lemmas extracted from it.   *)
(*                                                                         *)
(* One action is one call of a Store method that commits.  A call that     *)
(* returns Err rolls back or writes nothing, so it is a stuttering step.   *)
(* add_edge_scoped, merge_nodes and set_node_status run in a transaction   *)
(* and are atomic whatever other connections do.  add_node writes nothing  *)
(* another action reads before its last statement.  set_taint and          *)
(* extract_lemma are sequences of autocommitted statements: here they run  *)
(* alone, in StoreRaces they interleave with other connections.            *)
(***************************************************************************)
EXTENDS Taint, Naturals, FiniteSets

CONSTANTS
  Node,         \* the node ids that can be drawn (a uuid per add_node)
  Assumption,   \* the ids whose node is created with kind Assumption
  Kind,         \* the edge kinds in use, a subset of EdgeKind
  Status,       \* the statuses callers ask for, a subset of NodeStatus
  MaxLemmas     \* bound on the number of extracted lemmas

ASSUME GraphAssumption ==
  /\ Assumption \subseteq Node
  /\ Kind \subseteq EdgeKind
  /\ Status \subseteq NodeStatus
  /\ MaxLemmas \in Nat

VARIABLES
  nodes,    \* ids of the rows of table nodes
  status,   \* their status column
  taint,    \* their taint column (the tainted column is taint # "clean")
  edges,    \* the rows of table edges
  lemmas    \* the rows of table lemmas: [root, taint]

vars == <<nodes, status, taint, edges, lemmas>>

TypeOK ==
  /\ nodes \subseteq Node
  /\ status \in [Node -> NodeStatus]
  /\ taint \in [Node -> TaintValue]
  /\ edges \subseteq Edge(nodes, EdgeKind)
  /\ lemmas \subseteq [root : nodes, taint : BOOLEAN]

\* A project without nodes.  The columns of an id not drawn yet hold the
\* values add_node_detailed inserts.
Init ==
  /\ nodes = {}
  /\ status = [n \in Node |-> "proposed"]
  /\ taint = [n \in Node |-> "clean"]
  /\ edges = {}
  /\ lemmas = {}

----------------------------------------------------------------------------
\* The taint column after recompute_taint ran on these tables.
Recomputed(ns, es, st, tt) ==
  LET label == Propagate(ns, es, st, tt)
  IN  [n \in Node |-> IF n \in ns THEN label[n] ELSE tt[n]]

AddNode(n) ==
  /\ n \notin nodes
  /\ nodes' = nodes \cup {n}
  /\ UNCHANGED <<status, taint, edges, lemmas>>

\* Mutant of Insertable: no foreign keys.
InsertableDangling(e) ==
  e.source # e.target /\ e \notin edges /\ ~ HasCycle(nodes, edges \cup {e})

\* The row passes the self-edge test, the foreign keys, the uniqueness
\* constraint and the cycle check (which deletes the row and fails the call).
Insertable(e) ==
  /\ e.source # e.target
  /\ {e.source, e.target} \subseteq nodes
  /\ e \notin edges
  /\ ~ HasCycle(nodes, edges \cup {e})

\* Mutant of AddEdge: the taint is not recomputed.
AddEdgeOnly(e) ==
  /\ Insertable(e)
  /\ edges' = edges \cup {e}
  /\ UNCHANGED <<nodes, status, taint, lemmas>>

\* add_edge_scoped: insert the row, recompute the taint of the project.
AddEdge(e) ==
  /\ Insertable(e)
  /\ edges' = edges \cup {e}
  /\ taint' = Recomputed(nodes, edges', status, taint)
  /\ UNCHANGED <<nodes, status, lemmas>>

\* Mutant of MergeNodes: the taint is recomputed before the edges are there.
MergeNodesTaintFirst(n, parents) ==
  LET new == {[source |-> n, target |-> p, kind |-> "depends_on"] : p \in parents}
  IN  /\ n \notin nodes /\ parents \subseteq nodes /\ parents # {}
      /\ nodes' = nodes \cup {n}
      /\ edges' = edges \cup new
      /\ taint' = Recomputed(nodes', edges, status, taint)
      /\ UNCHANGED <<status, lemmas>>

\* merge_nodes: a fresh node that depends on every parent, or nothing.
MergeNodes(n, parents) ==
  LET new == {[source |-> n, target |-> p, kind |-> "depends_on"] : p \in parents}
  IN  /\ n \notin nodes
      /\ parents \subseteq nodes
      /\ parents # {}
      /\ nodes' = nodes \cup {n}
      /\ edges' = edges \cup new
      /\ ~ HasCycle(nodes', edges')
      /\ taint' = Recomputed(nodes', edges', status, taint)
      /\ UNCHANGED <<status, lemmas>>

\* Mutant of SetNodeStatus: the label of the node itself, not its dependents'.
SetNodeStatusAlone(n, st) ==
  /\ n \in nodes
  /\ status' = [status EXCEPT ![n] = st]
  /\ taint' = IF st \in BadStatus THEN [taint EXCEPT ![n] = "tainted"] ELSE taint
  /\ UNCHANGED <<nodes, edges, lemmas>>

\* set_node_status: the taint is recomputed only for a new bad status.
SetNodeStatus(n, st) ==
  /\ n \in nodes
  /\ status' = [status EXCEPT ![n] = st]
  /\ taint' = IF st \in BadStatus
              THEN Recomputed(nodes, edges, status', taint)
              ELSE taint
  /\ UNCHANGED <<nodes, edges, lemmas>>

\* set_taint: write the label, then recompute_taint over the whole project.
SetTaint(n, t) ==
  /\ n \in nodes
  /\ taint' = Recomputed(nodes, edges, status, [taint EXCEPT ![n] = t])
  /\ UNCHANGED <<nodes, status, edges, lemmas>>

\* The extraction set of extract_lemma: the root and what it depends on.
DependencyClosure(root) ==
  Closure(nodes, {e \in edges : e.kind = "depends_on"}, root)

Extractable(set) == \A n \in set \ Assumption : status[n] \in VerifiedStatus

\* Mutant of LemmaTaint: forgets that an admitted node is not clean either.
LemmaTaintedOnly(set) == \E n \in set : taint[n] = "tainted"

\* The lemma is tainted when any node of the extraction set is.
LemmaTaint(set) == \E n \in set : taint[n] # "clean"

ExtractLemma(root) ==
  LET set == DependencyClosure(root)
  IN  /\ root \in nodes
      /\ Cardinality(lemmas) < MaxLemmas
      /\ Extractable(set)
      /\ lemmas' = lemmas \cup {[root |-> root, taint |-> LemmaTaint(set)]}
      /\ UNCHANGED <<nodes, status, taint, edges>>

Next ==
  \/ \E n \in Node : AddNode(n)
  \/ \E e \in Edge(Node, Kind) : AddEdge(e)
  \/ \E n \in Node, parents \in SUBSET Node : MergeNodes(n, parents)
  \/ \E n \in Node, st \in Status : SetNodeStatus(n, st)
  \/ \E n \in Node, t \in TaintValue : SetTaint(n, t)
  \/ \E n \in Node : ExtractLemma(n)

Spec == Init /\ [][Next]_vars

----------------------------------------------------------------------------
(* Properties *)

\* No chain of edges of any kind leads from a node back to itself: whatever
\* sequence of add_edge and merge_nodes calls ran (db.rs:651-668).  Stated on
\* the closure that extract_lemma and the scheduler walk, not on has_cycle.
Acyclic ==
  \A e \in edges : e.source \notin Closure(nodes, edges, e.target)

\* Taint is never missing: a node that is rejected, blocked, or leans on a
\* node that is not clean, is not clean itself (db.rs:1533-1545, taint.rs:44-88).
\* It must survive every order of status changes, edges and merges.
TaintSound ==
  /\ \A n \in nodes : status[n] \in BadStatus => taint[n] # "clean"
  /\ \A e \in TaintEdges(edges) : taint[e.target] # "clean" => taint[e.source] # "clean"

\* The labels are exactly what propagate would compute from the tables now.
TaintExact == taint = Recomputed(nodes, edges, status, taint)

\* Exact labels become inexact in one way only: a status leaves rejected or
\* blocked, which set_node_status does not follow by recompute_taint.
ExactLostOnlyByRevival ==
  [][TaintExact /\ ~ TaintExact' =>
       \E n \in nodes : status[n] \in BadStatus /\ status'[n] \notin BadStatus]_vars

\* A self-admitted gap keeps its mark, whatever happens around it, until
\* set_taint is called on that node again (db.rs:1549-1550, "sticky").
AdmittedIsSticky ==
  [][\A n \in nodes : taint[n] = "self_admitted" =>
        taint'[n] = "self_admitted" \/ \E t \in TaintValue : SetTaint(n, t)]_vars

\* A lemma extracted as untainted rests on nothing rejected, blocked or
\* admitted, along any chain of taint-carrying edges, even where the chain
\* leaves the depends_on closure that extract_lemma looks at.
CleanLemmaHasCleanBasis ==
  [][\A l \in lemmas' \ lemmas : ~ l.taint =>
        \A n \in Closure(nodes, TaintEdges(edges), l.root) :
           status[n] \notin BadStatus /\ taint[n] # "self_admitted"]_vars
============================================================================
