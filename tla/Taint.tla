------------------------------- MODULE Taint -------------------------------
(***************************************************************************)
(* The pure graph operators of components/reason/critique/taint.rs and the *)
(* value sets of components/graph/model.rs.  An edge is a record           *)
(* [source, target, kind]; "source depends on target".                     *)
(*                                                                         *)
(* Reachability is written with closed sets instead of recursion: the set  *)
(* that a worklist loop computes is the least set that contains the seeds  *)
(* and is closed under the edges, i.e. the intersection of all closed sets.*)
(***************************************************************************)

NodeStatus == {"proposed", "active", "blocked", "rejected",
               "informally_verified", "formally_verified", "superseded"}

TaintValue == {"clean", "tainted", "self_admitted"}

EdgeKind == {"depends_on", "supports", "contradicts", "formalizes",
             "verifies", "derived_from", "supersedes"}

\* A node with one of these statuses is a source of taint.
BadStatus == {"rejected", "blocked"}

VerifiedStatus == {"informally_verified", "formally_verified"}

Edge(nodes, kinds) == [source : nodes, target : nodes, kind : kinds]

\* taint.rs carries_taint: taint flows from the target up to the source.
CarriesTaint(kind) == kind \in {"depends_on", "derived_from", "formalizes"}

TaintEdges(edges) == {e \in edges : CarriesTaint(e.kind)}

----------------------------------------------------------------------------
\* S is closed upwards: it contains every source of an edge into it.
ClosedUp(S, edges) == \A e \in edges : e.target \in S => e.source \in S

\* S is closed downwards: it contains every target of an edge out of it.
ClosedDown(S, edges) == \A e \in edges : e.source \in S => e.target \in S

\* The nodes that reach a seed through the edges, the seeds included.
Dependents(nodes, edges, seeds) ==
  {n \in nodes : \A S \in SUBSET nodes :
                    seeds \subseteq S /\ ClosedUp(S, edges) => n \in S}

\* The nodes that a root reaches through the edges, the root included.
Closure(nodes, edges, root) ==
  {n \in nodes : \A S \in SUBSET nodes :
                    root \in S /\ ClosedDown(S, edges) => n \in S}

\* Mutant of HasCycle: looks at the depends_on edges only.
HasDependsOnCycle(nodes, edges) ==
  \E S \in SUBSET nodes :
     /\ S # {}
     /\ \A n \in S : \E e \in edges :
           e.kind = "depends_on" /\ e.source = n /\ e.target \in S

\* db.rs has_cycle: some set of nodes in which every node has a successor.
HasCycle(nodes, edges) ==
  \E S \in SUBSET nodes :
     /\ S # {}
     /\ \A n \in S : \E e \in edges : e.source = n /\ e.target \in S

----------------------------------------------------------------------------
SelfAdmitted(nodes, taint) == {n \in nodes : taint[n] = "self_admitted"}

Seeds(nodes, status, taint) ==
  {n \in nodes : status[n] \in BadStatus} \cup SelfAdmitted(nodes, taint)

Poisoned(nodes, edges, status, taint) ==
  Dependents(nodes, TaintEdges(edges), Seeds(nodes, status, taint))

\* Mutant of Propagate: the taint that reaches an admitted gap hides its mark.
PropagateOverAdmitted(nodes, edges, status, taint) ==
  LET poisoned == Poisoned(nodes, edges, status, taint)
      reached == {e.source : e \in {d \in TaintEdges(edges) : d.target \in poisoned}}
  IN  [n \in nodes |-> IF n \in reached THEN "tainted"
                       ELSE IF taint[n] = "self_admitted" THEN "self_admitted"
                       ELSE IF n \in poisoned THEN "tainted"
                       ELSE "clean"]

(***************************************************************************)
(* taint.rs propagate: the label of every node of the project.  A stored   *)
(* "self_admitted" survives, a stored "tainted" does not.                  *)
(***************************************************************************)
Propagate(nodes, edges, status, taint) ==
  LET poisoned == Poisoned(nodes, edges, status, taint)
  IN  [n \in nodes |-> IF taint[n] = "self_admitted" THEN "self_admitted"
                       ELSE IF n \in poisoned THEN "tainted"
                       ELSE "clean"]
============================================================================
