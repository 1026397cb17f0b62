-------------------------- MODULE ProofGraphProofs --------------------------
(***************************************************************************)
(* Invariance proofs for ProofGraph, for every set of node ids, edge kinds *)
(* and statuses.                                                           *)
(***************************************************************************)
EXTENDS ProofGraph, TLAPS

----------------------------------------------------------------------------
\* Lemmas about the operators of Taint: what the closed-set formulation of the
\* worklist loops contains, and why a graph without a cyclic set has no node
\* that reaches itself.

\* The dependents of a set of seeds include the seeds and are closed.
LEMMA DependentsClosed ==
  ASSUME NEW ns, NEW kinds, NEW es \in SUBSET Edge(ns, kinds),
         NEW seeds \in SUBSET ns
  PROVE  /\ Dependents(ns, es, seeds) \subseteq ns
         /\ seeds \subseteq Dependents(ns, es, seeds)
         /\ ClosedUp(Dependents(ns, es, seeds), es)
<1>1. \A e \in es : e.source \in ns /\ e.target \in ns
  BY DEF Edge
<1>2. QED
  BY <1>1 DEF Dependents, ClosedUp

\* The closure of a root contains it and is closed downwards.
LEMMA ClosureClosed ==
  ASSUME NEW ns, NEW kinds, NEW es \in SUBSET Edge(ns, kinds),
         NEW root \in ns
  PROVE  /\ Closure(ns, es, root) \subseteq ns
         /\ root \in Closure(ns, es, root)
         /\ ClosedDown(Closure(ns, es, root), es)
<1>1. \A e \in es : e.source \in ns /\ e.target \in ns
  BY DEF Edge
<1>2. QED
  BY <1>1 DEF Closure, ClosedDown

\* What is reached from x, other than x, is reached from a successor of x.
LEMMA ClosureStep ==
  ASSUME NEW ns, NEW kinds, NEW es \in SUBSET Edge(ns, kinds),
         NEW x \in ns, NEW y \in Closure(ns, es, x), y # x
  PROVE  \E e \in es : e.source = x /\ y \in Closure(ns, es, e.target)
<1> DEFINE T == {x} \cup {z \in ns : \E e \in es :
                            e.source = x /\ z \in Closure(ns, es, e.target)}
<1>1. \A e \in es : e.source \in ns /\ e.target \in ns
  BY DEF Edge
<1>2. T \subseteq ns
  OBVIOUS
<1>3. ClosedDown(T, es)
  <2> SUFFICES ASSUME NEW f \in es, f.source \in T
               PROVE  f.target \in T
    BY DEF ClosedDown
  <2>1. CASE f.source = x
    BY <1>1, <2>1, ClosureClosed
  <2>2. CASE f.source # x
    <3>1. PICK e \in es : e.source = x /\ f.source \in Closure(ns, es, e.target)
      BY <2>2
    <3>2. f.target \in Closure(ns, es, e.target)
      BY <3>1, <1>1, ClosureClosed DEF ClosedDown
    <3>3. QED
      BY <3>1, <3>2, <1>1
  <2>3. QED
    BY <2>1, <2>2
<1>4. y \in T
  BY <1>2, <1>3 DEF Closure
<1>5. QED
  BY <1>4

\* A graph in which no set of nodes is cyclic has no node that reaches itself.
LEMMA NoCycleNoLoop ==
  ASSUME NEW ns, NEW kinds, NEW es \in SUBSET Edge(ns, kinds),
         ~ HasCycle(ns, es),
         NEW e \in es
  PROVE  e.source \notin Closure(ns, es, e.target)
<1> SUFFICES ASSUME e.source \in Closure(ns, es, e.target)
             PROVE  FALSE
  OBVIOUS
<1> DEFINE S == {x \in Closure(ns, es, e.target) :
                    e.source \in Closure(ns, es, x)}
<1>1. \A f \in es : f.source \in ns /\ f.target \in ns
  BY DEF Edge
<1>2. S \subseteq ns /\ e.target \in S
  BY <1>1, ClosureClosed
<1>3. ASSUME NEW x \in S
      PROVE  \E f \in es : f.source = x /\ f.target \in S
  <2>1. CASE x = e.source
    BY <2>1, <1>2
  <2>2. CASE x # e.source
    <3>1. PICK f \in es : /\ f.source = x
                             /\ e.source \in Closure(ns, es, f.target)
      BY <2>2, <1>2, ClosureStep
    <3>2. f.target \in Closure(ns, es, e.target)
      BY <3>1, <1>1, ClosureClosed DEF ClosedDown
    <3>3. QED
      BY <3>1, <3>2
  <2>3. QED
    BY <2>1, <2>2
<1>4. HasCycle(ns, es)
  BY <1>2, <1>3 DEF HasCycle
<1>5. QED
  BY <1>4
----------------------------------------------------------------------------

\* An id not drawn yet has the column values its row will be inserted with.
FreshIds ==
  \A n \in Node \ nodes : status[n] = "proposed" /\ taint[n] = "clean"

NoCycle == ~ HasCycle(nodes, edges)

\* The inductive invariant: Acyclic needs NoCycle, which is what the guard of
\* the edge inserting calls speaks of; TaintSound needs FreshIds for AddNode.
IInv == TypeOK /\ FreshIds /\ NoCycle /\ TaintSound

\* Of it, what does not speak of the labels of rows.
Tables == TypeOK /\ FreshIds /\ NoCycle

----------------------------------------------------------------------------
\* recompute_taint leaves typed labels that satisfy TaintSound, whatever the
\* labels were before, and touches no id without a row.
Labelled(ns, es, st, tt, new) ==
  /\ new \in [Node -> TaintValue]
  /\ \A n \in Node \ ns : new[n] = tt[n]
  /\ \A n \in ns : st[n] \in BadStatus => new[n] # "clean"
  /\ \A e \in TaintEdges(es) : new[e.target] # "clean" => new[e.source] # "clean"

\* That is what recompute_taint returns.
LEMMA RecomputedSound ==
  ASSUME NEW ns \in SUBSET Node, NEW es \in SUBSET Edge(ns, EdgeKind),
         NEW st \in [Node -> NodeStatus], NEW tt \in [Node -> TaintValue]
  PROVE  Labelled(ns, es, st, tt, Recomputed(ns, es, st, tt))
<1> DEFINE new == Recomputed(ns, es, st, tt)
           seeds == Seeds(ns, st, tt)
           P == Poisoned(ns, es, st, tt)
<1>1. /\ seeds \subseteq ns
      /\ \A n \in ns : st[n] \in BadStatus => n \in seeds
      /\ \A n \in ns : tt[n] = "self_admitted" => n \in seeds
  BY DEF Seeds, SelfAdmitted
<1>2. TaintEdges(es) \in SUBSET Edge(ns, EdgeKind)
  BY DEF TaintEdges
<1>3. P \subseteq ns /\ seeds \subseteq P /\ ClosedUp(P, TaintEdges(es))
  BY <1>1, <1>2, DependentsClosed DEF Poisoned
<1>4. \A n \in ns : new[n] = IF tt[n] = "self_admitted" THEN "self_admitted"
                             ELSE IF n \in P THEN "tainted" ELSE "clean"
  BY DEF Recomputed, Propagate
<1>5. new \in [Node -> TaintValue] /\ \A n \in Node \ ns : new[n] = tt[n]
  BY DEF Recomputed, Propagate, TaintValue
<1>6. \A n \in ns : new[n] # "clean" <=> n \in P
  BY <1>1, <1>3, <1>4
<1>7. \A n \in ns : st[n] \in BadStatus => new[n] # "clean"
  BY <1>1, <1>3, <1>6
<1>8. \A e \in TaintEdges(es) : new[e.target] # "clean" => new[e.source] # "clean"
  BY <1>2, <1>3, <1>6 DEF ClosedUp, Edge
<1>9. QED
  BY <1>5, <1>7, <1>8 DEF Labelled

\* A node without edges does not close a cycle.
LEMMA FreshNodeNoCycle ==
  ASSUME NEW ns, NEW n, NEW es \in SUBSET Edge(ns, EdgeKind),
         ~ HasCycle(ns, es)
  PROVE  ~ HasCycle(ns \cup {n}, es)
<1> SUFFICES ASSUME NEW S \in SUBSET (ns \cup {n}), S # {},
                    \A x \in S : \E e \in es : e.source = x /\ e.target \in S
             PROVE  FALSE
  BY DEF HasCycle
<1>1. S \subseteq ns
  BY DEF Edge
<1>2. QED
  BY <1>1 DEF HasCycle

----------------------------------------------------------------------------
\* The initial state satisfies the invariant.
LEMMA InitIInv == Init => IInv
<1> SUFFICES ASSUME Init PROVE IInv
  OBVIOUS
<1>1. TypeOK /\ FreshIds
  BY DEF Init, TypeOK, FreshIds, NodeStatus, TaintValue, Edge
<1>2. NoCycle
  BY DEF Init, NoCycle, HasCycle
<1>3. TaintSound
  BY DEF Init, TaintSound, TaintEdges
<1>4. QED
  BY <1>1, <1>2, <1>3 DEF IInv

\* What the tables hold.
LEMMA TablesTyped ==
  ASSUME Tables
  PROVE  /\ nodes \in SUBSET Node /\ edges \in SUBSET Edge(nodes, EdgeKind)
         /\ status \in [Node -> NodeStatus] /\ taint \in [Node -> TaintValue]
         /\ \A e \in edges : e.source \in nodes /\ e.target \in nodes
BY DEF Tables, TypeOK, Edge

\* The transactional calls, whatever the labels are: they keep the tables in
\* order, and a call that computes the labels again leaves them sound.
LEMMA AddNodeKeeps ==
  ASSUME Tables, NEW n \in Node, AddNode(n)
  PROVE  Tables' /\ (TaintSound => TaintSound')
<1>1. TypeOK' /\ FreshIds'
  BY DEF Tables, AddNode, TypeOK, FreshIds, Edge
<1>2. NoCycle'
  BY TablesTyped, FreshNodeNoCycle DEF Tables, AddNode, NoCycle
<1>3. TaintSound => TaintSound'
  BY DEF Tables, AddNode, FreshIds, TaintSound, TypeOK, Edge, TaintEdges, BadStatus
<1>4. QED
  BY <1>1, <1>2, <1>3 DEF Tables

LEMMA AddEdgeKeeps ==
  ASSUME Tables, NEW e \in Edge(Node, Kind), AddEdge(e)
  PROVE  Tables' /\ TaintSound'
<1>1. edges' \in SUBSET Edge(nodes, EdgeKind)
  BY TablesTyped, GraphAssumption DEF AddEdge, Insertable, Edge
<1>2. /\ taint' = Recomputed(nodes, edges', status, taint)
      /\ nodes' = nodes /\ status' = status /\ lemmas' = lemmas
  BY DEF AddEdge
<1>3. Labelled(nodes, edges', status, taint, taint')
  BY TablesTyped, <1>1, <1>2, RecomputedSound
<1>4. TypeOK' /\ FreshIds'
  BY TablesTyped, <1>1, <1>2, <1>3 DEF Tables, Labelled, TypeOK, FreshIds
<1>5. NoCycle'
  BY DEF AddEdge, Insertable, NoCycle
<1>6. TaintSound'
  BY <1>2, <1>3 DEF Labelled, TaintSound
<1>7. QED
  BY <1>4, <1>5, <1>6 DEF Tables

LEMMA MergeNodesKeeps ==
  ASSUME Tables, NEW n \in Node, NEW parents \in SUBSET Node, MergeNodes(n, parents)
  PROVE  Tables' /\ TaintSound'
<1>1. nodes' = nodes \cup {n} /\ nodes' \in SUBSET Node /\ n \notin nodes
  BY TablesTyped DEF MergeNodes
<1>2. edges' \in SUBSET Edge(nodes', EdgeKind)
  BY TablesTyped, <1>1 DEF MergeNodes, Edge, EdgeKind
<1>3. /\ taint' = Recomputed(nodes', edges', status', taint)
      /\ status' = status /\ lemmas' = lemmas
  BY DEF MergeNodes
<1>4. Labelled(nodes', edges', status', taint, taint')
  BY TablesTyped, <1>1, <1>2, <1>3, RecomputedSound
<1>5. TypeOK' /\ FreshIds'
  BY TablesTyped, <1>1, <1>2, <1>3, <1>4 DEF Tables, Labelled, TypeOK, FreshIds
<1>6. NoCycle'
  BY DEF MergeNodes, NoCycle
<1>7. TaintSound'
  BY <1>4 DEF Labelled, TaintSound
<1>8. QED
  BY <1>5, <1>6, <1>7 DEF Tables

LEMMA SetNodeStatusKeeps ==
  ASSUME Tables, NEW n \in Node, NEW st \in Status, SetNodeStatus(n, st)
  PROVE  /\ Tables' /\ (TaintSound \/ st \in BadStatus => TaintSound')
         /\ n \in nodes /\ edges' = edges /\ status' = [status EXCEPT ![n] = st]
<1>1. /\ n \in nodes /\ st \in NodeStatus
      /\ status' = [status EXCEPT ![n] = st]
      /\ nodes' = nodes /\ edges' = edges /\ lemmas' = lemmas
  BY GraphAssumption DEF SetNodeStatus
<1>2. status' \in [Node -> NodeStatus]
  BY TablesTyped, <1>1
<1>3. NoCycle'
  BY <1>1 DEF NoCycle, Tables
<1>4. CASE st \in BadStatus
  <2>1. taint' = Recomputed(nodes, edges, status', taint)
    BY <1>4 DEF SetNodeStatus
  <2>2. Labelled(nodes, edges, status', taint, taint')
    BY TablesTyped, <1>2, <2>1, RecomputedSound
  <2>3. TypeOK' /\ FreshIds'
    BY TablesTyped, <1>1, <1>2, <2>2 DEF Tables, Labelled, TypeOK, FreshIds
  <2>4. TaintSound'
    BY <1>1, <2>2 DEF Labelled, TaintSound
  <2>5. QED
    BY <1>1, <1>3, <2>3, <2>4 DEF Tables
<1>5. CASE st \notin BadStatus
  <2>1. taint' = taint
    BY <1>5 DEF SetNodeStatus
  <2>2. TypeOK' /\ FreshIds'
    BY TablesTyped, <1>1, <1>2, <2>1 DEF Tables, TypeOK, FreshIds
  <2>3. TaintSound => TaintSound'
    BY TablesTyped, <1>1, <1>5, <2>1 DEF TaintSound
  <2>4. QED
    BY <1>1, <1>3, <1>5, <2>2, <2>3 DEF Tables
<1>6. QED
  BY <1>4, <1>5

\* One step per Store method.
LEMMA NextIInv == IInv /\ [Next]_vars => IInv'
<1> SUFFICES ASSUME IInv, [Next]_vars PROVE IInv'
  OBVIOUS
<1> USE GraphAssumption DEF IInv
<1>0. /\ nodes \in SUBSET Node /\ edges \in SUBSET Edge(nodes, EdgeKind)
      /\ status \in [Node -> NodeStatus] /\ taint \in [Node -> TaintValue]
      /\ \A e \in edges : e.source \in nodes /\ e.target \in nodes
  BY DEF TypeOK, Edge
<1>t. Tables /\ TaintSound /\ (Tables' /\ TaintSound' => IInv')
  BY DEF Tables
<1>1. ASSUME NEW n \in Node, AddNode(n) PROVE IInv'
  BY <1>1, <1>t, AddNodeKeeps
<1>2. ASSUME NEW e \in Edge(Node, Kind), AddEdge(e) PROVE IInv'
  BY <1>2, <1>t, AddEdgeKeeps
<1>3. ASSUME NEW n \in Node, NEW parents \in SUBSET Node, MergeNodes(n, parents)
      PROVE  IInv'
  BY <1>3, <1>t, MergeNodesKeeps
<1>4. ASSUME NEW n \in Node, NEW st \in Status, SetNodeStatus(n, st) PROVE IInv'
  BY <1>4, <1>t, SetNodeStatusKeeps
<1>5. ASSUME NEW n \in Node, NEW t \in TaintValue, SetTaint(n, t) PROVE IInv'
  <2>1. /\ taint' = Recomputed(nodes, edges, status, [taint EXCEPT ![n] = t])
        /\ n \in nodes
        /\ nodes' = nodes /\ edges' = edges /\ lemmas' = lemmas /\ status' = status
    BY <1>5 DEF SetTaint
  <2>2. [taint EXCEPT ![n] = t] \in [Node -> TaintValue]
    BY <1>0
  <2>3. Labelled(nodes, edges, status, [taint EXCEPT ![n] = t], taint')
    BY <1>0, <2>1, <2>2, RecomputedSound
  <2>4. TypeOK' /\ FreshIds'
    BY <1>0, <2>1, <2>2, <2>3 DEF Labelled, TypeOK, FreshIds
  <2>5. TaintSound'
    BY <2>1, <2>3 DEF Labelled, TaintSound
  <2>6. QED
    BY <2>1, <2>4, <2>5 DEF NoCycle
<1>6. ASSUME NEW n \in Node, ExtractLemma(n) PROVE IInv'
  <2>1. PICK set : /\ n \in nodes
                   /\ lemmas' = lemmas \cup {[root |-> n, taint |-> LemmaTaint(set)]}
                   /\ UNCHANGED <<nodes, status, taint, edges>>
    BY <1>6 DEF ExtractLemma
  <2>2. LemmaTaint(set) \in BOOLEAN
    BY DEF LemmaTaint
  <2>3. lemmas' \subseteq [root : nodes, taint : BOOLEAN]
    BY <2>1, <2>2 DEF TypeOK
  <2>4. QED
    BY <2>1, <2>3 DEF TypeOK, FreshIds, NoCycle, TaintSound
<1>7. CASE UNCHANGED vars
  BY <1>7 DEF vars, TypeOK, FreshIds, NoCycle, TaintSound
<1>8. QED
  BY <1>1, <1>2, <1>3, <1>4, <1>5, <1>6, <1>7 DEF Next

\* The invariant holds in every reachable state.
LEMMA SpecIInv == Spec => []IInv
<1>1. QED
  BY InitIInv, NextIInv, PTL DEF Spec

\* The tables stay well typed: every edge and every lemma refers to rows.
THEOREM TypeCorrect == Spec => []TypeOK
<1>1. IInv => TypeOK
  BY DEF IInv
<1>2. QED
  BY SpecIInv, <1>1, PTL

\* No sequence of add_edge, merge_nodes and the other calls closes a cycle.
THEOREM GraphAcyclic == Spec => []Acyclic
<1>1. IInv => Acyclic
  BY NoCycleNoLoop DEF IInv, TypeOK, NoCycle, Acyclic
<1>2. QED
  BY SpecIInv, <1>1, PTL

\* No sequence of calls leaves a rejected or blocked node, or a node that
\* leans on an unclean one, with a clean label.
THEOREM TaintNeverMissing == Spec => []TaintSound
<1>1. IInv => TaintSound
  BY DEF IInv
<1>2. QED
  BY SpecIInv, <1>1, PTL

----------------------------------------------------------------------------
(* Action properties *)

\* recompute_taint keeps every admitted gap of the project.
LEMMA RecomputedKeepsAdmitted ==
  ASSUME NEW ns \in SUBSET Node, NEW es, NEW st, NEW tt \in [Node -> TaintValue],
         NEW n \in ns, tt[n] = "self_admitted"
  PROVE  Recomputed(ns, es, st, tt)[n] = "self_admitted"
BY DEF Recomputed, Propagate

\* A self-admitted gap survives every call but a set_taint on the node itself.
THEOREM GapsStayMarked == Spec => AdmittedIsSticky
<1> DEFINE Kept(n) == taint[n] = "self_admitted" =>
                        taint'[n] = "self_admitted" \/ \E t \in TaintValue : SetTaint(n, t)
<1>1. IInv /\ [Next]_vars => [\A n \in nodes : Kept(n)]_vars
  <2> SUFFICES ASSUME IInv, Next, NEW n \in nodes, taint[n] = "self_admitted"
               PROVE  taint'[n] = "self_admitted" \/ \E t \in TaintValue : SetTaint(n, t)
    OBVIOUS
  <2>0. nodes \subseteq Node /\ taint \in [Node -> TaintValue]
    BY DEF IInv, TypeOK
  <2>1. ASSUME NEW m \in Node, AddNode(m) \/ ExtractLemma(m)
        PROVE  taint'[n] = "self_admitted"
    BY <2>1 DEF AddNode, ExtractLemma
  <2>2. ASSUME NEW e \in Edge(Node, Kind), AddEdge(e)
        PROVE  taint'[n] = "self_admitted"
    BY <2>0, <2>2, RecomputedKeepsAdmitted DEF AddEdge
  <2>3. ASSUME NEW m \in Node, NEW parents \in SUBSET Node, MergeNodes(m, parents)
        PROVE  taint'[n] = "self_admitted"
    <3>1. /\ nodes' \in SUBSET Node /\ n \in nodes'
          /\ taint' = Recomputed(nodes', edges', status, taint)
      BY <2>0, <2>3 DEF MergeNodes
    <3>2. QED
      BY <2>0, <3>1, RecomputedKeepsAdmitted
  <2>4. ASSUME NEW m \in Node, NEW st \in Status, SetNodeStatus(m, st)
        PROVE  taint'[n] = "self_admitted"
    BY <2>0, <2>4, RecomputedKeepsAdmitted DEF SetNodeStatus
  <2>5. ASSUME NEW m \in Node, NEW t \in TaintValue, SetTaint(m, t), m # n
        PROVE  taint'[n] = "self_admitted"
    <3>1. PICK tt : tt = [taint EXCEPT ![m] = t]
      OBVIOUS
    <3>2. tt \in [Node -> TaintValue] /\ tt[n] = "self_admitted"
      BY <2>0, <2>5, <3>1
    <3>3. taint' = Recomputed(nodes, edges, status, tt)
      BY <2>5, <3>1 DEF SetTaint
    <3>4. QED
      BY <2>0, <3>2, <3>3, RecomputedKeepsAdmitted
  <2>6. QED
    BY <2>1, <2>2, <2>3, <2>4, <2>5 DEF Next
<1>2. QED
  BY SpecIInv, <1>1, PTL DEF Spec, AdmittedIsSticky

\* Under TaintSound a clean node rests on clean nodes, along any chain.
LEMMA CleanAllTheWayDown ==
  ASSUME TypeOK, TaintSound, NEW root \in nodes, taint[root] = "clean",
         NEW n \in Closure(nodes, TaintEdges(edges), root)
  PROVE  n \in nodes /\ taint[n] = "clean"
<1> DEFINE S == {m \in nodes : taint[m] = "clean"}
<1>1. S \subseteq nodes /\ root \in S
  OBVIOUS
<1>2. ClosedDown(S, TaintEdges(edges))
  BY DEF ClosedDown, TaintSound, TypeOK, Edge, TaintEdges
<1>3. n \in S
  BY <1>1, <1>2 DEF Closure
<1>4. QED
  BY <1>3

\* A lemma extracted as untainted rests on nothing rejected, blocked or
\* admitted, along every chain of taint-carrying edges.
THEOREM CleanLemmasAreClean == Spec => CleanLemmaHasCleanBasis
<1> DEFINE Clean(l) == ~ l.taint =>
                         \A n \in Closure(nodes, TaintEdges(edges), l.root) :
                            status[n] \notin BadStatus /\ taint[n] # "self_admitted"
<1>1. IInv /\ [Next]_vars => [\A l \in lemmas' \ lemmas : Clean(l)]_vars
  <2> SUFFICES ASSUME IInv, Next, NEW l \in lemmas' \ lemmas, ~ l.taint,
                      NEW n \in Closure(nodes, TaintEdges(edges), l.root)
               PROVE  status[n] \notin BadStatus /\ taint[n] # "self_admitted"
    OBVIOUS
  <2>1. PICK root \in Node : ExtractLemma(root)
    BY DEF Next, AddNode, AddEdge, MergeNodes, SetNodeStatus, SetTaint
  <2>2. /\ root \in nodes
        /\ l = [root |-> root, taint |-> LemmaTaint(DependencyClosure(root))]
    BY <2>1 DEF ExtractLemma
  <2>3. root \in DependencyClosure(root)
    BY <2>2 DEF DependencyClosure, Closure
  <2>4. taint[root] = "clean"
    BY <2>2, <2>3 DEF LemmaTaint
  <2>5. n \in nodes /\ taint[n] = "clean"
    BY <2>2, <2>4, CleanAllTheWayDown DEF IInv
  <2>6. QED
    BY <2>5 DEF IInv, TaintSound
<1>2. QED
  BY SpecIInv, <1>1, PTL DEF Spec, CleanLemmaHasCleanBasis

\* recompute_taint reads no more of the old labels than the admitted gaps.
LEMMA RecomputedSame ==
  ASSUME NEW ns \in SUBSET Node, NEW es,
         NEW st \in [Node -> NodeStatus], NEW su \in [Node -> NodeStatus],
         NEW tt \in [Node -> TaintValue], NEW uu \in [Node -> TaintValue],
         \A n \in ns : st[n] \in BadStatus <=> su[n] \in BadStatus,
         \A n \in ns : tt[n] = "self_admitted" <=> uu[n] = "self_admitted",
         \A n \in Node \ ns : tt[n] = uu[n]
  PROVE  Recomputed(ns, es, st, tt) = Recomputed(ns, es, su, uu)
<1>1. Seeds(ns, st, tt) = Seeds(ns, su, uu)
  BY DEF Seeds, SelfAdmitted
<1>2. Poisoned(ns, es, st, tt) = Poisoned(ns, es, su, uu)
  BY <1>1 DEF Poisoned
<1>3. QED
  BY <1>2 DEF Recomputed, Propagate

\* A second recompute_taint changes nothing.
LEMMA RecomputedTwice ==
  ASSUME NEW ns \in SUBSET Node, NEW es \in SUBSET Edge(ns, EdgeKind),
         NEW st \in [Node -> NodeStatus], NEW tt \in [Node -> TaintValue]
  PROVE  Recomputed(ns, es, st, Recomputed(ns, es, st, tt)) = Recomputed(ns, es, st, tt)
<1>1. PICK new : new = Recomputed(ns, es, st, tt)
  OBVIOUS
<1>2. new \in [Node -> TaintValue] /\ \A n \in Node \ ns : new[n] = tt[n]
  <2>1. Labelled(ns, es, st, tt, new)
    BY <1>1, RecomputedSound
  <2>2. QED
    BY <2>1 DEF Labelled
<1>3. \A n \in ns : new[n] = "self_admitted" <=> tt[n] = "self_admitted"
  BY <1>1 DEF Recomputed, Propagate
<1>4. Recomputed(ns, es, st, new) = Recomputed(ns, es, st, tt)
  BY <1>2, <1>3, RecomputedSame
<1>5. QED
  BY <1>1, <1>4

\* A node without edges and without a mark of its own changes no label.
LEMMA RecomputedFreshNode ==
  ASSUME NEW ns \in SUBSET Node, NEW n \in Node \ ns,
         NEW es \in SUBSET Edge(ns, EdgeKind),
         NEW st \in [Node -> NodeStatus], NEW tt \in [Node -> TaintValue],
         st[n] = "proposed", tt[n] = "clean"
  PROVE  Recomputed(ns \cup {n}, es, st, tt) = Recomputed(ns, es, st, tt)
<1> DEFINE seeds == Seeds(ns, st, tt)
           E == TaintEdges(es)
           ms == ns \cup {n}
<1>1. Seeds(ms, st, tt) = seeds /\ seeds \subseteq ns
  BY DEF Seeds, SelfAdmitted, BadStatus
<1>2. E \in SUBSET Edge(ns, EdgeKind) /\ \A e \in E : e.source \in ns /\ e.target \in ns
  BY DEF TaintEdges, Edge
<1>3. Dependents(ms, E, seeds) = Dependents(ns, E, seeds)
  <2>1. ASSUME NEW x \in Dependents(ms, E, seeds) PROVE x \in Dependents(ns, E, seeds)
    <3>1. ns \in SUBSET ms /\ ClosedUp(ns, E)
      BY <1>2 DEF ClosedUp
    <3>2. x \in ns
      BY <1>1, <2>1, <3>1 DEF Dependents
    <3>3. \A S \in SUBSET ns : seeds \subseteq S /\ ClosedUp(S, E) => x \in S
      BY <2>1 DEF Dependents
    <3>4. QED
      BY <3>2, <3>3 DEF Dependents
  <2>2. ASSUME NEW x \in Dependents(ns, E, seeds) PROVE x \in Dependents(ms, E, seeds)
    <3>1. ASSUME NEW S \in SUBSET ms, seeds \subseteq S, ClosedUp(S, E) PROVE x \in S
      <4>1. ClosedUp(S \cap ns, E)
        BY <1>2, <3>1 DEF ClosedUp
      <4>2. seeds \subseteq S \cap ns
        BY <1>1, <3>1
      <4>3. QED
        BY <2>2, <4>1, <4>2 DEF Dependents
    <3>2. QED
      BY <2>2, <3>1 DEF Dependents
  <2>3. QED
    BY <2>1, <2>2
<1>4. Poisoned(ms, es, st, tt) = Poisoned(ns, es, st, tt)
  BY <1>1, <1>3 DEF Poisoned
<1>5. n \notin Poisoned(ns, es, st, tt)
  BY DEF Poisoned, Dependents
<1>6. QED
  BY <1>4, <1>5 DEF Recomputed, Propagate

\* Exact labels become inexact only when a status leaves rejected or blocked.
THEOREM StaleOnlyAfterRevival == Spec => ExactLostOnlyByRevival
<1> DEFINE Revival == \E n \in nodes : status[n] \in BadStatus /\ status'[n] \notin BadStatus
<1>1. IInv /\ [Next]_vars => [TaintExact /\ ~ TaintExact' => Revival]_vars
  <2> SUFFICES ASSUME IInv, Next, TaintExact, ~ Revival PROVE TaintExact'
    OBVIOUS
  <2>0. /\ nodes \in SUBSET Node /\ edges \in SUBSET Edge(nodes, EdgeKind)
        /\ status \in [Node -> NodeStatus] /\ taint \in [Node -> TaintValue]
    BY DEF IInv, TypeOK
  <2>i. /\ nodes' \in SUBSET Node /\ edges' \in SUBSET Edge(nodes', EdgeKind)
        /\ status' \in [Node -> NodeStatus]
    BY NextIInv DEF IInv, TypeOK
  <2>r. ASSUME NEW tt \in [Node -> TaintValue], taint' = Recomputed(nodes', edges', status', tt)
        PROVE  TaintExact'
    BY <2>i, <2>r, RecomputedTwice DEF TaintExact
  <2>1. ASSUME NEW n \in Node, AddNode(n) PROVE TaintExact'
    <3>1. Recomputed(nodes \cup {n}, edges, status, taint)
            = Recomputed(nodes, edges, status, taint)
      BY <2>0, <2>1, RecomputedFreshNode DEF AddNode, IInv, FreshIds
    <3>2. QED
      BY <2>1, <3>1 DEF AddNode, TaintExact
  <2>2. ASSUME NEW e \in Edge(Node, Kind), AddEdge(e) PROVE TaintExact'
    BY <2>0, <2>2, <2>r DEF AddEdge
  <2>3. ASSUME NEW n \in Node, NEW parents \in SUBSET Node, MergeNodes(n, parents)
        PROVE  TaintExact'
    BY <2>0, <2>3, <2>r DEF MergeNodes
  <2>4. ASSUME NEW n \in Node, NEW st \in Status, SetNodeStatus(n, st) PROVE TaintExact'
    <3>1. CASE st \in BadStatus
      BY <2>0, <2>4, <2>r, <3>1 DEF SetNodeStatus
    <3>2. CASE st \notin BadStatus
      <4>1. \A m \in nodes : status[m] \in BadStatus <=> status'[m] \in BadStatus
        BY <2>0, <2>4, <3>2 DEF SetNodeStatus
      <4>2. Recomputed(nodes, edges, status', taint) = Recomputed(nodes, edges, status, taint)
        BY <2>0, <2>i, <4>1, RecomputedSame
      <4>3. QED
        BY <2>4, <3>2, <4>2 DEF SetNodeStatus, TaintExact
    <3>3. QED
      BY <3>1, <3>2
  <2>5. ASSUME NEW n \in Node, NEW t \in TaintValue, SetTaint(n, t) PROVE TaintExact'
    <3>1. PICK tt : tt = [taint EXCEPT ![n] = t]
      OBVIOUS
    <3>2. tt \in [Node -> TaintValue]
      BY <2>0, <3>1
    <3>3. taint' = Recomputed(nodes', edges', status', tt)
      BY <2>5, <3>1 DEF SetTaint
    <3>4. QED
      BY <3>2, <3>3, <2>r
  <2>6. ASSUME NEW n \in Node, ExtractLemma(n) PROVE TaintExact'
    BY <2>6 DEF ExtractLemma, TaintExact
  <2>7. QED
    BY <2>1, <2>2, <2>3, <2>4, <2>5, <2>6 DEF Next
<1>2. QED
  BY SpecIInv, <1>1, PTL DEF Spec, ExactLostOnlyByRevival
============================================================================
