----------------------------- MODULE StoreRaces -----------------------------
(***************************************************************************)
(* Several SQLite connections on the database of ProofGraph: the CLI, a    *)
(* TUI worker thread, a Team worker thread and the API each open a Store   *)
(* of their own (app/tui/event.rs:96-104, team.rs:76-78, app/lib.rs:607).  *)
(*                                                                         *)
(* The transactional calls stay single steps.  set_taint and extract_lemma *)
(* open no transaction: each of their statements commits on its own, down  *)
(* to the UPDATE of one row in recompute_taint.  Other connections run     *)
(* between any two of them, and a process may die there, or the statement  *)
(* fail.  What a call has read it keeps in memory, in call[c].             *)
(***************************************************************************)
EXTENDS ProofGraph

CONSTANT Conn    \* the open connections

VARIABLES
  call,       \* call[c]: the unfinished non-transactional call of c
  overtaken   \* history: the calls of recompute_taint in which another
              \* connection has changed the tables since the first read

allvars == <<nodes, status, taint, edges, lemmas, call, overtaken>>

Ready == [op |-> "none"]

\* set_taint before its recompute_taint; recompute_taint between its reads of
\* the nodes and of the edges; and with rows left to update.
Marked == [op |-> "marked"]
ReadNodes == [op |-> "read", ids |-> nodes, status |-> status, taint |-> taint]
Writing(ids, labels) == [op |-> "writing", ids |-> ids, labels |-> labels]

Recomputing(k) == k.op \in {"read", "writing"}

\* extract_lemma between reading the nodes and reading the edges.
Extracting(root) ==
  [op |-> "extracting", root |-> root, ids |-> nodes,
   verified |-> {n \in nodes : status[n] \in VerifiedStatus},
   unclean |-> {n \in nodes : taint[n] # "clean"}]

CallType ==
  {Ready, Marked}
  \cup [op : {"read"}, ids : SUBSET Node, status : [Node -> NodeStatus],
        taint : [Node -> TaintValue]]
  \cup [op : {"writing"}, ids : SUBSET Node, labels : [Node -> TaintValue]]
  \cup [op : {"extracting"}, root : Node, ids : SUBSET Node,
        verified : SUBSET Node, unclean : SUBSET Node]

RaceTypeOK == TypeOK /\ call \in [Conn -> CallType] /\ overtaken \subseteq Conn

RaceInit == Init /\ call = [c \in Conn |-> Ready] /\ overtaken = {}

----------------------------------------------------------------------------
\* A transactional call of ProofGraph, on a connection that is free.
Transaction ==
  /\ \E c \in Conn : call[c] = Ready
  /\ \/ \E n \in Node : AddNode(n)
     \/ \E e \in Edge(Node, Kind) : AddEdge(e)
     \/ \E n \in Node, parents \in SUBSET Node : MergeNodes(n, parents)
     \/ \E n \in Node, st \in Status : SetNodeStatus(n, st)
  /\ UNCHANGED call

\* The UPDATE of set_taint (db.rs:1558-1570).
SetTaintMark(c, n, t) ==
  /\ call[c] = Ready
  /\ n \in nodes
  /\ taint' = [taint EXCEPT ![n] = t]
  /\ call' = [call EXCEPT ![c] = Marked]
  /\ UNCHANGED <<nodes, status, edges, lemmas>>

\* Its recompute_taint reads the nodes with their columns (db.rs:1534) ...
SetTaintReadNodes(c) ==
  /\ call[c] = Marked
  /\ call' = [call EXCEPT ![c] = ReadNodes]
  /\ UNCHANGED vars

\* ... then the edges (db.rs:1535), and runs propagate in memory.  A node that
\* came in between is no seed, but taint passes through its edges ...
SetTaintReadEdges(c) ==
  LET k == call[c]
  IN  /\ k.op = "read"
      /\ call' = [call EXCEPT
                    ![c] = Writing(k.ids, Recomputed(nodes, edges, k.status, k.taint))]
      /\ UNCHANGED vars

\* Mutant of SetTaintWriteRow: a label that is clean is not written.
SetTaintSkipClean(c, n) ==
  LET k == call[c]
  IN  /\ k.op = "writing"
      /\ n \in k.ids
      /\ taint' = IF k.labels[n] = "clean" THEN taint ELSE [taint EXCEPT ![n] = k.labels[n]]
      /\ call' = [call EXCEPT ![c] = IF k.ids = {n} THEN Ready
                                     ELSE Writing(k.ids \ {n}, k.labels)]
      /\ UNCHANGED <<nodes, status, edges, lemmas>>

\* ... and updates the rows it has read one by one (db.rs:1537-1543), in any
\* order here.
SetTaintWriteRow(c, n) ==
  LET k == call[c]
  IN  /\ k.op = "writing"
      /\ n \in k.ids
      /\ taint' = [taint EXCEPT ![n] = k.labels[n]]
      /\ call' = [call EXCEPT ![c] = IF k.ids = {n} THEN Ready
                                     ELSE Writing(k.ids \ {n}, k.labels)]
      /\ UNCHANGED <<nodes, status, edges, lemmas>>

\* extract_lemma reads the nodes (db.rs:1643-1647).
ExtractReadNodes(c, root) ==
  /\ call[c] = Ready
  /\ root \in nodes
  /\ call' = [call EXCEPT ![c] = Extracting(root)]
  /\ UNCHANGED vars

\* Then it reads the edges and checks the members of the closure that its
\* first read returned; an unknown member is skipped (db.rs:1651-1653).
\* What it inserts is fixed by the two reads.
ExtractFinish(c) ==
  LET root == call[c].root
      set == DependencyClosure(root) \cap call[c].ids
      lemma == [root |-> root, taint |-> set \cap call[c].unclean # {}]
  IN  /\ call[c].op = "extracting"
      /\ Cardinality(lemmas) < MaxLemmas
      /\ call' = [call EXCEPT ![c] = Ready]
      /\ lemmas' = IF set \ Assumption \subseteq call[c].verified
                   THEN lemmas \cup {lemma} ELSE lemmas
      /\ UNCHANGED <<nodes, status, taint, edges>>

\* The process of a connection dies in the middle of a call, or its next
\* statement fails and the call returns the error.
ConnDies(c) ==
  /\ call[c] # Ready
  /\ call' = [call EXCEPT ![c] = Ready]
  /\ UNCHANGED vars

CallStep ==
  \/ Transaction
  \/ \E c \in Conn :
        \/ \E n \in Node, t \in TaintValue : SetTaintMark(c, n, t)
        \/ SetTaintReadNodes(c)
        \/ SetTaintReadEdges(c)
        \/ \E n \in Node : SetTaintWriteRow(c, n)
        \/ \E n \in Node : ExtractReadNodes(c, n)
        \/ ExtractFinish(c)
        \/ ConnDies(c)

\* A call that stands still while the tables change is overtaken.
Overtake ==
  overtaken' = {c \in Conn : /\ Recomputing(call'[c])
                             /\ c \in overtaken \/ (call'[c] = call[c] /\ vars' # vars)}

RaceNext == CallStep /\ Overtake

RaceSpec == RaceInit /\ [][RaceNext]_allvars

----------------------------------------------------------------------------
(* Properties *)

\* The recomputation of labels is complete: in a transaction that inserts an
\* edge or makes a status bad, or in a set_taint that nobody has overtaken and
\* that writes its last row.
Recomputes ==
  \/ edges' # edges
  \/ \E n \in nodes : status[n] \notin BadStatus /\ status'[n] \in BadStatus
  \/ \E c \in Conn \ overtaken, n \in Node :
        SetTaintWriteRow(c, n) /\ call'[c] = Ready

\* A set_taint on its way: its mark, a row that is not its last, or a row of
\* labels that are out of date.
OnItsWay ==
  \E c \in Conn, n \in Node :
     \/ \E t \in TaintValue : SetTaintMark(c, n, t)
     \/ SetTaintWriteRow(c, n) /\ (c \in overtaken \/ call'[c] # Ready)

\* Whatever half-finished, dead or stale set_taint calls left behind, the next
\* complete recomputation leaves the labels of the whole project sound
\* (db.rs:526-528 and 669 inside a transaction, 1533-1545 outside of one), and
\* labels that are sound are unsettled by a set_taint on its way alone: never
\* by a transaction, an extraction or a death.
RecomputingHeals ==
  [][/\ Recomputes => TaintSound'
     /\ TaintSound /\ ~ TaintSound' => OnItsWay]_allvars
============================================================================
