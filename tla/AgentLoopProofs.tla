-------------------------- MODULE AgentLoopProofs --------------------------
(***************************************************************************)
(* Safety proofs for AgentLoop, for every project, router table, number of *)
(* attempts and length K of the verifier's streak.  What the sessions do   *)
(* to the graph are calls of the store, so the invariant of the graph is   *)
(* taken over from ProofGraphProofs.                                       *)
(***************************************************************************)
EXTENDS AgentLoop, FiniteSetTheorems, TLAPS

Store == INSTANCE ProofGraphProofs WITH
  Assumption <- {}, Kind <- {"depends_on"}, Status <- NodeStatus,
  MaxLemmas <- 0, lemmas <- {}

Verified == {n \in nodes : status[n] = "formally_verified"}

\* The memory of an agent has its three parts, and they have their fields.
Shaped(ag) ==
  /\ ag = [mem |-> ag.mem, snap |-> ag.snap, work |-> ag.work]
  /\ ag.mem = [at |-> ag.mem.at, pass |-> ag.mem.pass, certified |-> ag.mem.certified,
               falsified |-> ag.mem.falsified, refuted |-> ag.mem.refuted,
               decomposed |-> ag.mem.decomposed, seen |-> ag.mem.seen]
  /\ ag.snap = [todo |-> ag.snap.todo, progressed |-> ag.snap.progressed,
                level |-> ag.snap.level, formal |-> ag.snap.formal, hinted |-> ag.snap.hinted]
  /\ ag.work = [node |-> ag.work.node, route |-> ag.work.route, text |-> ag.work.text,
                accepted |-> ag.work.accepted, streak |-> ag.work.streak,
                rounds |-> ag.work.rounds, child |-> ag.work.child]
  /\ ag.mem.certified \in Nat /\ ag.work.streak \in Nat /\ ag.snap.todo \subseteq Node

\* From the check of a stored source to the end of the work on its node.
Gated == {"gate", "certify", "harden"}

\* What the only agent believes of the nodes it has yet to do, and of the
\* source in its hands, is so: nobody else stores a source or certifies.
Cert(ag) ==
  /\ ag.work.node \subseteq ag.snap.todo
  /\ ag.mem.at \in {"plan", "route"} => ag.work.node = {}
  /\ \A n \in ag.snap.todo :
       /\ status[n] = "formally_verified" => ag.mem.at = "harden" /\ n \in ag.work.node
       /\ ag.snap.formal[n] = formal[n] \/ (ag.mem.at \in Gated /\ n \in ag.work.node)
  /\ ag.mem.at \notin Gated => ag.work.streak = 0
  /\ ag.mem.at = "store" /\ ag.work.accepted => ag.work.text = "proof" \/ 1 < K
  /\ ag.mem.at \in {"gate", "certify"} => \A n \in ag.work.node : formal[n] = ag.work.text
  /\ ag.mem.at = "gate" /\ ag.work.text # "proof" => ag.work.streak < K
  /\ ag.mem.at = "certify" => ag.work.text = "proof"

\* The count of the only agent, and the final state of its run.
Tally(ag, state) ==
  /\ IsFiniteSet(Verified)
  /\ ag.mem.at # "stopped" => ag.mem.certified = Cardinality(Verified)
  /\ ag.mem.at = "harden" => \A n \in ag.work.node : status[n] = "formally_verified"
  /\ ag.mem.at = "done" => (state = "made_progress" <=> Verified # {})

Genuine == \A n \in nodes : status[n] = "formally_verified" => formal[n] = "proof"

Undisturbed == "session" \notin setting.faults

IInv ==
  /\ Store!IInv
  /\ setting \in Setting
  /\ formal = [n \in Node |-> formal[n]]
  /\ run \in [Agent -> {"running", "made_progress", "no_certificate"}]
  /\ agent = [a \in Agent |-> agent[a]]
  /\ \A a \in Agent : Shaped(agent[a])
  /\ Alone => Genuine
  /\ Alone => \A a \in setting.agents : Cert(agent[a])
  /\ Alone /\ Undisturbed => \A a \in setting.agents : Tally(agent[a], run[a])

----------------------------------------------------------------------------
\* Of nine rules, the last of which always applies, the first that applies
\* exists; so a node is always routed somewhere.
LEMMA FirstOfNine ==
  ASSUME NEW rules, NEW S, DOMAIN rules = 1..9, rules[9][1] = TRUE,
         \A i \in 1..9 : rules[i][2] \in S
  PROVE  FirstRule(rules) \in S
<1> DEFINE Applies(i) == rules[i][1]
           First(i) == i \in 1..9 /\ Applies(i) /\ \A j \in 1..(i - 1) : ~ Applies(j)
<1>1. Applies(9)
  OBVIOUS
<1> HIDE DEF Applies
<1>2. \E i \in 1..9 : Applies(i) /\ \A j \in 1..(i - 1) : ~ Applies(j)
  <2>1. CASE Applies(1)
    BY <2>1
  <2>2. CASE ~ Applies(1) /\ Applies(2)
    BY <2>2
  <2>3. CASE ~ Applies(1) /\ ~ Applies(2) /\ Applies(3)
    BY <2>3
  <2>4. CASE \A j \in 1..3 : ~ Applies(j)
    <3>1. CASE Applies(4)
      BY <2>4, <3>1
    <3>2. CASE ~ Applies(4) /\ Applies(5)
      BY <2>4, <3>2
    <3>3. CASE ~ Applies(4) /\ ~ Applies(5) /\ Applies(6)
      BY <2>4, <3>3
    <3>4. CASE \A j \in 1..6 : ~ Applies(j)
      <4>1. CASE Applies(7)
        BY <3>4, <4>1
      <4>2. CASE ~ Applies(7) /\ Applies(8)
        BY <3>4, <4>2
      <4>3. CASE ~ Applies(7) /\ ~ Applies(8)
        BY <1>1, <3>4, <4>3
      <4>4. QED
        BY <4>1, <4>2, <4>3
    <3>5. QED
      BY <2>4, <3>1, <3>2, <3>3, <3>4
  <2>5. QED
    BY <2>1, <2>2, <2>3, <2>4
<1> USE DEF Applies
<1>3. PICK k : k = CHOOSE i \in DOMAIN rules : rules[i][1] /\ \A j \in 1..(i - 1) : ~ rules[j][1]
  OBVIOUS
<1>4. k \in 1..9
  BY <1>2, <1>3
<1>5. QED
  BY <1>3, <1>4 DEF FirstRule

LEMMA RouteInRoute ==
  ASSUME NEW n, NEW tries, NEW mem, NEW snap
  PROVE  RouteOf(n, tries, mem, snap) \in Route
<1> DEFINE tools == setting.tools
           stated == snap.formal[n] # "none"
           exhausted == tries >= MaxAttempts
           rules == <<
        <<exhausted, "escalate">>,
        <<KindOf[n] \in {"conjecture", "obligation"} /\ n \notin mem.falsified
            /\ n \notin mem.refuted /\ "python" \in tools, "falsify">>,
        <<n \in mem.refuted, "escalate">>,
        <<n \notin snap.hinted /\ "search" \in tools
            /\ KindOf[n] \in {"obligation", "lemma"}, "retrieve">>,
        <<KindOf[n] = "conjecture" /\ "model" \in tools, "decompose">>,
        <<stated /\ "verifier" \in tools, "verify">>,
        <<~ stated /\ {"verifier", "model"} \subseteq tools, "formalize">>,
        <<tools \cap {"prover", "model"} # {}, "prove">>,
        <<TRUE, "escalate">> >>
<1>1. RouteOf(n, tries, mem, snap) = FirstRule(rules)
  BY DEF RouteOf, BaseRoute
<1>2. DOMAIN rules = 1..9 /\ rules[9][1] = TRUE
  OBVIOUS
<1>3. \A i \in 1..9 : rules[i][2] \in Route
  BY DEF Route
<1> HIDE DEF rules
<1>4. QED
  BY <1>1, <1>2, <1>3, FirstOfNine

----------------------------------------------------------------------------
(* The graph: the calls of the store keep its invariant. *)

LEMMA SameStore ==
  ASSUME NEW ns, NEW es, NEW st, NEW tt
  PROVE  /\ Graph!Recomputed(ns, es, st, tt) = Store!Recomputed(ns, es, st, tt)
         /\ HasCycle(ns, es) = Store!HasCycle(ns, es)
         /\ Graph!HasCycle(ns, es) = Store!HasCycle(ns, es)
<1>1. Graph!Recomputed(ns, es, st, tt) = Store!Recomputed(ns, es, st, tt)
  BY DEF Graph!Recomputed, Store!Recomputed, Graph!Propagate, Store!Propagate,
         Graph!Poisoned, Store!Poisoned, Graph!Dependents, Store!Dependents,
         Graph!Seeds, Store!Seeds, Graph!SelfAdmitted, Store!SelfAdmitted,
         Graph!ClosedUp, Store!ClosedUp, Graph!TaintEdges, Store!TaintEdges,
         Graph!CarriesTaint, Store!CarriesTaint, Graph!BadStatus, Store!BadStatus
<1>2. HasCycle(ns, es) = Store!HasCycle(ns, es) /\ Graph!HasCycle(ns, es) = Store!HasCycle(ns, es)
  BY DEF HasCycle, Store!HasCycle, Graph!HasCycle
<1>3. QED
  BY <1>1, <1>2

LEMMA StoreNext ==
  ASSUME Store!IInv, Store!Next \/ UNCHANGED <<nodes, status, taint, edges>>
  PROVE  Store!IInv'
<1>1. Store!GraphAssumption
  BY DEF Store!GraphAssumption, Store!EdgeKind, Store!NodeStatus, NodeStatus
<1>2. [Store!Next]_(Store!vars)
  BY DEF Store!vars
<1>3. QED
  BY <1>1, <1>2, Store!NextIInv DEF Store!NextIInv

\* The columns that the proofs below look at.
LEMMA Columns ==
  ASSUME Store!IInv
  PROVE  /\ nodes \subseteq Node /\ status \in [Node -> NodeStatus]
         /\ \A n \in Node \ nodes : status[n] = "proposed"
BY DEF Store!IInv, Store!TypeOK, Store!FreshIds, Store!NodeStatus, NodeStatus

LEMMA SetStatus ==
  ASSUME Store!IInv, NEW n \in Node, NEW st \in NodeStatus, Graph!SetNodeStatus(n, st)
  PROVE  /\ Store!IInv' /\ n \in nodes /\ nodes' = nodes
         /\ status'[n] = st /\ \A m \in Node \ {n} : status'[m] = status[m]
<1>1. Store!SetNodeStatus(n, st)
  BY SameStore DEF Store!SetNodeStatus, Graph!SetNodeStatus, Graph!BadStatus, Store!BadStatus
<1>2. Store!IInv'
  BY <1>1, StoreNext DEF Store!Next
<1>3. n \in nodes /\ nodes' = nodes /\ status' = [status EXCEPT ![n] = st]
  BY <1>1 DEF Store!SetNodeStatus
<1>4. QED
  BY <1>2, <1>3, Columns

LEMMA NewNode ==
  ASSUME Store!IInv, NEW n \in Node, Graph!AddNode(n)
  PROVE  Store!IInv' /\ nodes' = nodes \cup {n} /\ status' = status /\ n \notin nodes
<1>1. Store!AddNode(n)
  BY DEF Store!AddNode, Graph!AddNode
<1>2. Store!IInv'
  BY <1>1, StoreNext DEF Store!Next
<1>3. QED
  BY <1>1, <1>2 DEF Store!AddNode

LEMMA NewEdge ==
  ASSUME Store!IInv, NEW n, NEW m,
         Graph!AddEdge([source |-> n, target |-> m, kind |-> "depends_on"])
  PROVE  Store!IInv' /\ nodes' = nodes /\ status' = status
<1>1. PICK e : e = [source |-> n, target |-> m, kind |-> "depends_on"]
  OBVIOUS
<1>2. Store!AddEdge(e)
  BY <1>1, SameStore DEF Store!AddEdge, Graph!AddEdge, Store!Insertable, Graph!Insertable
<1>3. e \in Store!Edge(Node, {"depends_on"})
  BY <1>1, <1>2, Columns DEF Store!Edge, Store!AddEdge, Store!Insertable
<1>4. Store!IInv'
  BY <1>2, <1>3, StoreNext DEF Store!Next
<1>5. QED
  BY <1>2, <1>4 DEF Store!AddEdge

----------------------------------------------------------------------------
(* The memory: one agent moves at a time. *)

LEMMA Now ==
  ASSUME IInv, NEW a \in setting.agents
  PROVE  /\ a \in Agent /\ setting.agents \subseteq Agent
         /\ Shaped(agent[a])
         /\ Alone => Genuine /\ Cert(agent[a])
         /\ Alone /\ Undisturbed => Tally(agent[a], run[a])
BY AgentAssumption DEF IInv

\* A step of a keeps the invariant if what it leaves in the graph and in its
\* own memory is right.
LEMMA Move ==
  ASSUME IInv, NEW a \in setting.agents, NEW c, NEW r,
         agent' = [agent EXCEPT ![a] = c], setting' = setting, Shaped(c), Store!IInv',
         formal' = [n \in Node |-> formal'[n]],
         run' = [run EXCEPT ![a] = r], r \in {"running", "made_progress", "no_certificate"},
         Alone => Genuine' /\ Cert(c)',
         Alone /\ Undisturbed => Tally(c, r)'
  PROVE  IInv'
<1>1. a \in Agent /\ agent'[a] = c /\ run'[a] = r
      /\ \A b \in Agent \ {a} : agent'[b] = agent[b] /\ run'[b] = run[b]
  BY Now DEF IInv
<1>2. agent' = [b \in Agent |-> agent'[b]]
  BY <1>1 DEF IInv
<1>3. \A b \in Agent : Shaped(agent'[b])
  BY <1>1 DEF IInv
<1>4. run' \in [Agent -> {"running", "made_progress", "no_certificate"}]
  BY <1>1 DEF IInv
<1>5. ASSUME Alone PROVE setting.agents = {a}
  BY <1>5 DEF Alone
<1>6. Alone => \A b \in setting.agents : Cert(agent[b])'
  BY <1>1, <1>5 DEF Cert
<1>7. Alone /\ Undisturbed => \A b \in setting.agents : Tally(agent[b], run[b])'
  BY <1>1, <1>5 DEF Tally
<1>8. (Alone' => Alone) /\ (Undisturbed' => Undisturbed)
  BY DEF Alone, Undisturbed
<1>9. \A b \in Agent : Shaped(agent[b])'
  BY <1>3 DEF Shaped
<1>10. QED
  BY <1>2, <1>4, <1>6, <1>7, <1>8, <1>9 DEF IInv

\* So does a step that leaves the tables alone.
LEMMA Quiet ==
  ASSUME IInv, NEW a \in setting.agents, NEW c,
         agent' = [agent EXCEPT ![a] = c], Shaped(c),
         UNCHANGED <<nodes, status, taint, edges, formal, run, setting>>,
         c.mem.certified = agent[a].mem.certified,
         agent[a].mem.at # "stopped", c.mem.at \notin {"harden", "done"},
         Alone => Cert(c)'
  PROVE  IInv'
<1>1. Store!IInv' /\ formal' = [n \in Node |-> formal'[n]]
  BY StoreNext DEF IInv
<1>2. Alone => Genuine'
  BY DEF IInv, Genuine
<1>3. Alone /\ Undisturbed => Tally(c, run[a])'
  BY Now DEF Tally, Verified
<1>4. run' = [run EXCEPT ![a] = run[a]] /\ run[a] \in {"running", "made_progress", "no_certificate"}
  BY Now DEF IInv
<1>5. QED
  BY <1>1, <1>2, <1>3, <1>4, Move DEF IInv

\* The agent is left with less to do and nothing in hand; what it leaves out
\* may have changed.
LEMMA Shrink ==
  ASSUME NEW ag, Shaped(ag), Cert(ag), NEW c,
         c.mem.at = "route", c.work.node = {}, c.work.streak = 0,
         c.snap.formal = ag.snap.formal, c.snap.todo \subseteq ag.snap.todo \ ag.work.node,
         \A n \in c.snap.todo : status'[n] = status[n] /\ formal'[n] = formal[n]
  PROVE  Cert(c)'
BY DEF Cert, Gated

\* The agent goes on with the node it has.
LEMMA Onward ==
  ASSUME NEW ag, Shaped(ag), Cert(ag), ag.mem.at \notin Gated, NEW c,
         c.mem.at \notin Gated \cup {"plan", "route"}, c.snap = ag.snap,
         c.work.node = ag.work.node, c.work.streak = ag.work.streak,
         c.mem.at = "store" /\ c.work.accepted => c.work.text = "proof" \/ 1 < K,
         UNCHANGED <<status, formal>>
  PROVE  Cert(c)'
BY DEF Cert, Gated

\* However the work on a node ends, the node is done in this pass.
Ended(ag, c) ==
  /\ Shaped(c) /\ c.mem.at = "route"
  /\ c.snap.formal = ag.snap.formal /\ c.snap.todo = ag.snap.todo \ ag.work.node
  /\ c.work.node = {} /\ c.work.streak = 0

LEMMA FinishFields ==
  ASSUME NEW ag, Shaped(ag), NEW outcome, NEW c, c = Finish(ag, outcome)
  PROVE  Ended(ag, c) /\ c.mem.certified = ag.mem.certified
BY DEF Finish, Shaped, Ended, NoWork

LEMMA RememberFields ==
  ASSUME NEW ag, Shaped(ag), NEW n, NEW c, c = Remember(ag, n)
  PROVE  /\ Shaped(c) /\ c.mem.at = "refute" /\ c.mem.certified = ag.mem.certified
         /\ c.snap = ag.snap /\ c.work = ag.work
BY DEF Remember, Shaped

LEMMA FinishVariants ==
  ASSUME NEW ag, Shaped(ag), NEW n
  PROVE  /\ Ended(ag, FinishFalsify(ag, n))
         /\ FinishFalsify(ag, n).mem.certified = ag.mem.certified
         /\ Ended(ag, FinishDecompose(ag, n))
         /\ FinishDecompose(ag, n).mem.certified = ag.mem.certified
         /\ Ended(ag, FinishFlagged(ag))
         /\ FinishFlagged(ag).mem.certified =
              IF ag.mem.certified > 0 THEN ag.mem.certified - 1 ELSE 0
<1>1. ASSUME NEW outcome, NEW d, d = Finish(ag, outcome)
      PROVE  Shaped(d) /\ Ended(ag, d) /\ d.mem.certified = ag.mem.certified
  <2>1. Ended(ag, d) /\ d.mem.certified = ag.mem.certified
    BY <1>1, FinishFields
  <2>2. QED
    BY <2>1 DEF Ended
<1>2. PICK d : d = Finish(ag, "falsify")
  OBVIOUS
<1>3. PICK e : e = Finish(ag, "decompose")
  OBVIOUS
<1>4. PICK f : f = Finish(ag, "verify")
  OBVIOUS
<1>5. /\ Shaped(d) /\ Ended(ag, d) /\ d.mem.certified = ag.mem.certified
      /\ Shaped(e) /\ Ended(ag, e) /\ e.mem.certified = ag.mem.certified
      /\ Shaped(f) /\ Ended(ag, f) /\ f.mem.certified = ag.mem.certified
  BY <1>1, <1>2, <1>3, <1>4
<1>6. Ended(ag, FinishFalsify(ag, n)) /\ FinishFalsify(ag, n).mem.certified = ag.mem.certified
  <2>1. PICK c : c = [d EXCEPT !.mem.falsified = @ \cup {n}]
    OBVIOUS
  <2>2. /\ c = [mem |-> c.mem, snap |-> d.snap, work |-> d.work]
        /\ c.mem = [at |-> d.mem.at, pass |-> d.mem.pass, certified |-> d.mem.certified,
                    falsified |-> c.mem.falsified, refuted |-> d.mem.refuted,
                    decomposed |-> d.mem.decomposed, seen |-> d.mem.seen]
        /\ c.snap = d.snap /\ c.work = d.work
    BY <1>5, <2>1 DEF Shaped
  <2>3. Ended(ag, c) /\ c.mem.certified = ag.mem.certified
    BY <1>5, <2>2 DEF Ended, Shaped
  <2>4. QED
    BY <1>2, <2>1, <2>3 DEF FinishFalsify
<1>7. Ended(ag, FinishDecompose(ag, n)) /\ FinishDecompose(ag, n).mem.certified = ag.mem.certified
  <2>1. PICK c : c = [e EXCEPT !.mem.decomposed = @ \cup {n}]
    OBVIOUS
  <2>2. /\ c = [mem |-> c.mem, snap |-> e.snap, work |-> e.work]
        /\ c.mem = [at |-> e.mem.at, pass |-> e.mem.pass, certified |-> e.mem.certified,
                    falsified |-> e.mem.falsified, refuted |-> e.mem.refuted,
                    decomposed |-> c.mem.decomposed, seen |-> e.mem.seen]
        /\ c.snap = e.snap /\ c.work = e.work
    BY <1>5, <2>1 DEF Shaped
  <2>3. Ended(ag, c) /\ c.mem.certified = ag.mem.certified
    BY <1>5, <2>2 DEF Ended, Shaped
  <2>4. QED
    BY <1>3, <2>1, <2>3 DEF FinishDecompose
<1>8. PICK k : k = IF ag.mem.certified > 0 THEN ag.mem.certified - 1 ELSE 0
  OBVIOUS
<1>9. k \in Nat
  BY <1>8 DEF Shaped
<1>10. Ended(ag, FinishFlagged(ag)) /\ FinishFlagged(ag).mem.certified = k
  <2>1. PICK c : c = [f EXCEPT !.mem.certified = IF @ > 0 THEN @ - 1 ELSE 0]
    OBVIOUS
  <2>2. /\ c = [mem |-> c.mem, snap |-> f.snap, work |-> f.work]
        /\ c.mem = [at |-> f.mem.at, pass |-> f.mem.pass, certified |-> k,
                    falsified |-> f.mem.falsified, refuted |-> f.mem.refuted,
                    decomposed |-> f.mem.decomposed, seen |-> f.mem.seen]
        /\ c.snap = f.snap /\ c.work = f.work
    BY <1>5, <1>8, <2>1 DEF Shaped
  <2>3. Ended(ag, c) /\ c.mem.certified = k
    BY <1>5, <1>9, <2>2 DEF Ended, Shaped
  <2>4. QED
    BY <1>4, <2>1, <2>3 DEF FinishFlagged
<1>11. QED
  BY <1>6, <1>7, <1>8, <1>10

----------------------------------------------------------------------------
(* The steps that write no row of the graph and no source. *)

Still == UNCHANGED <<nodes, status, taint, edges, formal, run, setting>>

\* The agent is done with its node, whose row may stay as it is.
LEMMA FinishQuiet ==
  ASSUME IInv, NEW a \in setting.agents, NEW outcome, Still, agent[a].mem.at # "stopped",
         agent' = [agent EXCEPT ![a] = Finish(@, outcome)]
  PROVE  IInv'
<1>1. PICK c : c = Finish(agent[a], outcome)
  OBVIOUS
<1>2. Shaped(agent[a]) /\ (Alone => Cert(agent[a]))
  BY Now
<1>3. Ended(agent[a], c) /\ c.mem.certified = agent[a].mem.certified
  BY <1>1, <1>2, FinishFields
<1>4. Alone => Cert(c)'
  BY <1>2, <1>3, Shrink DEF Still, Ended
<1>5. agent' = [agent EXCEPT ![a] = c]
  BY <1>1
<1>6. QED
  BY <1>3, <1>4, <1>5, Quiet DEF Still, Ended

\* The agent goes on with its node.
LEMMA OnwardQuiet ==
  ASSUME IInv, NEW a \in setting.agents, Still, NEW c, Shaped(c),
         agent[a].mem.at \notin Gated \cup {"stopped"},
         agent' = [agent EXCEPT ![a] = c],
         c.mem.at \notin Gated \cup {"plan", "route", "done"},
         c.mem.certified = agent[a].mem.certified, c.snap = agent[a].snap,
         c.work.node = agent[a].work.node, c.work.streak = agent[a].work.streak,
         c.mem.at = "store" /\ c.work.accepted => c.work.text = "proof" \/ 1 < K
  PROVE  IInv'
<1>1. Shaped(agent[a]) /\ (Alone => Cert(agent[a]))
  BY Now
<1>2. Alone => Cert(c)'
  BY <1>1, Onward DEF Still
<1>3. QED
  BY <1>2, Quiet DEF Still, Gated

\* Planning: the copy is that of this moment, and nothing certified is open.
LEMMA PlanStep ==
  ASSUME IInv, NEW a \in Agent, Plan(a)
  PROVE  IInv'
<1>1. a \in setting.agents /\ agent[a].mem.at = "plan" /\ Still
  BY DEF Plan, At, db, Still
<1>2. Shaped(agent[a]) /\ (Alone => Cert(agent[a])) /\ nodes \subseteq Node
  BY <1>1, Now, Columns DEF IInv
<1>3. PICK level : level = Level
  OBVIOUS
<1>4. PICK c : c = [agent[a] EXCEPT !.mem.at = "route",
       !.snap = [todo |-> {n \in nodes : IsOpen(n)}, progressed |-> FALSE,
                 level |-> level, formal |-> formal, hinted |-> hinted]]
  OBVIOUS
<1>5. agent' = [agent EXCEPT ![a] = c]
  BY <1>3, <1>4 DEF Plan
<1>6. /\ Shaped(c) /\ c.mem.at = "route" /\ c.mem.certified = agent[a].mem.certified
      /\ c.snap.todo = {n \in nodes : IsOpen(n)} /\ c.snap.formal = formal
      /\ c.work = agent[a].work
  BY <1>2, <1>4 DEF Shaped
<1>7. \A n \in c.snap.todo : status[n] # "formally_verified"
  BY <1>6 DEF IsOpen
<1>8. Alone => Cert(c)'
  BY <1>1, <1>2, <1>6, <1>7 DEF Cert, Gated, Still
<1>9. QED
  BY <1>1, <1>5, <1>6, <1>8, Quiet DEF Still

LEMMA SkipStep ==
  ASSUME IInv, NEW a \in Agent, NEW n \in Node, Skip(a, n)
  PROVE  IInv'
<1>1. a \in setting.agents /\ agent[a].mem.at = "route" /\ Still
  BY DEF Skip, At, db, Still
<1>2. Shaped(agent[a]) /\ (Alone => Cert(agent[a]))
  BY <1>1, Now
<1>3. PICK c : c = [agent[a] EXCEPT !.snap.todo = @ \ {n}]
  OBVIOUS
<1>4. agent' = [agent EXCEPT ![a] = c]
  BY <1>3 DEF Skip
<1>5. /\ Shaped(c) /\ c.mem = agent[a].mem /\ c.work = agent[a].work
      /\ c.snap.todo = agent[a].snap.todo \ {n} /\ c.snap.formal = agent[a].snap.formal
  BY <1>2, <1>3 DEF Shaped
<1>6. Alone => Cert(c)'
  BY <1>1, <1>2, <1>5 DEF Cert, Gated, Still
<1>7. QED
  BY <1>1, <1>4, <1>5, <1>6, Quiet DEF Still

\* The node taken up is one of the pass, so it is not certified.
LEMMA ChooseStep ==
  ASSUME IInv, NEW a \in Agent, NEW n \in Node, Choose(a, n)
  PROVE  IInv'
<1>1. a \in setting.agents /\ agent[a].mem.at = "route" /\ Still /\ n \in agent[a].snap.todo
  BY DEF Choose, At, db, Still, NextNodes
<1>2. Shaped(agent[a]) /\ (Alone => Cert(agent[a]))
  BY <1>1, Now
<1>3. PICK route : route = RouteOf(n, attempts[n], agent[a].mem, agent[a].snap)
  OBVIOUS
<1>4. PICK seen : seen = Observed(agent[a].mem, setting.title[n], route)
  OBVIOUS
<1>5. PICK at : at = IF seen >= LoopThreshold THEN "block" ELSE route
  OBVIOUS
<1>6. PICK w : w = [NoWork EXCEPT !.node = {n}, !.route = route]
  OBVIOUS
<1>m. PICK m : m = [agent[a].mem EXCEPT !.at = at, !.seen[setting.title[n]][route] = seen]
  OBVIOUS
<1>7. PICK c : c = [agent[a] EXCEPT !.mem = m, !.work = w]
  OBVIOUS
<1>8. agent' = [agent EXCEPT ![a] = c]
  <2>1. agent' = [agent EXCEPT ![a].mem = [@ EXCEPT !.at = at, !.seen[setting.title[n]][route] = seen],
                               ![a].work = w]
    BY <1>3, <1>4, <1>5, <1>6 DEF Choose
  <2>2. agent' = [agent EXCEPT ![a].mem = m, ![a].work = w]
    BY <1>m, <2>1
  <2>3. QED
    BY <1>7, <2>2
<1>9. at \in Route \cup {"block"}
  BY <1>3, <1>5, RouteInRoute
<1>10. w.node = {n} /\ w.streak = 0 /\ w.accepted = FALSE
       /\ w = [node |-> w.node, route |-> w.route, text |-> w.text, accepted |-> w.accepted,
               streak |-> w.streak, rounds |-> w.rounds, child |-> w.child]
  BY <1>6 DEF NoWork
<1>f. /\ m.at = at /\ m.certified = agent[a].mem.certified
      /\ m = [at |-> m.at, pass |-> m.pass, certified |-> m.certified,
              falsified |-> m.falsified, refuted |-> m.refuted,
              decomposed |-> m.decomposed, seen |-> m.seen]
  BY <1>2, <1>m DEF Shaped
<1>11. /\ c = [mem |-> m, snap |-> agent[a].snap, work |-> w]
       /\ c.mem = m /\ c.work = w /\ c.snap = agent[a].snap
  BY <1>2, <1>7 DEF Shaped
<1>12. Shaped(c)
  BY <1>2, <1>10, <1>11, <1>f DEF Shaped
<1>13. Alone => Cert(c)'
  BY <1>1, <1>2, <1>9, <1>10, <1>11, <1>f DEF Cert, Gated, Route, Still
<1>14. QED
  BY <1>1, <1>8, <1>9, <1>11, <1>12, <1>13, <1>f, Quiet DEF Still, Route

\* Tools that answer, and steps within the work on a node.
LEMMA ToolSteps ==
  ASSUME IInv, NEW a \in Agent, NEW n \in Node,
         Escalate(a, n) \/ Falsify(a, n) \/ Retrieve(a, n) \/ Decompose(a, n)
  PROVE  IInv'
<1>1. /\ a \in setting.agents /\ Still
      /\ agent[a].mem.at \in {"escalate", "falsify", "retrieve", "decompose"}
  BY DEF Escalate, Falsify, Retrieve, Decompose, Working, At, db, KeepGraph, Still
<1>2. Shaped(agent[a]) /\ (Alone => Cert(agent[a]))
  BY <1>1, Now
<1>3. \/ \E outcome : agent' = [agent EXCEPT ![a] = Finish(@, outcome)]
      \/ agent' = [agent EXCEPT ![a] = Remember(@, n)]
      \/ agent' = [agent EXCEPT ![a].mem.at = "child"]
      \/ agent' = [agent EXCEPT ![a] = FinishFalsify(@, n)]
  BY DEF Escalate, Falsify, Retrieve, Decompose
<1>4. CASE \E outcome : agent' = [agent EXCEPT ![a] = Finish(@, outcome)]
  BY <1>1, <1>4, FinishQuiet
<1>5. CASE agent' = [agent EXCEPT ![a].mem.at = "child"]
  <2>1. PICK c : c = [agent[a] EXCEPT !.mem.at = "child"]
    OBVIOUS
  <2>2. /\ Shaped(c) /\ c.mem.at = "child" /\ c.mem.certified = agent[a].mem.certified
        /\ c.snap = agent[a].snap /\ c.work = agent[a].work
    BY <1>2, <2>1 DEF Shaped
  <2>3. agent' = [agent EXCEPT ![a] = c]
    BY <1>5, <2>1
  <2>4. QED
    BY <1>1, <2>2, <2>3, OnwardQuiet DEF Gated
<1>6. CASE agent' = [agent EXCEPT ![a] = FinishFalsify(@, n)]
  <2>1. PICK c : c = FinishFalsify(agent[a], n)
    OBVIOUS
  <2>2. Ended(agent[a], c) /\ c.mem.certified = agent[a].mem.certified
    BY <1>2, <2>1, FinishVariants
  <2>3. Alone => Cert(c)'
    BY <1>1, <1>2, <2>2, Shrink DEF Still, Ended
  <2>4. agent' = [agent EXCEPT ![a] = c]
    BY <1>6, <2>1
  <2>5. QED
    BY <1>1, <2>2, <2>3, <2>4, Quiet DEF Still, Ended
<1>7. CASE agent' = [agent EXCEPT ![a] = Remember(@, n)]
  <2>1. PICK c : c = Remember(agent[a], n)
    OBVIOUS
  <2>2. /\ Shaped(c) /\ c.mem.at = "refute" /\ c.mem.certified = agent[a].mem.certified
        /\ c.snap = agent[a].snap /\ c.work = agent[a].work
    BY <1>2, <2>1, RememberFields
  <2>3. agent' = [agent EXCEPT ![a] = c]
    BY <1>7, <2>1
  <2>4. QED
    BY <1>1, <2>2, <2>3, OnwardQuiet DEF Gated
<1>8. QED
  BY <1>3, <1>4, <1>5, <1>6, <1>7

\* An accepted source is a proof, unless one round is not enough to tell.
LEMMA Accepted ==
  ASSUME NEW text, NEW streak \in Nat, NEW clean \in RoundOutcome(text, streak), clean
  PROVE  text = "proof" \/ streak + 1 < K
BY DEF RoundOutcome

LEMMA SourceSteps ==
  ASSUME IInv, NEW a \in Agent, NEW n \in Node, Formalize(a, n) \/ Prove(a, n)
  PROVE  IInv'
<1>1. /\ a \in setting.agents /\ agent[a].mem.at \in {"formalize", "prove"} /\ Still
  BY DEF Formalize, Prove, Working, At, KeepGraph, Still
<1>2. Shaped(agent[a])
  BY <1>1, Now
<1>3. \/ \E outcome : agent' = [agent EXCEPT ![a] = Finish(@, outcome)]
      \/ \E text \in Text : \E accepted \in RoundOutcome(text, 0) :
           agent' = [agent EXCEPT ![a].mem.at = "store",
                       ![a].work.text = text, ![a].work.accepted = accepted]
  BY DEF Formalize, Prove
<1>4. CASE \E outcome : agent' = [agent EXCEPT ![a] = Finish(@, outcome)]
  BY <1>1, <1>4, FinishQuiet
<1>5. ASSUME NEW text \in Text, NEW accepted \in RoundOutcome(text, 0),
             agent' = [agent EXCEPT ![a].mem.at = "store",
                         ![a].work.text = text, ![a].work.accepted = accepted]
      PROVE  IInv'
  <2>1. PICK c : c = [agent[a] EXCEPT !.mem.at = "store",
                                      !.work.text = text, !.work.accepted = accepted]
    OBVIOUS
  <2>2. /\ Shaped(c) /\ c.mem.at = "store" /\ c.mem.certified = agent[a].mem.certified
        /\ c.snap = agent[a].snap /\ c.work.node = agent[a].work.node
        /\ c.work.streak = agent[a].work.streak
        /\ c.work.text = text /\ c.work.accepted = accepted
    BY <1>2, <2>1 DEF Shaped
  <2>3. accepted => text = "proof" \/ 1 < K
    <3>1. accepted => text = "proof" \/ 0 + 1 < K
      BY Accepted
    <3>2. QED
      BY <3>1, AgentAssumption
  <2>4. agent' = [agent EXCEPT ![a] = c]
    BY <1>5, <2>1
  <2>5. QED
    BY <1>1, <2>2, <2>3, <2>4, OnwardQuiet DEF Gated
<1>6. QED
  BY <1>3, <1>4, <1>5

----------------------------------------------------------------------------
(* The steps that write the graph. *)

\* A node that was not certified is blocked, or rejected, and left alone.
LEMMA Downgrade ==
  ASSUME IInv, NEW a \in setting.agents, NEW n \in Node,
         NEW st \in {"blocked", "rejected"}, Graph!SetNodeStatus(n, st),
         UNCHANGED <<formal, run, setting>>,
         NEW c, agent' = [agent EXCEPT ![a] = c], Shaped(c),
         c.mem.at = "route", c.mem.certified = agent[a].mem.certified,
         c.snap.formal = agent[a].snap.formal, c.snap.todo = agent[a].snap.todo \ {n},
         agent[a].mem.at # "stopped", agent[a].mem.at # "harden",
         Alone => /\ c.work.node = {} /\ c.work.streak = 0
                  /\ agent[a].work.node \subseteq {n} /\ n \in agent[a].snap.todo
  PROVE  IInv'
<1>1. /\ Store!IInv' /\ nodes' = nodes /\ n \in nodes /\ status'[n] = st
      /\ \A m \in Node \ {n} : status'[m] = status[m]
  BY SetStatus DEF IInv, NodeStatus
<1>2. Shaped(agent[a]) /\ (Alone => Cert(agent[a])) /\ nodes \subseteq Node
  BY Now, Columns DEF IInv
<1>3. ASSUME Alone PROVE status[n] # "formally_verified"
  BY <1>2, <1>3 DEF Cert
<1>4. ASSUME Alone PROVE Cert(c)'
  BY <1>1, <1>2, <1>4, Shrink DEF Shaped
<1>5. Alone => Genuine'
  BY <1>1, <1>2 DEF IInv, Genuine
<1>6. ASSUME Alone, Undisturbed PROVE Tally(c, run[a])'
  <2>1. Verified' = Verified
    BY <1>1, <1>2, <1>3, <1>6 DEF Verified
  <2>2. QED
    BY <1>6, <2>1, Now DEF Tally
<1>7. run' = [run EXCEPT ![a] = run[a]] /\ run[a] \in {"running", "made_progress", "no_certificate"}
  BY Now DEF IInv
<1>8. formal' = [m \in Node |-> formal'[m]]
  BY DEF IInv
<1>9. QED
  BY <1>1, <1>4, <1>5, <1>6, <1>7, <1>8, Move

LEMMA ScreenStep ==
  ASSUME IInv, NEW a \in Agent, NEW n \in Node, Screen(a, n)
  PROVE  IInv'
<1>1. /\ a \in setting.agents /\ agent[a].mem.at = "route" /\ n \in agent[a].snap.todo
      /\ Graph!SetNodeStatus(n, "blocked") /\ UNCHANGED <<formal, run, setting>>
  BY DEF Screen, At, NextNodes, KeepRows
<1>2. Shaped(agent[a]) /\ (Alone => Cert(agent[a]))
  BY <1>1, Now
<1>3. PICK c : c = [agent[a] EXCEPT !.snap.todo = @ \ {n}]
  OBVIOUS
<1>4. agent' = [agent EXCEPT ![a] = c]
  BY <1>3 DEF Screen
<1>5. /\ Shaped(c) /\ c.mem = agent[a].mem /\ c.work = agent[a].work
      /\ c.snap.todo = agent[a].snap.todo \ {n} /\ c.snap.formal = agent[a].snap.formal
  BY <1>2, <1>3 DEF Shaped
<1>6. ASSUME Alone
      PROVE  /\ c.work.node = {} /\ c.work.streak = 0
             /\ agent[a].work.node \subseteq {n} /\ n \in agent[a].snap.todo
  BY <1>1, <1>2, <1>5, <1>6 DEF Cert, Gated
<1>7. c.mem.at = "route" /\ c.mem.certified = agent[a].mem.certified
  BY <1>1, <1>5
<1>8. "route" # "stopped" /\ "route" # "harden"
  OBVIOUS
<1>9. QED
  BY <1>1, <1>4, <1>5, <1>6, <1>7, <1>8, Downgrade

LEMMA BlockStep ==
  ASSUME IInv, NEW a \in Agent, NEW n \in Node, Block(a, n)
  PROVE  IInv'
<1>1. /\ a \in setting.agents /\ agent[a].mem.at = "block" /\ agent[a].work.node = {n}
      /\ Graph!SetNodeStatus(n, "blocked") /\ UNCHANGED <<formal, run, setting>>
  BY DEF Block, Working, At, KeepRows
<1>2. Shaped(agent[a]) /\ (Alone => Cert(agent[a]))
  BY <1>1, Now
<1>3. PICK c : c = Finish(agent[a], "noop")
  OBVIOUS
<1>4. agent' = [agent EXCEPT ![a] = c]
  BY <1>3 DEF Block
<1>5. Ended(agent[a], c) /\ c.mem.certified = agent[a].mem.certified
  BY <1>2, <1>3, FinishFields
<1>6. /\ Shaped(c) /\ c.mem.at = "route" /\ c.snap.formal = agent[a].snap.formal
      /\ c.snap.todo = agent[a].snap.todo \ {n} /\ c.work.node = {} /\ c.work.streak = 0
  BY <1>1, <1>5 DEF Ended
<1>7. Alone => agent[a].work.node \subseteq {n} /\ n \in agent[a].snap.todo
  BY <1>1, <1>2 DEF Cert
<1>8. agent[a].mem.at # "stopped" /\ agent[a].mem.at # "harden"
  BY <1>1
<1>9. QED
  BY <1>1, <1>4, <1>5, <1>6, <1>7, <1>8, Downgrade

LEMMA RefuteStep ==
  ASSUME IInv, NEW a \in Agent, NEW n \in Node, Refute(a, n)
  PROVE  IInv'
<1>1. /\ a \in setting.agents /\ agent[a].mem.at = "refute" /\ agent[a].work.node = {n}
      /\ Graph!SetNodeStatus(n, "rejected") /\ UNCHANGED <<formal, run, setting>>
  BY DEF Refute, Working, At, KeepRows
<1>2. Shaped(agent[a]) /\ (Alone => Cert(agent[a]))
  BY <1>1, Now
<1>3. PICK c : c = FinishFalsify(agent[a], n)
  OBVIOUS
<1>4. agent' = [agent EXCEPT ![a] = c]
  BY <1>3 DEF Refute
<1>5. Ended(agent[a], c) /\ c.mem.certified = agent[a].mem.certified
  BY <1>2, <1>3, FinishVariants
<1>6. /\ Shaped(c) /\ c.mem.at = "route" /\ c.snap.formal = agent[a].snap.formal
      /\ c.snap.todo = agent[a].snap.todo \ {n} /\ c.work.node = {} /\ c.work.streak = 0
  BY <1>1, <1>5 DEF Ended
<1>7. Alone => agent[a].work.node \subseteq {n} /\ n \in agent[a].snap.todo
  BY <1>1, <1>2 DEF Cert
<1>8. agent[a].mem.at # "stopped" /\ agent[a].mem.at # "harden"
  BY <1>1
<1>9. QED
  BY <1>1, <1>4, <1>5, <1>6, <1>7, <1>8, Downgrade

\* A node of a decomposition, or its edge: no status changes.
LEMMA Grow ==
  ASSUME IInv, NEW a \in setting.agents, NEW c,
         agent' = [agent EXCEPT ![a] = c], Shaped(c),
         Store!IInv', nodes \subseteq nodes', status' = status,
         UNCHANGED <<formal, run, setting>>,
         c.mem.certified = agent[a].mem.certified,
         agent[a].mem.at # "stopped", c.mem.at \notin {"harden", "done"},
         Alone => Cert(c)'
  PROVE  IInv'
<1>1. /\ nodes \subseteq Node /\ nodes' \subseteq Node
      /\ \A n \in Node \ nodes : status[n] = "proposed"
  <2>1. nodes \subseteq Node /\ \A n \in Node \ nodes : status[n] = "proposed"
    BY Columns DEF IInv
  <2>2. nodes' \subseteq Node
    BY DEF Store!IInv, Store!TypeOK
  <2>3. QED
    BY <2>1, <2>2
<1>2. Verified' = Verified
  BY <1>1 DEF Verified
<1>3. Alone => Genuine'
  BY <1>1 DEF IInv, Genuine
<1>4. Alone /\ Undisturbed => Tally(c, run[a])'
  BY <1>2, Now DEF Tally
<1>5. run' = [run EXCEPT ![a] = run[a]] /\ run[a] \in {"running", "made_progress", "no_certificate"}
  BY Now DEF IInv
<1>6. formal' = [n \in Node |-> formal'[n]]
  BY DEF IInv
<1>7. QED
  BY <1>3, <1>4, <1>5, <1>6, Move

LEMMA AddChildStep ==
  ASSUME IInv, NEW a \in Agent, NEW child \in Node, AddChild(a, child)
  PROVE  IInv'
<1>1. /\ a \in setting.agents /\ agent[a].mem.at = "child"
      /\ UNCHANGED <<formal, run, setting>>
      /\ Store!IInv' /\ nodes' = nodes \cup {child} /\ status' = status
  BY NewNode DEF AddChild, At, KeepRows, IInv
<1>2. Shaped(agent[a]) /\ (Alone => Cert(agent[a]))
  BY <1>1, Now
<1>3. PICK c : c = [agent[a] EXCEPT !.mem.at = "link", !.work.child = {child}]
  OBVIOUS
<1>4. agent' = [agent EXCEPT ![a] = c]
  BY <1>3 DEF AddChild
<1>5. /\ Shaped(c) /\ c.mem.at = "link" /\ c.mem.certified = agent[a].mem.certified
      /\ c.snap = agent[a].snap /\ c.work.node = agent[a].work.node
      /\ c.work.streak = agent[a].work.streak
  BY <1>2, <1>3 DEF Shaped
<1>6. Alone => Cert(c)'
  BY <1>1, <1>2, <1>5, Onward DEF Gated
<1>7. QED
  BY <1>1, <1>4, <1>5, <1>6, Grow

LEMMA LinkChildStep ==
  ASSUME IInv, NEW a \in Agent, NEW n \in Node, NEW child \in Node, LinkChild(a, n, child)
  PROVE  IInv'
<1>1. /\ a \in setting.agents /\ agent[a].mem.at = "link"
      /\ UNCHANGED <<formal, run, setting>>
      /\ Store!IInv' /\ nodes' = nodes /\ status' = status
  BY NewEdge DEF LinkChild, Working, At, KeepRows, IInv
<1>2. Shaped(agent[a]) /\ (Alone => Cert(agent[a]))
  BY <1>1, Now
<1>3. CASE agent' = [agent EXCEPT ![a].mem.at = "child", ![a].work.child = {}]
  <2>1. PICK c : c = [agent[a] EXCEPT !.mem.at = "child", !.work.child = {}]
    OBVIOUS
  <2>2. agent' = [agent EXCEPT ![a] = c]
    BY <1>3, <2>1
  <2>3. /\ Shaped(c) /\ c.mem.at = "child" /\ c.mem.certified = agent[a].mem.certified
        /\ c.snap = agent[a].snap /\ c.work.node = agent[a].work.node
        /\ c.work.streak = agent[a].work.streak
    BY <1>2, <2>1 DEF Shaped
  <2>4. Alone => Cert(c)'
    BY <1>1, <1>2, <2>3, Onward DEF Gated
  <2>5. QED
    BY <1>1, <2>2, <2>3, <2>4, Grow
<1>4. CASE agent' = [agent EXCEPT ![a] = FinishDecompose(@, n)]
  <2>1. PICK c : c = FinishDecompose(agent[a], n)
    OBVIOUS
  <2>2. agent' = [agent EXCEPT ![a] = c]
    BY <1>4, <2>1
  <2>3. Ended(agent[a], c) /\ c.mem.certified = agent[a].mem.certified
    BY <1>2, <2>1, FinishVariants
  <2>4. Alone => Cert(c)'
    BY <1>1, <1>2, <2>3, Shrink DEF Ended
  <2>5. QED
    BY <1>1, <2>2, <2>3, <2>4, Grow DEF Ended
<1>5. QED
  BY <1>3, <1>4 DEF LinkChild

\* The stored source is the one in hand, and its node is not certified.
LEMMA StoreStep ==
  ASSUME IInv, NEW a \in Agent, NEW n \in Node, StoreFormal(a, n)
  PROVE  IInv'
<1>1. /\ a \in setting.agents /\ agent[a].mem.at = "store" /\ agent[a].work.node = {n}
      /\ formal' = [formal EXCEPT ![n] = agent[a].work.text]
      /\ UNCHANGED <<nodes, status, taint, edges, run, setting>>
  BY DEF StoreFormal, Working, At, KeepGraph
<1>2. Shaped(agent[a]) /\ (Alone => Cert(agent[a])) /\ nodes \subseteq Node
      /\ formal = [m \in Node |-> formal[m]]
  BY <1>1, Now, Columns DEF IInv
<1>3. /\ formal'[n] = agent[a].work.text /\ \A m \in Node \ {n} : formal'[m] = formal[m]
      /\ formal' = [m \in Node |-> formal'[m]]
  BY <1>1, <1>2
<1>4. PICK c : c = IF agent[a].work.accepted THEN [agent[a] EXCEPT !.mem.at = "gate"]
                   ELSE Finish(agent[a], "formalize")
  OBVIOUS
<1>5. agent' = [agent EXCEPT ![a] = c]
  BY <1>4 DEF StoreFormal
<1>6. Store!IInv'
  BY <1>1, StoreNext DEF IInv
<1>7. Alone => Genuine'
  BY <1>1, <1>2, <1>3 DEF IInv, Genuine, Cert
<1>8. /\ Shaped(c) /\ c.mem.certified = agent[a].mem.certified
      /\ c.mem.at \notin {"harden", "done"} /\ (Alone => Cert(c)')
  <2>1. CASE agent[a].work.accepted
    <3>1. /\ Shaped(c) /\ c.mem.at = "gate" /\ c.mem.certified = agent[a].mem.certified
          /\ c.snap = agent[a].snap /\ c.work = agent[a].work
      BY <1>2, <1>4, <2>1 DEF Shaped
    <3>2. ASSUME Alone PROVE c.work.text # "proof" => c.work.streak < K
      <4>1. c.work.streak = 0 /\ (c.work.text = "proof" \/ 1 < K)
        BY <1>1, <1>2, <2>1, <3>1, <3>2 DEF Cert, Gated
      <4>2. QED
        BY <4>1, AgentAssumption
    <3>3. Alone => Cert(c)'
      BY <1>1, <1>2, <1>3, <3>1, <3>2 DEF Cert, Gated, Shaped
    <3>4. QED
      BY <3>1, <3>3
  <2>2. CASE ~ agent[a].work.accepted
    <3>1. c = Finish(agent[a], "formalize")
      BY <1>4, <2>2
    <3>2. Ended(agent[a], c) /\ c.mem.certified = agent[a].mem.certified
      BY <1>2, <3>1, FinishFields
    <3>3. Alone => Cert(c)'
      BY <1>1, <1>2, <1>3, <3>2, Shrink DEF Ended, Shaped
    <3>4. QED
      BY <3>2, <3>3 DEF Ended
  <2>3. QED
    BY <2>1, <2>2
<1>9. Alone /\ Undisturbed => Tally(c, run[a])'
  <2>1. Verified' = Verified
    BY <1>1 DEF Verified
  <2>2. QED
    BY <1>1, <1>8, <2>1, Now DEF Tally
<1>10. run' = [run EXCEPT ![a] = run[a]] /\ run[a] \in {"running", "made_progress", "no_certificate"}
  BY <1>1, Now DEF IInv
<1>11. a \in setting.agents /\ setting' = setting /\ run'[a] = run[a]
  BY <1>1
<1>12. formal' = [m \in Node |-> formal'[m]] /\ Shaped(c)
  BY <1>3, <1>8
<1>13. Alone => Genuine' /\ Cert(c)'
  BY <1>7, <1>8
<1>14. QED
  BY <1>5, <1>6, <1>9, <1>10, <1>11, <1>12, <1>13, Move

\* The source of the pass's copy is the stored one.
LEMMA VerifyStep ==
  ASSUME IInv, NEW a \in Agent, NEW n \in Node, Verify(a, n)
  PROVE  IInv'
<1>1. /\ a \in setting.agents /\ agent[a].mem.at = "verify" /\ agent[a].work.node = {n} /\ Still
  BY DEF Verify, Working, At, db, Still
<1>2. Shaped(agent[a]) /\ (Alone => Cert(agent[a]))
  BY <1>1, Now
<1>3. PICK text : text = agent[a].snap.formal[n]
  OBVIOUS
<1>4. PICK clean \in RoundOutcome(text, 0) :
        agent' = [agent EXCEPT ![a] =
             IF clean THEN [@ EXCEPT !.mem.at = "gate", !.work.text = text]
             ELSE Finish(@, "verify")]
  BY <1>3 DEF Verify
<1>5. CASE clean
  <2>1. PICK c : c = [agent[a] EXCEPT !.mem.at = "gate", !.work.text = text]
    OBVIOUS
  <2>2. agent' = [agent EXCEPT ![a] = c]
    BY <1>4, <1>5, <2>1
  <2>3. /\ Shaped(c) /\ c.mem.at = "gate" /\ c.mem.certified = agent[a].mem.certified
        /\ c.snap = agent[a].snap /\ c.work.node = {n} /\ c.work.text = text
        /\ c.work.streak = agent[a].work.streak
    BY <1>1, <1>2, <2>1 DEF Shaped
  <2>4. text = "proof" \/ 1 < K
    <3>1. text = "proof" \/ 0 + 1 < K
      BY <1>5, Accepted
    <3>2. QED
      BY <3>1, AgentAssumption
  <2>5. ASSUME Alone
        PROVE  c.work.streak = 0 /\ n \in agent[a].snap.todo /\ formal[n] = text
               /\ (text # "proof" => c.work.streak < K)
    <3>1. c.work.streak = 0 /\ n \in agent[a].snap.todo /\ formal[n] = text
      BY <1>1, <1>2, <1>3, <2>3, <2>5 DEF Cert, Gated
    <3>2. QED
      BY <2>4, <3>1, AgentAssumption
  <2>6. Alone => Cert(c)'
    BY <1>1, <1>2, <2>3, <2>5 DEF Cert, Gated, Still
  <2>7. QED
    BY <1>1, <2>2, <2>3, <2>6, Quiet DEF Still
<1>6. CASE ~ clean
  <2>1. agent' = [agent EXCEPT ![a] = Finish(@, "verify")]
    BY <1>4, <1>6
  <2>2. QED
    BY <1>1, <2>1, FinishQuiet
<1>7. QED
  BY <1>5, <1>6

----------------------------------------------------------------------------
(* The gate, the certificate, and the battery. *)

\* A source that is not a proof never has K clean rounds in a row.
LEMMA GateRoundStep ==
  ASSUME IInv, NEW a \in Agent, GateRound(a)
  PROVE  IInv'
<1>1. a \in setting.agents /\ agent[a].mem.at = "gate" /\ Still /\ agent[a].work.streak < K
  BY DEF GateRound, At, db, Still
<1>2. Shaped(agent[a]) /\ (Alone => Cert(agent[a]))
  BY <1>1, Now
<1>3. PICK text : text = agent[a].work.text
  OBVIOUS
<1>4. PICK streak : streak = agent[a].work.streak
  OBVIOUS
<1>5. streak \in Nat /\ streak < K
  BY <1>1, <1>2, <1>4 DEF Shaped
<1>6. PICK clean \in RoundOutcome(text, streak) :
        agent' = [agent EXCEPT ![a].work.rounds = @ + 1,
                               ![a].work.streak = IF clean THEN @ + 1 ELSE 0]
  BY <1>3, <1>4 DEF GateRound
<1>7. PICK k : k = IF clean THEN streak + 1 ELSE 0
  OBVIOUS
<1>8. k \in Nat /\ (text # "proof" => k < K)
  <2>1. CASE clean
    <3>1. text = "proof" \/ streak + 1 < K
      BY <1>5, <2>1, Accepted
    <3>2. QED
      BY <1>5, <1>7, <2>1, <3>1
  <2>2. CASE ~ clean
    BY <1>5, <1>7, <2>2, AgentAssumption
  <2>3. QED
    BY <2>1, <2>2
<1>r. PICK rounds : rounds = agent[a].work.rounds + 1
  OBVIOUS
<1>9. PICK c : c = [agent[a] EXCEPT !.work.rounds = rounds, !.work.streak = k]
  OBVIOUS
<1>10. agent' = [agent EXCEPT ![a] = c]
  <2>1. agent' = [agent EXCEPT ![a].work.rounds = rounds, ![a].work.streak = k]
    <3>1. CASE clean
      BY <1>4, <1>6, <1>7, <1>r, <3>1
    <3>2. CASE ~ clean
      BY <1>4, <1>6, <1>7, <1>r, <3>2
    <3>3. QED
      BY <3>1, <3>2
  <2>2. QED
    BY <1>9, <2>1
<1>11. /\ Shaped(c) /\ c.mem = agent[a].mem /\ c.snap = agent[a].snap
       /\ c.work.node = agent[a].work.node /\ c.work.text = text /\ c.work.streak = k
  BY <1>2, <1>3, <1>8, <1>9 DEF Shaped
<1>12. Alone => Cert(c)'
  BY <1>1, <1>2, <1>3, <1>8, <1>11 DEF Cert, Gated, Still
<1>13. QED
  BY <1>1, <1>10, <1>11, <1>12, Quiet DEF Still

\* So after K clean rounds in a row the source is a proof.
LEMMA GateEndStep ==
  ASSUME IInv, NEW a \in Agent, GateEnd(a)
  PROVE  IInv'
<1>1. a \in setting.agents /\ agent[a].mem.at = "gate" /\ Still
  BY DEF GateEnd, At, db, Still
<1>2. Shaped(agent[a]) /\ (Alone => Cert(agent[a]))
  BY <1>1, Now
<1>3. CASE agent' = [agent EXCEPT ![a] = Finish(@, "verify")]
  BY <1>1, <1>3, FinishQuiet
<1>4. ASSUME agent[a].work.streak >= K, agent' = [agent EXCEPT ![a].mem.at = "certify"]
      PROVE  IInv'
  <2>1. PICK c : c = [agent[a] EXCEPT !.mem.at = "certify"]
    OBVIOUS
  <2>2. agent' = [agent EXCEPT ![a] = c]
    BY <1>4, <2>1
  <2>3. /\ Shaped(c) /\ c.mem.at = "certify" /\ c.mem.certified = agent[a].mem.certified
        /\ c.snap = agent[a].snap /\ c.work = agent[a].work
    BY <1>2, <2>1 DEF Shaped
  <2>4. ~ (agent[a].work.streak < K)
    BY <1>2, <1>4, AgentAssumption DEF Shaped
  <2>5. Alone => Cert(c)'
    BY <1>1, <1>2, <2>3, <2>4 DEF Cert, Gated, Still
  <2>6. QED
    BY <1>1, <2>2, <2>3, <2>5, Quiet DEF Still
<1>5. QED
  BY <1>3, <1>4 DEF GateEnd

\* A node of the pass becomes certified, and is counted once.
LEMMA CertifyStep ==
  ASSUME IInv, NEW a \in Agent, NEW n \in Node, Certify(a, n)
  PROVE  IInv'
<1>1. /\ a \in setting.agents /\ agent[a].mem.at = "certify" /\ agent[a].work.node = {n}
      /\ Graph!SetNodeStatus(n, "formally_verified") /\ UNCHANGED <<formal, run, setting>>
  BY DEF Certify, Working, At, KeepRows
<1>2. Shaped(agent[a]) /\ (Alone => Cert(agent[a])) /\ nodes \subseteq Node
  BY <1>1, Now, Columns DEF IInv
<1>3. /\ Store!IInv' /\ nodes' = nodes /\ n \in nodes /\ status'[n] = "formally_verified"
      /\ \A m \in Node \ {n} : status'[m] = status[m]
  BY <1>1, SetStatus DEF IInv, NodeStatus
<1>4. PICK d : d = Counted(agent[a])
  OBVIOUS
<1>5. /\ Shaped(d) /\ d.mem.certified = agent[a].mem.certified + 1
      /\ d.snap = agent[a].snap /\ d.work = agent[a].work
  BY <1>2, <1>4 DEF Shaped, Counted
<1>6. PICK c : c = IF Harden THEN [d EXCEPT !.mem.at = "harden"] ELSE Finish(d, "verify")
  OBVIOUS
<1>7. agent' = [agent EXCEPT ![a] = c]
  BY <1>4, <1>6 DEF Certify
<1>8. ASSUME Alone
      PROVE  /\ n \in agent[a].snap.todo /\ formal[n] = "proof"
             /\ status[n] # "formally_verified"
  BY <1>1, <1>2, <1>8 DEF Cert, Gated
<1>9. /\ Shaped(c) /\ c.mem.certified = agent[a].mem.certified + 1
      /\ c.mem.at \in {"harden", "route"} /\ (c.mem.at = "harden" => c.work.node = {n})
      /\ (Alone => Cert(c)')
  <2>1. CASE Harden
    <3>1. /\ Shaped(c) /\ c.mem.at = "harden" /\ c.mem.certified = d.mem.certified
          /\ c.snap = d.snap /\ c.work = d.work
      BY <1>5, <1>6, <2>1 DEF Shaped
    <3>2. Alone => Cert(c)'
      BY <1>1, <1>2, <1>3, <1>5, <3>1 DEF Cert, Gated, Shaped
    <3>3. QED
      BY <1>1, <1>5, <3>1, <3>2
  <2>2. CASE ~ Harden
    <3>1. c = Finish(d, "verify")
      BY <1>6, <2>2
    <3>2. Ended(d, c) /\ c.mem.certified = d.mem.certified
      BY <1>5, <3>1, FinishFields
    <3>3. /\ c.mem.at = "route" /\ c.work.node = {} /\ c.work.streak = 0
          /\ c.snap.formal = agent[a].snap.formal
          /\ c.snap.todo = agent[a].snap.todo \ agent[a].work.node
      BY <1>5, <3>2 DEF Ended
    <3>4. \A m \in c.snap.todo : status'[m] = status[m] /\ formal'[m] = formal[m]
      BY <1>1, <1>2, <1>3, <3>3 DEF Shaped
    <3>5. Alone => Cert(c)'
      BY <1>2, <3>3, <3>4, Shrink
    <3>6. QED
      BY <1>5, <3>2, <3>5 DEF Ended
  <2>3. QED
    BY <2>1, <2>2
<1>10. Alone => Genuine'
  BY <1>1, <1>2, <1>3, <1>8 DEF IInv, Genuine
<1>11. ASSUME Alone, Undisturbed PROVE Tally(c, run[a])'
  <2>1. Tally(agent[a], run[a])
    BY <1>1, <1>11, Now
  <2>2. Verified' = Verified \cup {n} /\ n \notin Verified
    BY <1>2, <1>3, <1>8, <1>11 DEF Verified
  <2>3. IsFiniteSet(Verified) /\ agent[a].mem.certified = Cardinality(Verified)
    BY <1>1, <2>1 DEF Tally
  <2>4. IsFiniteSet(Verified') /\ Cardinality(Verified') = Cardinality(Verified) + 1
    BY <2>2, <2>3, FS_AddElement
  <2>5. QED
    BY <1>1, <1>3, <1>9, <2>3, <2>4 DEF Tally
<1>12. run' = [run EXCEPT ![a] = run[a]] /\ run[a] \in {"running", "made_progress", "no_certificate"}
  BY <1>1, Now DEF IInv
<1>13. formal' = [m \in Node |-> formal'[m]]
  BY <1>1 DEF IInv
<1>14. QED
  BY <1>1, <1>3, <1>7, <1>9, <1>10, <1>11, <1>12, <1>13, Move

\* A flagged proof leaves the graph and the count together.
LEMMA HardenStep ==
  ASSUME IInv, NEW a \in Agent, NEW n \in Node, HardenProof(a, n)
  PROVE  IInv'
<1>1. /\ a \in setting.agents /\ agent[a].mem.at = "harden" /\ agent[a].work.node = {n}
      /\ UNCHANGED <<formal, run, setting>>
  BY DEF HardenProof, Working, At, KeepRows
<1>2. Shaped(agent[a]) /\ (Alone => Cert(agent[a])) /\ nodes \subseteq Node
  BY <1>1, Now, Columns DEF IInv
<1>3. CASE KeepGraph /\ agent' = [agent EXCEPT ![a] = Finish(@, "verify")]
  BY <1>1, <1>3, FinishQuiet DEF KeepGraph, Still
<1>4. ASSUME Graph!SetNodeStatus(n, "rejected"),
             agent' = [agent EXCEPT ![a] = FinishFlagged(@)]
      PROVE  IInv'
  <2>1. /\ Store!IInv' /\ nodes' = nodes /\ n \in nodes /\ status'[n] = "rejected"
        /\ \A m \in Node \ {n} : status'[m] = status[m]
    BY <1>4, SetStatus DEF IInv, NodeStatus
  <2>2. PICK c : c = FinishFlagged(agent[a])
    OBVIOUS
  <2>3. agent' = [agent EXCEPT ![a] = c]
    BY <1>4, <2>2
  <2>4. /\ Ended(agent[a], c)
        /\ c.mem.certified =
             IF agent[a].mem.certified > 0 THEN agent[a].mem.certified - 1 ELSE 0
    BY <1>2, <2>2, FinishVariants
  <2>5. \A m \in c.snap.todo : status'[m] = status[m] /\ formal'[m] = formal[m]
    BY <1>1, <1>2, <2>1, <2>4 DEF Shaped, Ended
  <2>6. Alone => Cert(c)'
    BY <1>2, <2>4, <2>5, Shrink DEF Ended
  <2>7. Alone => Genuine'
    BY <1>1, <1>2, <2>1 DEF IInv, Genuine
  <2>8. ASSUME Alone, Undisturbed PROVE Tally(c, run[a])'
    <3>1. Tally(agent[a], run[a])
      BY <1>1, <2>8, Now
    <3>2. Verified' = Verified \ {n} /\ n \in Verified
      BY <1>1, <1>2, <2>1, <3>1 DEF Verified, Tally
    <3>3. IsFiniteSet(Verified) /\ agent[a].mem.certified = Cardinality(Verified)
      BY <1>1, <3>1 DEF Tally
    <3>4. IsFiniteSet(Verified') /\ Cardinality(Verified') = Cardinality(Verified) - 1
      BY <3>2, <3>3, FS_RemoveElement
    <3>5. Cardinality(Verified) \in Nat /\ Cardinality(Verified) # 0
      BY <3>2, <3>3, FS_EmptySet, FS_CardinalityType
    <3>6. c.mem.certified = Cardinality(Verified')
      BY <2>4, <3>3, <3>4, <3>5
    <3>7. QED
      BY <2>4, <3>4, <3>6 DEF Tally, Ended
  <2>9. run' = [run EXCEPT ![a] = run[a]] /\ run[a] \in {"running", "made_progress", "no_certificate"}
    BY <1>1, Now DEF IInv
  <2>10. formal' = [m \in Node |-> formal'[m]]
    BY <1>1 DEF IInv
  <2>11. QED
    BY <1>1, <2>1, <2>3, <2>4, <2>6, <2>7, <2>8, <2>9, <2>10, Move DEF Ended
<1>5. QED
  BY <1>3, <1>4 DEF HardenProof

----------------------------------------------------------------------------
(* The end of a pass and of a run, and the other sessions. *)

LEMMA EndPassStep ==
  ASSUME IInv, NEW a \in Agent, EndPass(a)
  PROVE  IInv'
<1>1. /\ a \in setting.agents /\ agent[a].mem.at = "route"
      /\ UNCHANGED <<nodes, status, taint, edges, formal, setting>>
  BY DEF EndPass, At, KeepGraph
<1>2. Shaped(agent[a]) /\ (Alone => Cert(agent[a]))
  BY <1>1, Now
<1>3. PICK last : last = (~ agent[a].snap.progressed \/ agent[a].mem.pass + 1 = MaxAttempts)
  OBVIOUS
<1>4. PICK at : at = IF last THEN "done" ELSE "plan"
  OBVIOUS
<1>5. PICK pass : pass = agent[a].mem.pass + 1
  OBVIOUS
<1>6. PICK r : r = IF ~ last THEN run[a]
                   ELSE IF agent[a].mem.certified > 0 THEN "made_progress" ELSE "no_certificate"
  OBVIOUS
<1>7. PICK c : c = [agent[a] EXCEPT !.mem.at = at, !.mem.pass = pass, !.snap = NoSnapshot]
  OBVIOUS
<1>8. agent' = [agent EXCEPT ![a] = c] /\ run' = [run EXCEPT ![a] = r]
  <2>1. agent' = [agent EXCEPT ![a].mem.at = at, ![a].mem.pass = pass, ![a].snap = NoSnapshot]
    BY <1>3, <1>4, <1>5 DEF EndPass
  <2>2. run' = [run EXCEPT ![a] = r]
    BY <1>3, <1>6 DEF EndPass
  <2>3. QED
    BY <1>7, <2>1, <2>2
<1>9. /\ Shaped(c) /\ c.mem.at = at /\ c.mem.certified = agent[a].mem.certified
      /\ c.snap.todo = {} /\ c.work = agent[a].work
  BY <1>2, <1>7 DEF Shaped, NoSnapshot
<1>10. Alone => Cert(c)'
  BY <1>1, <1>2, <1>4, <1>9 DEF Cert, Gated
<1>11. r \in {"running", "made_progress", "no_certificate"}
  BY <1>1, <1>6, Now DEF IInv
<1>12. ASSUME Alone, Undisturbed PROVE Tally(c, r)'
  <2>1. Tally(agent[a], run[a])
    BY <1>1, <1>12, Now
  <2>2. Verified' = Verified
    BY <1>1 DEF Verified
  <2>3. IsFiniteSet(Verified) /\ agent[a].mem.certified = Cardinality(Verified)
    BY <1>1, <2>1 DEF Tally
  <2>4. agent[a].mem.certified > 0 <=> Verified # {}
    BY <2>3, FS_EmptySet, FS_CardinalityType
  <2>5. at = "done" => (r = "made_progress" <=> Verified # {})
    BY <1>4, <1>6, <2>4
  <2>6. QED
    BY <1>4, <1>9, <2>2, <2>3, <2>5 DEF Tally
<1>13. Store!IInv' /\ formal' = [m \in Node |-> formal'[m]]
  BY <1>1, StoreNext DEF IInv
<1>14. Alone => Genuine'
  BY <1>1 DEF IInv, Genuine
<1>15. QED
  BY <1>1, <1>8, <1>9, <1>10, <1>11, <1>12, <1>13, <1>14, Move

LEMMA StopStep ==
  ASSUME IInv, NEW a \in Agent, Stop(a)
  PROVE  IInv'
<1>1. /\ a \in setting.agents
      /\ UNCHANGED <<nodes, status, taint, edges, formal, run, setting>>
  BY DEF Stop, db
<1>2. PICK m : m = [Fresh EXCEPT !.at = "stopped"]
  OBVIOUS
<1>3. PICK c : c = [mem |-> m, snap |-> NoSnapshot, work |-> NoWork]
  OBVIOUS
<1>4. agent' = [agent EXCEPT ![a] = c]
  BY <1>2, <1>3 DEF Stop
<1>5. /\ Shaped(c) /\ c.mem.at = "stopped" /\ c.snap.todo = {} /\ c.work.node = {}
      /\ c.work.streak = 0
  BY <1>2, <1>3 DEF Shaped, Fresh, NoSnapshot, NoWork
<1>6. Alone => Cert(c)'
  BY <1>5 DEF Cert, Gated
<1>7. Alone /\ Undisturbed => Tally(c, run[a])'
  BY <1>1, <1>5, Now DEF Tally, Verified
<1>8. Store!IInv' /\ formal' = [n \in Node |-> formal'[n]]
  BY <1>1, StoreNext DEF IInv
<1>9. Alone => Genuine'
  BY <1>1 DEF IInv, Genuine
<1>10. run' = [run EXCEPT ![a] = run[a]] /\ run[a] \in {"running", "made_progress", "no_certificate"}
  BY <1>1, Now DEF IInv
<1>11. QED
  BY <1>1, <1>4, <1>5, <1>6, <1>7, <1>8, <1>9, <1>10, Move

\* Another session certifies nothing and stores no source.
LEMMA OtherSessionStep ==
  ASSUME IInv, NEW n \in Node, OtherSession(n)
  PROVE  IInv'
<1>1. /\ "session" \in setting.faults /\ UNCHANGED <<formal, run, agent, setting>>
      /\ \E st \in {"rejected", "proposed"} : Graph!SetNodeStatus(n, st)
  BY DEF OtherSession, KeepRows
<1>2. PICK st \in {"rejected", "proposed"} : Graph!SetNodeStatus(n, st)
  BY <1>1
<1>3. /\ Store!IInv' /\ nodes' = nodes /\ nodes \subseteq Node
      /\ \A m \in Node : status'[m] = "formally_verified" => status[m] = "formally_verified"
  BY <1>2, SetStatus, Columns DEF IInv, NodeStatus
<1>4. (Alone' <=> Alone) /\ ~ Undisturbed'
  BY <1>1 DEF Alone, Undisturbed
<1>5. Alone => Genuine'
  BY <1>1, <1>3 DEF IInv, Genuine
<1>6. \A a \in Agent : Shaped(agent[a])'
  BY <1>1 DEF IInv, Shaped
<1>7. ASSUME Alone, NEW a \in setting.agents PROVE Cert(agent[a])'
  <2>1. Shaped(agent[a]) /\ Cert(agent[a])
    BY <1>7, Now
  <2>2. QED
    BY <1>1, <1>3, <2>1 DEF Cert, Shaped
<1>8. setting' \in Setting /\ formal' = [m \in Node |-> formal'[m]]
      /\ run' \in [Agent -> {"running", "made_progress", "no_certificate"}]
      /\ agent' = [a \in Agent |-> agent'[a]] /\ setting' = setting
  BY <1>1 DEF IInv
<1>9. QED
  BY <1>3, <1>4, <1>5, <1>6, <1>7, <1>8 DEF IInv

----------------------------------------------------------------------------
(* The specification *)

LEMMA InitIInv == Init => IInv
<1> SUFFICES ASSUME Init PROVE IInv
  OBVIOUS
<1>1. setting \in Setting /\ setting.agents \subseteq Agent
      /\ setting.nodes \subseteq Node /\ setting.edges \subseteq Edge(setting.nodes, {"depends_on"})
      /\ ~ HasCycle(setting.nodes, setting.edges)
  BY AgentAssumption DEF Init
<1>2. Store!IInv
  <2>1. Store!TypeOK /\ Store!FreshIds
    BY <1>1 DEF Init, Store!TypeOK, Store!FreshIds, Store!NodeStatus, NodeStatus,
                Store!TaintValue, Store!Edge, Edge, Store!EdgeKind
  <2>2. Store!NoCycle
    BY <1>1, SameStore DEF Init, Store!NoCycle
  <2>3. Store!TaintSound
    BY <1>1 DEF Init, Store!TaintSound, Store!TaintEdges, Store!BadStatus, Edge
  <2>4. QED
    BY <2>1, <2>2, <2>3 DEF Store!IInv
<1>3. Verified = {} /\ IsFiniteSet(Verified) /\ Cardinality(Verified) = 0
  <2>1. Verified = {}
    BY <1>1 DEF Init, Verified
  <2>2. QED
    BY <2>1, FS_EmptySet
<1>4. ASSUME NEW a \in Agent
      PROVE  Shaped(agent[a]) /\ Cert(agent[a]) /\ Tally(agent[a], run[a])
  <2>1. PICK c : c = [mem |-> Fresh, snap |-> NoSnapshot, work |-> NoWork]
    OBVIOUS
  <2>2. /\ Shaped(c) /\ c.mem.at = "plan" /\ c.mem.certified = 0
        /\ c.snap.todo = {} /\ c.work.node = {} /\ c.work.streak = 0
    BY <2>1 DEF Shaped, Fresh, NoSnapshot, NoWork
  <2>3. agent[a] = c
    BY <1>4, <2>1 DEF Init
  <2>4. QED
    BY <1>3, <2>2, <2>3 DEF Cert, Gated, Tally
<1>5. Genuine
  BY <1>1 DEF Init, Genuine
<1>6. /\ formal = [n \in Node |-> formal[n]]
      /\ run \in [Agent -> {"running", "made_progress", "no_certificate"}]
      /\ agent = [a \in Agent |-> agent[a]]
  BY DEF Init
<1>7. QED
  BY <1>1, <1>2, <1>4, <1>5, <1>6 DEF IInv

LEMMA NextIInv == IInv /\ [Next]_vars => IInv'
<1> SUFFICES ASSUME IInv, [Next]_vars PROVE IInv'
  OBVIOUS
<1>1. ASSUME NEW a \in Agent, NEW n \in Node,
             \/ Skip(a, n) \/ Screen(a, n) \/ Choose(a, n)
             \/ Block(a, n) \/ Escalate(a, n)
             \/ Falsify(a, n) \/ Refute(a, n)
             \/ Retrieve(a, n)
             \/ Decompose(a, n) \/ AddChild(a, n)
             \/ (\E child \in Node : LinkChild(a, n, child))
             \/ Formalize(a, n) \/ Prove(a, n) \/ StoreFormal(a, n) \/ Verify(a, n)
             \/ Certify(a, n) \/ HardenProof(a, n)
      PROVE  IInv'
  BY <1>1, SkipStep, ScreenStep, ChooseStep, BlockStep, ToolSteps, RefuteStep, AddChildStep,
     LinkChildStep, SourceSteps, StoreStep, VerifyStep, CertifyStep, HardenStep
<1>2. ASSUME NEW a \in Agent, AgentStep(a) \/ Stop(a) PROVE IInv'
  BY <1>1, <1>2, PlanStep, GateRoundStep, GateEndStep, EndPassStep, StopStep DEF AgentStep
<1>3. CASE UNCHANGED vars
  <2>1. UNCHANGED <<nodes, status, taint, edges, formal, run, agent, setting>>
    BY <1>3 DEF vars, db
  <2>2. Store!IInv' /\ Verified' = Verified
    BY <2>1, StoreNext DEF IInv, Verified
  <2>3. /\ Alone' = Alone /\ Undisturbed' = Undisturbed /\ (Genuine => Genuine')
        /\ \A a \in Agent : /\ Shaped(agent[a]) => Shaped(agent[a])'
                            /\ Cert(agent[a]) => Cert(agent[a])'
                            /\ Tally(agent[a], run[a]) => Tally(agent[a], run[a])'
    BY <2>1, <2>2 DEF Alone, Undisturbed, Genuine, Shaped, Cert, Tally
  <2>4. IInv /\ setting.agents \subseteq Agent
    BY AgentAssumption DEF IInv
  <2>5. QED
    BY <2>1, <2>2, <2>3, <2>4 DEF IInv
<1>4. QED
  BY <1>2, <1>3, OtherSessionStep DEF Next

LEMMA SpecIInv == Spec => []IInv
BY InitIInv, NextIInv, PTL DEF Spec

\* The source stored with a formally verified node is a proof: K clean rounds
\* in a row are for the stored text, whatever the passes and the other
\* sessions did meanwhile (agent.rs:1416-1420).
THEOREM CertificatesAreGenuine == Spec => []CertificateIsOfStoredSource
<1>1. IInv => CertificateIsOfStoredSource
  BY DEF IInv, Genuine, CertificateIsOfStoredSource
<1>2. QED
  BY SpecIInv, <1>1, PTL

\* The report of an undisturbed run is the state of the graph, through
\* refuted, flagged and blocked nodes (agent.rs:756-763, 1571-1578).
THEOREM ReportMatchesGraph == Spec => []CountMatchesGraph
<1>1. ASSUME IInv, Alone, Undisturbed, NEW a \in setting.agents
      PROVE  /\ agent[a].mem.at \notin {"harden", "stopped"}
                  => agent[a].mem.certified = Cardinality(Verified)
             /\ agent[a].mem.at = "done" => (run[a] = "made_progress" <=> Verified # {})
  BY <1>1, Now DEF Tally
<1>2. IInv => CountMatchesGraph
  BY <1>1 DEF CountMatchesGraph, Undisturbed, Verified
<1>3. QED
  BY SpecIInv, <1>2, PTL

\* A pass dispatches nothing that rests, along any chain of edges, on a node
\* rejected or blocked at that moment (scheduler.rs:194-199).
THEOREM NothingRefutedIsDispatched == Spec => PlanLeavesRefutedBranch
<1>1. ASSUME IInv, NEW a \in Agent, Plan(a), NEW n \in agent'[a].snap.todo,
             NEW m \in Closure(nodes, TaintEdges(edges), n)
      PROVE  status[m] \notin BadStatus
  <2>1. PICK c : c = [agent[a] EXCEPT !.mem.at = "route",
           !.snap = [todo |-> {k \in nodes : IsOpen(k)}, progressed |-> FALSE,
                     level |-> Level, formal |-> formal, hinted |-> hinted]]
    OBVIOUS
  <2>2. agent' = [agent EXCEPT ![a] = c] /\ Shaped(agent[a]) /\ agent'[a] = c
    BY <1>1, <2>1 DEF Plan, IInv
  <2>3. c.snap.todo = {k \in nodes : IsOpen(k)}
    BY <2>1, <2>2 DEF Shaped
  <2>4. n \in nodes /\ taint[n] = "clean"
    BY <1>1, <2>2, <2>3 DEF IsOpen
  <2>5. m \in Store!Closure(nodes, Store!TaintEdges(edges), n)
    BY <1>1 DEF Closure, Store!Closure, TaintEdges, Store!TaintEdges, CarriesTaint,
                Store!CarriesTaint, ClosedDown, Store!ClosedDown
  <2>6. Store!GraphAssumption
    BY DEF Store!GraphAssumption, Store!EdgeKind, Store!NodeStatus, NodeStatus
  <2>7. Store!TypeOK /\ Store!TaintSound
    BY <1>1 DEF IInv, Store!IInv
  <2>8. m \in nodes /\ taint[m] = "clean"
    BY <2>4, <2>5, <2>6, <2>7, Store!CleanAllTheWayDown
  <2>9. QED
    BY <2>7, <2>8 DEF Store!TaintSound, Store!BadStatus, BadStatus
<1>2. IInv /\ [Next]_vars =>
        [\A a \in Agent : Plan(a) =>
           \A n \in agent'[a].snap.todo : \A m \in Closure(nodes, TaintEdges(edges), n) :
              status[m] \notin BadStatus]_vars
  BY <1>1
<1>3. QED
  BY SpecIInv, <1>2, PTL DEF Spec, PlanLeavesRefutedBranch

\* What the sessions do to the graph are calls of the store, one at a time:
\* the graph of a project they work on has no cycle and no missing taint.
THEOREM AgentImplementsStore ==
  Spec => [][Store!Next]_(Store!vars) /\ [](Store!Acyclic /\ Store!TaintSound)
<1>1. ASSUME NEW n \in Node, NEW st, Graph!SetNodeStatus(n, st), st \in NodeStatus
      PROVE  Store!Next
  <2>1. Store!SetNodeStatus(n, st)
    BY <1>1, SameStore DEF Store!SetNodeStatus, Graph!SetNodeStatus, Graph!BadStatus, Store!BadStatus
  <2>2. QED
    BY <1>1, <2>1 DEF Store!Next
<1>2. ASSUME IInv, [Next]_vars PROVE [Store!Next]_(Store!vars)
  <2>1. ASSUME NEW a \in Agent, NEW n \in Node,
               Screen(a, n) \/ Block(a, n) \/ Refute(a, n) \/ Certify(a, n)
        PROVE  Store!Next
    BY <1>1, <2>1 DEF Screen, Block, Refute, Certify, NodeStatus
  <2>2. ASSUME NEW a \in Agent, NEW n \in Node, HardenProof(a, n)
        PROVE  Store!Next \/ KeepGraph
    BY <1>1, <2>2 DEF HardenProof, NodeStatus
  <2>3. ASSUME NEW a \in Agent, NEW n \in Node, AddChild(a, n)
        PROVE  Store!Next
    <3>1. Store!AddNode(n)
      BY <2>3 DEF AddChild, Store!AddNode, Graph!AddNode
    <3>2. QED
      BY <3>1 DEF Store!Next
  <2>4. ASSUME NEW a \in Agent, NEW n \in Node, NEW child \in Node, LinkChild(a, n, child)
        PROVE  Store!Next
    <3>1. PICK e : e = [source |-> n, target |-> child, kind |-> "depends_on"]
      OBVIOUS
    <3>2. Store!AddEdge(e)
      BY <2>4, <3>1, SameStore
      DEF LinkChild, Store!AddEdge, Graph!AddEdge, Store!Insertable, Graph!Insertable
    <3>3. e \in Store!Edge(Node, {"depends_on"})
      BY <3>1 DEF Store!Edge
    <3>4. QED
      BY <3>2, <3>3 DEF Store!Next
  <2>5. ASSUME NEW a \in Agent, NEW n \in Node,
               \/ Plan(a) \/ Skip(a, n) \/ Choose(a, n) \/ Escalate(a, n) \/ Falsify(a, n)
               \/ Retrieve(a, n) \/ Decompose(a, n) \/ Formalize(a, n) \/ Prove(a, n)
               \/ StoreFormal(a, n) \/ Verify(a, n) \/ GateRound(a) \/ GateEnd(a)
               \/ EndPass(a) \/ Stop(a)
        PROVE  KeepGraph
    BY <2>5 DEF Plan, Skip, Choose, Escalate, Falsify, Retrieve, Decompose, Formalize, Prove,
                StoreFormal, Verify, GateRound, GateEnd, EndPass, Stop, KeepGraph, db
  <2>6. ASSUME NEW n \in Node, OtherSession(n) PROVE Store!Next
    BY <1>1, <2>6 DEF OtherSession, NodeStatus
  <2>7. ASSUME NEW a \in Agent, AgentStep(a) \/ Stop(a) PROVE Store!Next \/ KeepGraph
    <3>1. CASE Plan(a) \/ GateRound(a) \/ GateEnd(a) \/ EndPass(a) \/ Stop(a)
      <4>1. CASE Node # {}
        BY <2>5, <3>1, <4>1
      <4>2. CASE Node = {}
        BY <3>1 DEF Plan, GateRound, GateEnd, EndPass, Stop, KeepGraph, db
      <4>3. QED
        BY <4>1, <4>2
    <3>2. QED
      BY <2>1, <2>2, <2>3, <2>4, <2>5, <2>7, <3>1 DEF AgentStep
  <2>8. Store!Next \/ KeepGraph
    BY <1>2, <2>6, <2>7 DEF Next, vars, db, KeepGraph
  <2>9. QED
    BY <2>8 DEF KeepGraph, Store!vars
<1>3. IInv => Store!Acyclic /\ Store!TaintSound
  <2>1. Store!GraphAssumption
    BY DEF Store!GraphAssumption, Store!EdgeKind, Store!NodeStatus, NodeStatus
  <2>2. QED
    BY <2>1, Store!NoCycleNoLoop
    DEF IInv, Store!IInv, Store!TypeOK, Store!NoCycle, Store!Acyclic
<1>4. QED
  BY SpecIInv, <1>2, <1>3, PTL DEF Spec

----------------------------------------------------------------------------
(* A single agent, seen from outside: it implements CertifiedClaims. *)

\* It reports once, at its end; what it is about to store is a source; and while
\* nobody interferes, no node it has yet to do was withdrawn.
Promise(ag, state) ==
  /\ ag.mem.at # "done" => state = "running"
  /\ ag.mem.at = "store" => ag.work.text \in Text
  /\ ~ Contested => \A n \in ag.snap.todo : status[n] \notin BadStatus

Kept == \A a \in setting.agents : Promise(agent[a], run[a])

ClaimsStep == Claims!ClaimsNext \/ UNCHANGED Claims!claimVars

LEMMA Sole ==
  ASSUME IInv, Kept, Alone, NEW a \in setting.agents
  PROVE  /\ setting.agents = {a} /\ a \in Agent
         /\ Shaped(agent[a]) /\ Cert(agent[a]) /\ Promise(agent[a], run[a])
         /\ OnTrial = IF agent[a].mem.at = "harden" THEN agent[a].work.node ELSE {}
         /\ Reports = {run[a]} \ {"running"}
<1>1. setting.agents = {a} /\ a \in Agent /\ Shaped(agent[a]) /\ Cert(agent[a])
  BY Now DEF Alone
<1>2. Promise(agent[a], run[a])
  BY DEF Kept
<1>3. Hardening = IF agent[a].mem.at = "harden" THEN {a} ELSE {}
  BY <1>1 DEF Hardening
<1>4. OnTrial = IF agent[a].mem.at = "harden" THEN agent[a].work.node ELSE {}
  BY <1>3 DEF OnTrial
<1>5. Reports = {run[a]} \ {"running"}
  BY <1>1 DEF Reports
<1>6. QED
  BY <1>1, <1>2, <1>4, <1>5

LEMMA Turn ==
  ASSUME IInv, Kept, Alone, NEW a \in setting.agents, NEW c, NEW r,
         agent' = [agent EXCEPT ![a] = c], run' = [run EXCEPT ![a] = r], setting' = setting,
         Promise(c, r)'
  PROVE  /\ Kept' /\ Contested' = Contested
         /\ OnTrial' = IF c.mem.at = "harden" THEN c.work.node ELSE {}
         /\ Reports' = {r} \ {"running"}
<1>1. setting'.agents = {a} /\ agent'[a] = c /\ run'[a] = r
  BY Sole DEF IInv
<1>2. Kept'
  BY <1>1 DEF Kept
<1>3. Hardening' = IF c.mem.at = "harden" THEN {a} ELSE {}
  BY <1>1 DEF Hardening
<1>4. OnTrial' = IF c.mem.at = "harden" THEN c.work.node ELSE {}
  BY <1>1, <1>3 DEF OnTrial
<1>5. Reports' = {r} \ {"running"} /\ Contested' = Contested
  BY <1>1 DEF Reports, Contested
<1>6. QED
  BY <1>2, <1>4, <1>5

\* Steps between two commits, and commits that no claim shows.
LEMMA Unseen ==
  ASSUME IInv, Kept, Alone, NEW a \in setting.agents, NEW c,
         agent' = [agent EXCEPT ![a] = c],
         UNCHANGED <<nodes, status, formal, run, setting>>,
         agent[a].mem.at \notin {"harden", "done"}, c.mem.at \notin {"harden", "done"},
         c.mem.at = "store" => c.work.text \in Text,
         ~ Contested => \A n \in c.snap.todo : status[n] \notin BadStatus
  PROVE  Kept' /\ ClaimsStep
<1>1. PICK r : r = run[a]
  OBVIOUS
<1>2. run' = [run EXCEPT ![a] = r] /\ r = "running"
  BY <1>1, Sole DEF IInv, Promise
<1>3. Promise(c, r)'
  BY <1>2 DEF Promise, Contested
<1>4. /\ Kept' /\ Contested' = Contested
      /\ OnTrial' = (IF c.mem.at = "harden" THEN c.work.node ELSE {})
      /\ Reports' = {r} \ {"running"}
  BY <1>2, <1>3, Turn
<1>5. Life' = Life
  BY DEF Life
<1>6. OnTrial' = OnTrial /\ Reports' = Reports
  BY <1>1, <1>4, Sole
<1>7. QED
  BY <1>4, <1>5, <1>6 DEF ClaimsStep, Claims!claimVars

\* The work on a node ends and is not seen.
LEMMA UnseenEnd ==
  ASSUME IInv, Kept, Alone, NEW a \in setting.agents, NEW c,
         agent' = [agent EXCEPT ![a] = c], Ended(agent[a], c),
         UNCHANGED <<nodes, status, formal, run, setting>>,
         agent[a].mem.at \notin {"harden", "done"}
  PROVE  Kept' /\ ClaimsStep
<1>1. c.mem.at = "route" /\ c.snap.todo \subseteq agent[a].snap.todo
  BY DEF Ended
<1>2. ~ Contested => \A n \in c.snap.todo : status[n] \notin BadStatus
  BY <1>1, Sole DEF Promise
<1>3. QED
  BY <1>1, <1>2, Unseen

LEMMA PlanUnseen ==
  ASSUME IInv, Kept, Alone, NEW a \in Agent, Plan(a)
  PROVE  Kept' /\ ClaimsStep
<1>1. a \in setting.agents /\ agent[a].mem.at = "plan"
      /\ UNCHANGED <<nodes, status, formal, run, setting>>
  BY DEF Plan, At, db
<1>s. Shaped(agent[a])
  BY <1>1, Sole
<1>2. PICK c : c = [agent[a] EXCEPT !.mem.at = "route",
       !.snap = [todo |-> {n \in nodes : IsOpen(n)}, progressed |-> FALSE,
                 level |-> Level, formal |-> formal, hinted |-> hinted]]
  OBVIOUS
<1>3. agent' = [agent EXCEPT ![a] = c]
  BY <1>2 DEF Plan
<1>4. c.mem.at = "route" /\ c.snap.todo = {n \in nodes : IsOpen(n)}
  BY <1>s, <1>1, <1>2 DEF Shaped
<1>5. \A n \in c.snap.todo : status[n] \notin BadStatus
  BY <1>4 DEF IsOpen, BadStatus
<1>6. QED
  BY <1>1, <1>3, <1>4, <1>5, Unseen

LEMMA SkipUnseen ==
  ASSUME IInv, Kept, Alone, NEW a \in Agent, NEW n \in Node, Skip(a, n)
  PROVE  Kept' /\ ClaimsStep
<1>1. a \in setting.agents /\ agent[a].mem.at = "route"
      /\ UNCHANGED <<nodes, status, formal, run, setting>>
  BY DEF Skip, At, db
<1>s. Shaped(agent[a])
  BY <1>1, Sole
<1>2. PICK c : c = [agent[a] EXCEPT !.snap.todo = @ \ {n}]
  OBVIOUS
<1>3. agent' = [agent EXCEPT ![a] = c]
  BY <1>2 DEF Skip
<1>4. c.mem.at = "route" /\ c.snap.todo \subseteq agent[a].snap.todo
  BY <1>s, <1>1, <1>2 DEF Shaped
<1>5. ~ Contested => \A m \in c.snap.todo : status[m] \notin BadStatus
  BY <1>1, <1>4, Sole DEF Promise
<1>6. QED
  BY <1>1, <1>3, <1>4, <1>5, Unseen

LEMMA ChooseUnseen ==
  ASSUME IInv, Kept, Alone, NEW a \in Agent, NEW n \in Node, Choose(a, n)
  PROVE  Kept' /\ ClaimsStep
<1>1. a \in setting.agents /\ agent[a].mem.at = "route"
      /\ UNCHANGED <<nodes, status, formal, run, setting>>
  BY DEF Choose, At, db
<1>s. Shaped(agent[a])
  BY <1>1, Sole
<1>2. PICK route : route = RouteOf(n, attempts[n], agent[a].mem, agent[a].snap)
  OBVIOUS
<1>3. PICK seen : seen = Observed(agent[a].mem, setting.title[n], route)
  OBVIOUS
<1>4. PICK at : at = IF seen >= LoopThreshold THEN "block" ELSE route
  OBVIOUS
<1>5. PICK m : m = [agent[a].mem EXCEPT !.at = at, !.seen[setting.title[n]][route] = seen]
  OBVIOUS
<1>6. PICK c : c = [agent[a] EXCEPT !.mem = m, !.work = [NoWork EXCEPT !.node = {n}, !.route = route]]
  OBVIOUS
<1>7. agent' = [agent EXCEPT ![a] = c]
  <2>1. agent' = [agent EXCEPT
             ![a].mem = [@ EXCEPT !.at = at, !.seen[setting.title[n]][route] = seen],
             ![a].work = [NoWork EXCEPT !.node = {n}, !.route = route]]
    BY <1>2, <1>3, <1>4 DEF Choose
  <2>2. agent' = [agent EXCEPT
             ![a].mem = m, ![a].work = [NoWork EXCEPT !.node = {n}, !.route = route]]
    BY <1>5, <2>1
  <2>3. QED
    BY <1>6, <2>2
<1>8. m.at = at /\ at \in Route \cup {"block"}
  BY <1>1, <1>2, <1>4, <1>5, RouteInRoute, <1>s DEF Shaped
<1>9. c.mem = m /\ c.snap = agent[a].snap
  BY <1>s, <1>1, <1>6 DEF Shaped
<1>10. c.mem.at \notin {"harden", "done", "store"}
  BY <1>8, <1>9 DEF Route
<1>11. ~ Contested => \A k \in c.snap.todo : status[k] \notin BadStatus
  BY <1>1, <1>9, Sole DEF Promise
<1>12. QED
  BY <1>1, <1>7, <1>10, <1>11, Unseen

\* The agent goes on with its node, or is done with it.
LEMMA OnwardUnseen ==
  ASSUME IInv, Kept, Alone, NEW a \in setting.agents, NEW c,
         agent' = [agent EXCEPT ![a] = c], c.snap = agent[a].snap,
         UNCHANGED <<nodes, status, formal, run, setting>>,
         agent[a].mem.at \notin {"harden", "done"}, c.mem.at \notin {"harden", "done"},
         c.mem.at = "store" => c.work.text \in Text
  PROVE  Kept' /\ ClaimsStep
<1>1. ~ Contested => \A n \in c.snap.todo : status[n] \notin BadStatus
  BY Sole DEF Promise
<1>2. QED
  BY <1>1, Unseen

LEMMA FinishUnseen ==
  ASSUME IInv, Kept, Alone, NEW a \in setting.agents, NEW n,
         \/ \E outcome : agent' = [agent EXCEPT ![a] = Finish(@, outcome)]
         \/ agent' = [agent EXCEPT ![a] = FinishFalsify(@, n)]
         \/ agent' = [agent EXCEPT ![a] = FinishDecompose(@, n)],
         UNCHANGED <<nodes, status, formal, run, setting>>,
         agent[a].mem.at \notin {"harden", "done"}
  PROVE  Kept' /\ ClaimsStep
<1>1. Shaped(agent[a])
  BY Sole
<1>2. ASSUME NEW outcome, agent' = [agent EXCEPT ![a] = Finish(@, outcome)]
      PROVE  Kept' /\ ClaimsStep
  <2>1. PICK c : c = Finish(agent[a], outcome)
    OBVIOUS
  <2>2. Ended(agent[a], c) /\ agent' = [agent EXCEPT ![a] = c]
    BY <1>1, <1>2, <2>1, FinishFields
  <2>3. QED
    BY <2>2, UnseenEnd
<1>3. CASE agent' = [agent EXCEPT ![a] = FinishFalsify(@, n)]
  <2>1. PICK c : c = FinishFalsify(agent[a], n)
    OBVIOUS
  <2>2. Ended(agent[a], c) /\ agent' = [agent EXCEPT ![a] = c]
    BY <1>1, <1>3, <2>1, FinishVariants
  <2>3. QED
    BY <2>2, UnseenEnd
<1>4. CASE agent' = [agent EXCEPT ![a] = FinishDecompose(@, n)]
  <2>1. PICK c : c = FinishDecompose(agent[a], n)
    OBVIOUS
  <2>2. Ended(agent[a], c) /\ agent' = [agent EXCEPT ![a] = c]
    BY <1>1, <1>4, <2>1, FinishVariants
  <2>3. QED
    BY <2>2, UnseenEnd
<1>5. QED
  BY <1>2, <1>3, <1>4

LEMMA ToolsUnseen ==
  ASSUME IInv, Kept, Alone, NEW a \in Agent, NEW n \in Node,
         Escalate(a, n) \/ Falsify(a, n) \/ Retrieve(a, n) \/ Decompose(a, n)
  PROVE  Kept' /\ ClaimsStep
<1>1. /\ a \in setting.agents /\ UNCHANGED <<nodes, status, formal, run, setting>>
      /\ agent[a].mem.at \in {"escalate", "falsify", "retrieve", "decompose"}
  BY DEF Escalate, Falsify, Retrieve, Decompose, Working, At, db, KeepGraph
<1>s. Shaped(agent[a])
  BY <1>1, Sole
<1>2. \/ \E outcome : agent' = [agent EXCEPT ![a] = Finish(@, outcome)]
      \/ agent' = [agent EXCEPT ![a] = FinishFalsify(@, n)]
      \/ agent' = [agent EXCEPT ![a] = Remember(@, n)]
      \/ agent' = [agent EXCEPT ![a].mem.at = "child"]
  BY DEF Escalate, Falsify, Retrieve, Decompose
<1>3. CASE agent' = [agent EXCEPT ![a].mem.at = "child"]
  <2>1. PICK c : c = [agent[a] EXCEPT !.mem.at = "child"]
    OBVIOUS
  <2>2. c.mem.at = "child" /\ c.snap = agent[a].snap
    BY <1>s, <1>1, <2>1 DEF Shaped
  <2>3. agent' = [agent EXCEPT ![a] = c]
    BY <1>3, <2>1
  <2>4. QED
    BY <1>1, <2>2, <2>3, OnwardUnseen
<1>4. CASE agent' = [agent EXCEPT ![a] = Remember(@, n)]
  <2>1. PICK c : c = Remember(agent[a], n)
    OBVIOUS
  <2>2. c.mem.at = "refute" /\ c.snap = agent[a].snap
    BY <1>s, <2>1, RememberFields
  <2>3. agent' = [agent EXCEPT ![a] = c]
    BY <1>4, <2>1
  <2>4. QED
    BY <1>1, <2>2, <2>3, OnwardUnseen
<1>5. QED
  BY <1>1, <1>2, <1>3, <1>4, FinishUnseen

LEMMA SourcesUnseen ==
  ASSUME IInv, Kept, Alone, NEW a \in Agent, NEW n \in Node, Formalize(a, n) \/ Prove(a, n)
  PROVE  Kept' /\ ClaimsStep
<1>1. /\ a \in setting.agents /\ UNCHANGED <<nodes, status, formal, run, setting>>
      /\ agent[a].mem.at \in {"formalize", "prove"}
  BY DEF Formalize, Prove, Working, At, KeepGraph
<1>s. Shaped(agent[a])
  BY <1>1, Sole
<1>2. \/ \E outcome : agent' = [agent EXCEPT ![a] = Finish(@, outcome)]
      \/ \E text \in Text : \E accepted \in RoundOutcome(text, 0) :
           agent' = [agent EXCEPT ![a].mem.at = "store",
                       ![a].work.text = text, ![a].work.accepted = accepted]
  BY DEF Formalize, Prove
<1>3. ASSUME NEW text \in Text, NEW accepted \in RoundOutcome(text, 0),
             agent' = [agent EXCEPT ![a].mem.at = "store",
                         ![a].work.text = text, ![a].work.accepted = accepted]
      PROVE  Kept' /\ ClaimsStep
  <2>1. PICK c : c = [agent[a] EXCEPT !.mem.at = "store",
                                      !.work.text = text, !.work.accepted = accepted]
    OBVIOUS
  <2>2. c.mem.at = "store" /\ c.snap = agent[a].snap /\ c.work.text = text
    BY <1>s, <1>1, <2>1 DEF Shaped
  <2>3. agent' = [agent EXCEPT ![a] = c]
    BY <1>3, <2>1
  <2>4. QED
    BY <1>1, <2>2, <2>3, OnwardUnseen
<1>4. QED
  BY <1>1, <1>2, <1>3, FinishUnseen

LEMMA LinkUnseen ==
  ASSUME IInv, Kept, Alone, NEW a \in Agent, NEW n \in Node, NEW child \in Node,
         LinkChild(a, n, child)
  PROVE  Kept' /\ ClaimsStep
<1>1. /\ a \in setting.agents /\ agent[a].mem.at = "link"
      /\ UNCHANGED <<nodes, status, formal, run, setting>>
  BY NewEdge DEF LinkChild, Working, At, KeepRows, IInv
<1>s. Shaped(agent[a])
  BY <1>1, Sole
<1>2. CASE agent' = [agent EXCEPT ![a].mem.at = "child", ![a].work.child = {}]
  <2>1. PICK c : c = [agent[a] EXCEPT !.mem.at = "child", !.work.child = {}]
    OBVIOUS
  <2>2. c.mem.at = "child" /\ c.snap = agent[a].snap
    BY <1>s, <2>1 DEF Shaped
  <2>3. agent' = [agent EXCEPT ![a] = c]
    BY <1>2, <2>1
  <2>4. QED
    BY <1>1, <2>2, <2>3, OnwardUnseen
<1>3. CASE agent' = [agent EXCEPT ![a] = FinishDecompose(@, n)]
  BY <1>1, <1>3, FinishUnseen
<1>4. QED
  BY <1>2, <1>3 DEF LinkChild

LEMMA VerifyUnseen ==
  ASSUME IInv, Kept, Alone, NEW a \in Agent, NEW n \in Node, Verify(a, n)
  PROVE  Kept' /\ ClaimsStep
<1>1. /\ a \in setting.agents /\ agent[a].mem.at = "verify"
      /\ UNCHANGED <<nodes, status, formal, run, setting>>
  BY DEF Verify, Working, At, db
<1>s. Shaped(agent[a])
  BY <1>1, Sole
<1>2. PICK text : text = agent[a].snap.formal[n]
  OBVIOUS
<1>3. PICK clean \in RoundOutcome(text, 0) :
        agent' = [agent EXCEPT ![a] =
             IF clean THEN [@ EXCEPT !.mem.at = "gate", !.work.text = text]
             ELSE Finish(@, "verify")]
  BY <1>2 DEF Verify
<1>4. CASE clean
  <2>1. PICK c : c = [agent[a] EXCEPT !.mem.at = "gate", !.work.text = text]
    OBVIOUS
  <2>2. c.mem.at = "gate" /\ c.snap = agent[a].snap
    BY <1>s, <2>1 DEF Shaped
  <2>3. agent' = [agent EXCEPT ![a] = c]
    BY <1>3, <1>4, <2>1
  <2>4. QED
    BY <1>1, <2>2, <2>3, OnwardUnseen
<1>5. CASE ~ clean
  <2>1. agent' = [agent EXCEPT ![a] = Finish(@, "verify")]
    BY <1>3, <1>5
  <2>2. QED
    BY <1>1, <2>1, FinishUnseen
<1>6. QED
  BY <1>4, <1>5

LEMMA GateUnseen ==
  ASSUME IInv, Kept, Alone, NEW a \in Agent, GateRound(a) \/ GateEnd(a)
  PROVE  Kept' /\ ClaimsStep
<1>1. /\ a \in setting.agents /\ agent[a].mem.at = "gate"
      /\ UNCHANGED <<nodes, status, formal, run, setting>>
  BY DEF GateRound, GateEnd, At, db
<1>s. Shaped(agent[a])
  BY <1>1, Sole
<1>2. CASE GateRound(a)
  <2>1. PICK clean \in RoundOutcome(agent[a].work.text, agent[a].work.streak) :
          agent' = [agent EXCEPT ![a].work.rounds = @ + 1,
                                 ![a].work.streak = IF clean THEN @ + 1 ELSE 0]
    BY <1>2 DEF GateRound
  <2>2. PICK c : c = [agent[a] EXCEPT !.work.rounds = @ + 1,
                                      !.work.streak = IF clean THEN @ + 1 ELSE 0]
    OBVIOUS
  <2>3. c.mem = agent[a].mem /\ c.snap = agent[a].snap
    BY <1>s, <2>2 DEF Shaped
  <2>4. agent' = [agent EXCEPT ![a] = c]
    BY <2>1, <2>2
  <2>5. QED
    BY <1>1, <2>3, <2>4, OnwardUnseen
<1>3. CASE agent' = [agent EXCEPT ![a] = Finish(@, "verify")]
  BY <1>1, <1>3, FinishUnseen
<1>4. CASE agent' = [agent EXCEPT ![a].mem.at = "certify"]
  <2>1. PICK c : c = [agent[a] EXCEPT !.mem.at = "certify"]
    OBVIOUS
  <2>2. c.mem.at = "certify" /\ c.snap = agent[a].snap
    BY <1>s, <2>1 DEF Shaped
  <2>3. agent' = [agent EXCEPT ![a] = c]
    BY <1>4, <2>1
  <2>4. QED
    BY <1>1, <2>2, <2>3, OnwardUnseen
<1>5. QED
  BY <1>2, <1>3, <1>4 DEF GateEnd

\* What a status is from outside.
LEMMA FateOf ==
  /\ Fate("formally_verified") = "certified" /\ Fate("proposed") = "open"
  /\ Fate("blocked") = "withdrawn" /\ Fate("rejected") = "withdrawn"
  /\ \A st : Fate(st) \in {"certified", "withdrawn", "open"}
  /\ \A st : st # "formally_verified" => Fate(st) # "certified"
  /\ \A st : st # "formally_verified" /\ st \notin BadStatus => Fate(st) = "open"
BY DEF Fate, BadStatus

LEMMA LifeSet ==
  ASSUME IInv, NEW n \in Node, NEW st \in NodeStatus, Graph!SetNodeStatus(n, st)
  PROVE  /\ Life' = [Life EXCEPT ![n] = Fate(st)] /\ n \in nodes /\ Life[n] = Fate(status[n])
         /\ \A m \in Node \ {n} : status'[m] = status[m]
<1>1. /\ nodes' = nodes /\ n \in nodes /\ status'[n] = st
      /\ \A m \in Node \ {n} : status'[m] = status[m]
  BY SetStatus DEF IInv
<1>2. \A m \in Node : Life[m] = IF m \in nodes THEN Fate(status[m]) ELSE "absent"
  BY DEF Life
<1>3. \A m \in Node : Life'[m] = IF m \in nodes THEN Fate(status'[m]) ELSE "absent"
  BY <1>1 DEF Life
<1>4. Life = [m \in Node |-> Life[m]] /\ Life' = [m \in Node |-> Life'[m]]
  BY DEF Life
<1>5. Life' = [Life EXCEPT ![n] = Fate(st)]
  BY <1>1, <1>2, <1>3, <1>4
<1>6. QED
  BY <1>1, <1>2, <1>5

\* A node of the pass is blocked or rejected: it was not certified.
LEMMA Withdrawn ==
  ASSUME IInv, Kept, Alone, NEW a \in setting.agents, NEW n \in Node,
         NEW st \in {"blocked", "rejected"}, Graph!SetNodeStatus(n, st),
         UNCHANGED <<formal, run, setting>>,
         NEW c, agent' = [agent EXCEPT ![a] = c], c.mem.at = "route",
         n \in agent[a].snap.todo, c.snap.todo \subseteq agent[a].snap.todo \ {n},
         agent[a].mem.at \notin {"harden", "done"}
  PROVE  Kept' /\ ClaimsStep
<1>1. /\ Life' = [Life EXCEPT ![n] = "withdrawn"] /\ Life[n] = Fate(status[n])
      /\ \A m \in Node \ {n} : status'[m] = status[m]
  BY LifeSet, FateOf DEF NodeStatus
<1>2. /\ Shaped(agent[a]) /\ Cert(agent[a]) /\ Promise(agent[a], run[a])
      /\ OnTrial = {} /\ Reports = {run[a]} \ {"running"}
  BY Sole
<1>3. Life[n] \in {"open", "withdrawn"}
  BY <1>1, <1>2, FateOf DEF Cert
<1>4. PICK r : r = run[a]
  OBVIOUS
<1>5. r = "running" /\ run' = [run EXCEPT ![a] = r]
  BY <1>2, <1>4 DEF Promise, IInv
<1>6. Promise(c, r)'
  BY <1>1, <1>2, <1>5 DEF Promise, Contested, Shaped
<1>7. Kept' /\ Contested' = Contested /\ OnTrial' = {} /\ Reports' = {r} \ {"running"}
  BY <1>5, <1>6, Turn
<1>8. Reports = {} /\ Reports' = {}
  BY <1>2, <1>4, <1>5, <1>7
<1>9. CASE Life[n] = "open"
  <2>1. Claims!Withdraw(n)
    BY <1>1, <1>2, <1>7, <1>8, <1>9 DEF Claims!Withdraw
  <2>2. QED
    BY <1>7, <1>8, <2>1 DEF ClaimsStep, Claims!ClaimsNext
<1>10. CASE Life[n] = "withdrawn"
  <2>1. Life' = Life
    BY <1>1, <1>10 DEF Life
  <2>2. QED
    BY <1>2, <1>7, <1>8, <2>1 DEF ClaimsStep, Claims!claimVars
<1>11. QED
  BY <1>3, <1>9, <1>10

LEMMA WithdrawSeen ==
  ASSUME IInv, Kept, Alone, NEW a \in Agent, NEW n \in Node,
         Screen(a, n) \/ Block(a, n) \/ Refute(a, n)
  PROVE  Kept' /\ ClaimsStep
<1>1. a \in setting.agents /\ agent[a].mem.at \in {"route", "block", "refute"}
      /\ UNCHANGED <<formal, run, setting>>
  BY DEF Screen, Block, Refute, Working, At, KeepRows
<1>s. Shaped(agent[a]) /\ Cert(agent[a])
  BY <1>1, Sole
<1>2. PICK st \in {"blocked", "rejected"} : Graph!SetNodeStatus(n, st)
  BY DEF Screen, Block, Refute
<1>3. CASE Screen(a, n)
  <2>1. PICK c : c = [agent[a] EXCEPT !.snap.todo = @ \ {n}]
    OBVIOUS
  <2>2. c.mem.at = "route" /\ c.snap.todo = agent[a].snap.todo \ {n}
    BY <1>3, <1>s, <2>1 DEF Shaped, Screen, At
  <2>3. n \in agent[a].snap.todo /\ agent' = [agent EXCEPT ![a] = c]
    BY <1>3, <2>1 DEF Screen, NextNodes
  <2>4. QED
    BY <1>1, <1>2, <2>2, <2>3, Withdrawn
<1>4. CASE Block(a, n)
  <2>1. PICK c : c = Finish(agent[a], "noop")
    OBVIOUS
  <2>2. agent[a].work.node = {n} /\ agent' = [agent EXCEPT ![a] = c]
    BY <1>4, <2>1 DEF Block, Working
  <2>3. Ended(agent[a], c)
    BY <1>s, <2>1, FinishFields
  <2>4. n \in agent[a].snap.todo /\ c.mem.at = "route" /\ c.snap.todo = agent[a].snap.todo \ {n}
    BY <1>s, <2>2, <2>3 DEF Cert, Ended
  <2>5. QED
    BY <1>1, <1>2, <2>2, <2>4, Withdrawn
<1>5. CASE Refute(a, n)
  <2>1. PICK c : c = FinishFalsify(agent[a], n)
    OBVIOUS
  <2>2. agent[a].work.node = {n} /\ agent' = [agent EXCEPT ![a] = c]
    BY <1>5, <2>1 DEF Refute, Working
  <2>3. Ended(agent[a], c)
    BY <1>s, <2>1, FinishVariants
  <2>4. n \in agent[a].snap.todo /\ c.mem.at = "route" /\ c.snap.todo = agent[a].snap.todo \ {n}
    BY <1>s, <2>2, <2>3 DEF Cert, Ended
  <2>5. QED
    BY <1>1, <1>2, <2>2, <2>4, Withdrawn
<1>6. QED
  BY <1>3, <1>4, <1>5

LEMMA PoseSeen ==
  ASSUME IInv, Kept, Alone, NEW a \in Agent, NEW child \in Node, AddChild(a, child)
  PROVE  Kept' /\ ClaimsStep
<1>1. /\ a \in setting.agents /\ agent[a].mem.at = "child"
      /\ UNCHANGED <<formal, run, setting>>
      /\ nodes' = nodes \cup {child} /\ status' = status /\ child \notin nodes
  BY NewNode DEF AddChild, At, KeepRows, IInv
<1>2. /\ Shaped(agent[a]) /\ Promise(agent[a], run[a])
      /\ OnTrial = {} /\ Reports = {run[a]} \ {"running"}
  BY <1>1, Sole
<1>3. PICK c : c = [agent[a] EXCEPT !.mem.at = "link", !.work.child = {child}]
  OBVIOUS
<1>4. agent' = [agent EXCEPT ![a] = c] /\ c.mem.at = "link" /\ c.snap = agent[a].snap
  BY <1>2, <1>3 DEF AddChild, Shaped
<1>5. PICK r : r = run[a]
  OBVIOUS
<1>6. r = "running" /\ run' = [run EXCEPT ![a] = r]
  BY <1>1, <1>2, <1>5 DEF Promise, IInv
<1>7. Promise(c, r)'
  BY <1>1, <1>2, <1>4, <1>6 DEF Promise, Contested
<1>8. Kept' /\ Contested' = Contested /\ OnTrial' = {} /\ Reports' = {r} \ {"running"}
  BY <1>1, <1>4, <1>6, <1>7, Turn
<1>9. Reports = {} /\ Reports' = {}
  BY <1>2, <1>5, <1>6, <1>8
<1>10. status[child] = "proposed"
  BY <1>1, Columns DEF IInv
<1>11. Life[child] = "absent" /\ Life' = [Life EXCEPT ![child] = "open"]
  <2>1. \A m \in Node : Life[m] = IF m \in nodes THEN Fate(status[m]) ELSE "absent"
    BY DEF Life
  <2>2. \A m \in Node : Life'[m] = IF m \in nodes \cup {child} THEN Fate(status[m]) ELSE "absent"
    BY <1>1 DEF Life
  <2>3. Life = [m \in Node |-> Life[m]] /\ Life' = [m \in Node |-> Life'[m]]
    BY DEF Life
  <2>4. QED
    BY <1>1, <1>10, <2>1, <2>2, <2>3, FateOf
<1>12. Claims!Pose(child)
  BY <1>1, <1>2, <1>8, <1>9, <1>11 DEF Claims!Pose
<1>13. QED
  BY <1>8, <1>9, <1>12 DEF ClaimsStep, Claims!ClaimsNext

\* A source is stored with a node that is not certified.
LEMMA RewriteSeen ==
  ASSUME IInv, Kept, Alone, NEW a \in Agent, NEW n \in Node, StoreFormal(a, n)
  PROVE  Kept' /\ ClaimsStep
<1>1. /\ a \in setting.agents /\ agent[a].mem.at = "store" /\ agent[a].work.node = {n}
      /\ formal' = [formal EXCEPT ![n] = agent[a].work.text]
      /\ UNCHANGED <<nodes, status, run, setting>>
  BY DEF StoreFormal, Working, At, KeepGraph
<1>2. /\ Shaped(agent[a]) /\ Cert(agent[a]) /\ Promise(agent[a], run[a])
      /\ OnTrial = {} /\ Reports = {run[a]} \ {"running"}
  BY <1>1, Sole
<1>3. PICK c : c = IF agent[a].work.accepted THEN [agent[a] EXCEPT !.mem.at = "gate"]
                   ELSE Finish(agent[a], "formalize")
  OBVIOUS
<1>4. agent' = [agent EXCEPT ![a] = c]
  BY <1>3 DEF StoreFormal
<1>5. c.mem.at \in {"gate", "route"} /\ c.snap.todo \subseteq agent[a].snap.todo
  <2>1. CASE agent[a].work.accepted
    BY <1>2, <1>3, <2>1 DEF Shaped
  <2>2. CASE ~ agent[a].work.accepted
    <3>1. c = Finish(agent[a], "formalize")
      BY <1>3, <2>2
    <3>2. QED
      BY <1>2, <3>1, FinishFields DEF Ended
  <2>3. QED
    BY <2>1, <2>2
<1>6. PICK r : r = run[a]
  OBVIOUS
<1>7. r = "running" /\ run' = [run EXCEPT ![a] = r]
  BY <1>1, <1>2, <1>6 DEF Promise, IInv
<1>8. Promise(c, r)'
  BY <1>1, <1>2, <1>5, <1>7 DEF Promise, Contested
<1>9. Kept' /\ Contested' = Contested /\ OnTrial' = {} /\ Reports' = {r} \ {"running"}
  BY <1>1, <1>4, <1>5, <1>7, <1>8, Turn
<1>10. Reports = {} /\ Reports' = {}
  BY <1>2, <1>6, <1>7, <1>9
<1>11. status[n] # "formally_verified" /\ agent[a].work.text \in Formal
  BY <1>1, <1>2 DEF Cert, Promise, Formal
<1>12. Life[n] # "certified" /\ Life' = Life
  BY <1>1, <1>11, FateOf DEF Life
<1>13. Claims!Rewrite(n)
  BY <1>1, <1>2, <1>9, <1>10, <1>11, <1>12 DEF Claims!Rewrite
<1>14. QED
  BY <1>9, <1>10, <1>13 DEF ClaimsStep, Claims!ClaimsNext

\* An open claim whose stored source is a proof becomes certified.
LEMMA CertifySeen ==
  ASSUME IInv, Kept, Alone, NEW a \in Agent, NEW n \in Node, Certify(a, n)
  PROVE  Kept' /\ ClaimsStep
<1>1. /\ a \in setting.agents /\ agent[a].mem.at = "certify" /\ agent[a].work.node = {n}
      /\ Graph!SetNodeStatus(n, "formally_verified") /\ UNCHANGED <<formal, run, setting>>
  BY DEF Certify, Working, At, KeepRows
<1>2. /\ Shaped(agent[a]) /\ Cert(agent[a]) /\ Promise(agent[a], run[a])
      /\ OnTrial = {} /\ Reports = {run[a]} \ {"running"}
  BY <1>1, Sole
<1>3. /\ Life' = [Life EXCEPT ![n] = "certified"] /\ Life[n] = Fate(status[n])
      /\ n \in nodes /\ \A m \in Node \ {n} : status'[m] = status[m]
  BY <1>1, LifeSet, FateOf DEF NodeStatus
<1>4. status[n] # "formally_verified" /\ formal[n] = "proof" /\ n \in agent[a].snap.todo
  BY <1>1, <1>2 DEF Cert
<1>5. Life[n] = "open" \/ (Contested /\ Life[n] = "withdrawn")
  <2>1. Life[n] \in {"open", "withdrawn"}
    BY <1>3, <1>4, FateOf
  <2>2. ~ Contested => Life[n] = "open"
    BY <1>2, <1>3, <1>4, FateOf DEF Promise
  <2>3. QED
    BY <2>1, <2>2
<1>6. PICK d : d = Counted(agent[a])
  OBVIOUS
<1>7. Shaped(d) /\ d.snap = agent[a].snap /\ d.work = agent[a].work
  BY <1>2, <1>6 DEF Shaped, Counted
<1>8. PICK c : c = IF Harden THEN [d EXCEPT !.mem.at = "harden"] ELSE Finish(d, "verify")
  OBVIOUS
<1>9. agent' = [agent EXCEPT ![a] = c]
  BY <1>6, <1>8 DEF Certify
<1>10. \/ c.mem.at = "harden" /\ c.work.node = {n} /\ c.snap = agent[a].snap
       \/ c.mem.at = "route" /\ c.snap.todo = agent[a].snap.todo \ {n}
  <2>1. CASE Harden
    BY <1>1, <1>7, <1>8, <2>1 DEF Shaped
  <2>2. CASE ~ Harden
    <3>1. c = Finish(d, "verify")
      BY <1>8, <2>2
    <3>2. QED
      BY <1>1, <1>7, <3>1, FinishFields DEF Ended
  <2>3. QED
    BY <2>1, <2>2
<1>11. PICK r : r = run[a]
  OBVIOUS
<1>12. r = "running" /\ run' = [run EXCEPT ![a] = r]
  BY <1>1, <1>2, <1>11 DEF Promise, IInv
<1>13. Promise(c, r)'
  <2>1. status'[n] \notin BadStatus
    BY <1>1, <1>3, SetStatus DEF IInv, NodeStatus, BadStatus
  <2>2. ~ Contested => \A m \in c.snap.todo : status'[m] \notin BadStatus
    BY <1>2, <1>3, <1>10, <2>1 DEF Promise, Shaped
  <2>3. QED
    BY <1>1, <1>10, <1>12, <2>2 DEF Promise, Contested
<1>14. /\ Kept' /\ Contested' = Contested /\ Reports' = {r} \ {"running"}
       /\ OnTrial' = IF c.mem.at = "harden" THEN c.work.node ELSE {}
  BY <1>1, <1>9, <1>12, <1>13, Turn
<1>15. Reports = {} /\ Reports' = {} /\ OnTrial' \in {{}, {n}}
  BY <1>2, <1>10, <1>11, <1>12, <1>14
<1>16. Claims!Certify(n)
  BY <1>1, <1>2, <1>3, <1>4, <1>5, <1>14, <1>15 DEF Claims!Certify
<1>17. QED
  BY <1>14, <1>15, <1>16 DEF ClaimsStep, Claims!ClaimsNext

\* The trial of a fresh certificate ends, one way or the other.
LEMMA HardenSeen ==
  ASSUME IInv, Kept, Alone, NEW a \in Agent, NEW n \in Node, HardenProof(a, n)
  PROVE  Kept' /\ ClaimsStep
<1>1. /\ a \in setting.agents /\ agent[a].mem.at = "harden" /\ agent[a].work.node = {n}
      /\ UNCHANGED <<formal, run, setting>>
  BY DEF HardenProof, Working, At, KeepRows
<1>2. /\ Shaped(agent[a]) /\ Cert(agent[a]) /\ Promise(agent[a], run[a])
      /\ OnTrial = {n} /\ Reports = {run[a]} \ {"running"}
  BY <1>1, Sole
<1>3. PICK r : r = run[a]
  OBVIOUS
<1>4. r = "running" /\ run' = [run EXCEPT ![a] = r]
  BY <1>1, <1>2, <1>3 DEF Promise, IInv
<1>5. ASSUME NEW c, agent' = [agent EXCEPT ![a] = c], Ended(agent[a], c),
             \A m \in c.snap.todo : status'[m] = status[m]
      PROVE  /\ Kept' /\ Contested' = Contested
             /\ OnTrial' = {} /\ Reports = {} /\ Reports' = {}
  <2>1. c.mem.at = "route" /\ c.snap.todo \subseteq agent[a].snap.todo
    BY <1>5 DEF Ended
  <2>2. Promise(c, r)'
    BY <1>1, <1>2, <1>4, <1>5, <2>1 DEF Promise, Contested
  <2>3. /\ Kept' /\ Contested' = Contested /\ Reports' = {r} \ {"running"}
        /\ OnTrial' = IF c.mem.at = "harden" THEN c.work.node ELSE {}
    BY <1>1, <1>4, <1>5, <2>2, Turn
  <2>4. QED
    BY <1>2, <1>3, <1>4, <2>1, <2>3
<1>6. CASE KeepGraph /\ agent' = [agent EXCEPT ![a] = Finish(@, "verify")]
  <2>1. PICK c : c = Finish(agent[a], "verify")
    OBVIOUS
  <2>2. Ended(agent[a], c) /\ agent' = [agent EXCEPT ![a] = c]
    BY <1>2, <1>6, <2>1, FinishFields
  <2>3. UNCHANGED <<nodes, status>>
    BY <1>6 DEF KeepGraph
  <2>4. Kept' /\ Contested' = Contested /\ OnTrial' = {} /\ Reports = {} /\ Reports' = {}
    BY <1>5, <2>2, <2>3
  <2>5. Claims!Uphold
    BY <1>1, <1>2, <2>3, <2>4 DEF Claims!Uphold, Life
  <2>6. QED
    BY <2>4, <2>5 DEF ClaimsStep, Claims!ClaimsNext
<1>7. CASE Graph!SetNodeStatus(n, "rejected") /\ agent' = [agent EXCEPT ![a] = FinishFlagged(@)]
  <2>1. PICK c : c = FinishFlagged(agent[a])
    OBVIOUS
  <2>2. Ended(agent[a], c) /\ agent' = [agent EXCEPT ![a] = c]
    BY <1>2, <1>7, <2>1, FinishVariants
  <2>3. /\ Life' = [Life EXCEPT ![n] = "withdrawn"]
        /\ \A m \in Node \ {n} : status'[m] = status[m]
    BY <1>7, LifeSet, FateOf DEF NodeStatus
  <2>4. \A m \in c.snap.todo : status'[m] = status[m]
    BY <1>1, <1>2, <2>2, <2>3 DEF Ended, Shaped
  <2>5. Kept' /\ Contested' = Contested /\ OnTrial' = {} /\ Reports = {} /\ Reports' = {}
    BY <1>5, <2>2, <2>4
  <2>6. Claims!Withdraw(n)
    BY <1>1, <1>2, <2>3, <2>5 DEF Claims!Withdraw
  <2>7. QED
    BY <2>5, <2>6 DEF ClaimsStep, Claims!ClaimsNext
<1>8. QED
  BY <1>6, <1>7 DEF HardenProof

\* What a run reports is what it leaves.
LEMMA ReportSeen ==
  ASSUME IInv, Kept, Alone, NEW a \in Agent, EndPass(a)
  PROVE  Kept' /\ ClaimsStep
<1>1. /\ a \in setting.agents /\ agent[a].mem.at = "route"
      /\ UNCHANGED <<nodes, status, formal, setting>>
  BY DEF EndPass, At, KeepGraph
<1>2. /\ Shaped(agent[a]) /\ Promise(agent[a], run[a])
      /\ OnTrial = {} /\ Reports = {run[a]} \ {"running"}
  BY <1>1, Sole
<1>3. PICK last : last = (~ agent[a].snap.progressed \/ agent[a].mem.pass + 1 = MaxAttempts)
  OBVIOUS
<1>4. PICK c : c = [agent[a] EXCEPT !.mem.at = IF last THEN "done" ELSE "plan",
                                    !.mem.pass = @ + 1, !.snap = NoSnapshot]
  OBVIOUS
<1>5. PICK r : r = IF ~ last THEN run[a]
                   ELSE IF agent[a].mem.certified > 0 THEN "made_progress" ELSE "no_certificate"
  OBVIOUS
<1>6. agent' = [agent EXCEPT ![a] = c] /\ run' = [run EXCEPT ![a] = r]
  <2>1. agent' = [agent EXCEPT ![a].mem.at = IF last THEN "done" ELSE "plan",
                               ![a].mem.pass = @ + 1, ![a].snap = NoSnapshot]
    BY <1>3 DEF EndPass
  <2>2. run' = [run EXCEPT ![a] =
           IF ~ last THEN @
           ELSE IF agent[a].mem.certified > 0 THEN "made_progress" ELSE "no_certificate"]
    BY <1>3 DEF EndPass
  <2>3. QED
    BY <1>4, <1>5, <2>1, <2>2
<1>7. c.mem.at = (IF last THEN "done" ELSE "plan") /\ c.snap.todo = {}
  BY <1>2, <1>4 DEF Shaped, NoSnapshot
<1>8. run[a] = "running"
  BY <1>1, <1>2 DEF Promise
<1>9. Promise(c, r)'
  BY <1>5, <1>7, <1>8 DEF Promise
<1>10. /\ Kept' /\ Contested' = Contested /\ Reports' = {r} \ {"running"}
       /\ OnTrial' = IF c.mem.at = "harden" THEN c.work.node ELSE {}
  BY <1>1, <1>6, <1>9, Turn
<1>11. Reports = {} /\ OnTrial' = {} /\ Life' = Life
  BY <1>1, <1>2, <1>7, <1>8, <1>10 DEF Life
<1>12. CASE ~ last
  <2>1. Reports' = {}
    BY <1>5, <1>8, <1>10, <1>12
  <2>2. QED
    BY <1>1, <1>2, <1>10, <1>11, <2>1 DEF ClaimsStep, Claims!claimVars
<1>13. CASE last
  <2>1. /\ r = (IF agent[a].mem.certified > 0 THEN "made_progress" ELSE "no_certificate")
        /\ r \in {"made_progress", "no_certificate"} /\ Reports' = {r}
    BY <1>5, <1>10, <1>13
  <2>2. ASSUME ~ Contested
        PROVE  r = "made_progress" <=> \E n \in Node : Life[n] = "certified"
    <3>1. Tally(agent[a], run[a])
      BY <1>1, <2>2, Now DEF Contested, Undisturbed
    <3>2. IsFiniteSet(Verified) /\ agent[a].mem.certified = Cardinality(Verified)
      BY <1>1, <3>1 DEF Tally
    <3>3. agent[a].mem.certified > 0 <=> Verified # {}
      BY <3>2, FS_EmptySet, FS_CardinalityType
    <3>4. \A n \in Node : Life[n] = "certified" <=> n \in Verified
      BY FateOf DEF Life, Verified
    <3>5. Verified \subseteq Node
      BY Columns DEF IInv, Verified
    <3>6. QED
      BY <2>1, <3>3, <3>4, <3>5
  <2>3. Claims!Report
    BY <1>1, <1>2, <1>10, <1>11, <2>1, <2>2 DEF Claims!Report
  <2>4. QED
    BY <1>10, <1>11, <2>3 DEF ClaimsStep, Claims!ClaimsNext
<1>14. QED
  BY <1>12, <1>13

\* A run that dies leaves a certificate as it is.
LEMMA StopSeen ==
  ASSUME IInv, Kept, Alone, NEW a \in Agent, Stop(a)
  PROVE  Kept' /\ ClaimsStep
<1>1. /\ a \in setting.agents /\ agent[a].mem.at # "done"
      /\ UNCHANGED <<nodes, status, formal, run, setting>>
  BY DEF Stop, At, db
<1>2. /\ Promise(agent[a], run[a]) /\ Reports = {run[a]} \ {"running"}
  BY <1>1, Sole
<1>3. PICK m : m = [Fresh EXCEPT !.at = "stopped"]
  OBVIOUS
<1>4. PICK c : c = [mem |-> m, snap |-> NoSnapshot, work |-> NoWork]
  OBVIOUS
<1>5. agent' = [agent EXCEPT ![a] = c]
  BY <1>3, <1>4 DEF Stop
<1>6. c.mem.at = "stopped" /\ c.snap.todo = {}
  BY <1>3, <1>4 DEF Fresh, NoSnapshot
<1>7. PICK r : r = run[a]
  OBVIOUS
<1>8. r = "running" /\ run' = [run EXCEPT ![a] = r]
  BY <1>1, <1>2, <1>7 DEF Promise, IInv
<1>9. Promise(c, r)'
  BY <1>6, <1>8 DEF Promise
<1>10. /\ Kept' /\ Contested' = Contested /\ Reports' = {r} \ {"running"}
       /\ OnTrial' = IF c.mem.at = "harden" THEN c.work.node ELSE {}
  BY <1>1, <1>5, <1>8, <1>9, Turn
<1>11. Reports = {} /\ Reports' = {} /\ OnTrial' = {} /\ Life' = Life
  BY <1>1, <1>2, <1>6, <1>7, <1>8, <1>10 DEF Life
<1>12. CASE OnTrial = {}
  BY <1>1, <1>10, <1>11, <1>12 DEF ClaimsStep, Claims!claimVars
<1>13. CASE OnTrial # {}
  <2>1. Claims!Uphold
    BY <1>1, <1>10, <1>11, <1>13 DEF Claims!Uphold
  <2>2. QED
    BY <1>10, <1>11, <2>1 DEF ClaimsStep, Claims!ClaimsNext
<1>14. QED
  BY <1>12, <1>13

LEMMA OverruleSeen ==
  ASSUME IInv, Kept, Alone, NEW n \in Node, OtherSession(n)
  PROVE  Kept' /\ ClaimsStep
<1>1. Contested /\ UNCHANGED <<formal, run, agent, setting>>
  BY DEF OtherSession, KeepRows, Contested
<1>2. PICK st \in {"rejected", "proposed"} : Graph!SetNodeStatus(n, st)
  BY DEF OtherSession
<1>3. Life' = [Life EXCEPT ![n] = Fate(st)] /\ n \in nodes /\ Life[n] = Fate(status[n])
  BY <1>2, LifeSet DEF NodeStatus
<1>4. Fate(st) \in {"open", "withdrawn"} /\ Life[n] # "absent"
  BY <1>3, FateOf
<1>5. Kept'
  BY <1>1 DEF Kept, Promise, Contested
<1>6. UNCHANGED <<Contested, OnTrial, Reports>>
  BY <1>1 DEF Contested, OnTrial, Hardening, Reports
<1>7. Claims!Overrule(n)
  BY <1>1, <1>3, <1>4, <1>6 DEF Claims!Overrule
<1>8. QED
  BY <1>5, <1>7 DEF ClaimsStep, Claims!ClaimsNext

LEMMA ClaimsKeep ==
  ASSUME IInv, Kept, Alone, [Next]_vars
  PROVE  Kept' /\ ClaimsStep
<1>1. ASSUME NEW a \in Agent, NEW n \in Node,
             \/ Skip(a, n) \/ Screen(a, n) \/ Choose(a, n)
             \/ Block(a, n) \/ Escalate(a, n)
             \/ Falsify(a, n) \/ Refute(a, n)
             \/ Retrieve(a, n)
             \/ Decompose(a, n) \/ AddChild(a, n)
             \/ (\E child \in Node : LinkChild(a, n, child))
             \/ Formalize(a, n) \/ Prove(a, n) \/ StoreFormal(a, n) \/ Verify(a, n)
             \/ Certify(a, n) \/ HardenProof(a, n)
      PROVE  Kept' /\ ClaimsStep
  BY <1>1, SkipUnseen, WithdrawSeen, ChooseUnseen, ToolsUnseen, PoseSeen, LinkUnseen,
     SourcesUnseen, RewriteSeen, VerifyUnseen, CertifySeen, HardenSeen
<1>2. ASSUME NEW a \in Agent, AgentStep(a) \/ Stop(a) PROVE Kept' /\ ClaimsStep
  BY <1>1, <1>2, PlanUnseen, GateUnseen, ReportSeen, StopSeen DEF AgentStep
<1>3. CASE UNCHANGED vars
  <2>1. UNCHANGED <<nodes, status, formal, run, agent, setting>>
    BY <1>3 DEF vars, db
  <2>2. Kept'
    BY <2>1 DEF Kept, Promise, Contested
  <2>3. UNCHANGED <<Contested, Life, formal, OnTrial, Reports>>
    BY <2>1 DEF Contested, Life, OnTrial, Hardening, Reports
  <2>4. QED
    BY <2>2, <2>3 DEF ClaimsStep, Claims!claimVars
<1>4. QED
  BY <1>2, <1>3, OverruleSeen DEF Next

LEMMA ClaimsStart ==
  ASSUME Init
  PROVE  Kept /\ Claims!ClaimsInit
<1>1. setting \in Setting /\ setting.agents \subseteq Agent
  BY AgentAssumption DEF Init
<1>2. ASSUME NEW a \in setting.agents
      PROVE  /\ run[a] = "running" /\ agent[a].mem.at = "plan" /\ agent[a].snap.todo = {}
  BY <1>1 DEF Init, Fresh, NoSnapshot
<1>3. Kept
  BY <1>2 DEF Kept, Promise
<1>4. Reports = {} /\ OnTrial = {}
  BY <1>2 DEF Reports, OnTrial, Hardening
<1>5. Life \in [Node -> {"absent", "open"}]
  BY FateOf DEF Life, Init
<1>6. formal \in [Node -> Formal] /\ Contested \in BOOLEAN
  BY DEF Init, Formal, Text, Contested
<1>7. QED
  BY <1>3, <1>4, <1>5, <1>6 DEF Claims!ClaimsInit

\* The project and its faults never change.
LEMMA SettingStays ==
  ASSUME [Next]_vars
  PROVE  setting' = setting
<1>1. ASSUME NEW a \in Agent, NEW n \in Node,
             \/ Skip(a, n) \/ Screen(a, n) \/ Choose(a, n)
             \/ Block(a, n) \/ Escalate(a, n)
             \/ Falsify(a, n) \/ Refute(a, n)
             \/ Retrieve(a, n)
             \/ Decompose(a, n) \/ AddChild(a, n)
             \/ (\E child \in Node : LinkChild(a, n, child))
      PROVE  setting' = setting
  BY <1>1 DEF Skip, Screen, Choose, Block, Escalate, Falsify, Refute, Retrieve,
              Decompose, AddChild, LinkChild
<1>2. ASSUME NEW a \in Agent, NEW n \in Node,
             \/ Formalize(a, n) \/ Prove(a, n) \/ StoreFormal(a, n) \/ Verify(a, n)
             \/ Certify(a, n) \/ HardenProof(a, n)
      PROVE  setting' = setting
  BY <1>2 DEF Formalize, Prove, StoreFormal, Verify, Certify, HardenProof
<1>3. ASSUME NEW a \in Agent, AgentStep(a) \/ Stop(a) PROVE setting' = setting
  <2>1. ASSUME Plan(a) \/ GateRound(a) \/ GateEnd(a) \/ EndPass(a) \/ Stop(a)
        PROVE  setting' = setting
    BY <2>1 DEF Plan, GateRound, GateEnd, EndPass, Stop
  <2>2. QED
    BY <1>1, <1>2, <1>3, <2>1 DEF AgentStep
<1>4. ASSUME NEW n \in Node, OtherSession(n) PROVE setting' = setting
  BY <1>4 DEF OtherSession
<1>5. QED
  BY <1>3, <1>4 DEF Next, vars

\* Whatever the project, the tools' answers, the faults and the number of
\* passes, a single agent does to the claims of its project what
\* CertifiedClaims allows, and nothing else (agent.rs:756-763, 1416-1420).
THEOREM AgentImplementsClaims == Spec => AgentKeepsClaims /\ (Alone => Claims!ClaimsSpec)
<1>1. Init => Claims!ClaimsInit /\ (Alone => Kept)
  BY ClaimsStart
<1>2. [Next]_vars => (Alone' <=> Alone)
  BY SettingStays DEF Alone
<1>3. IInv /\ (Alone => Kept) /\ [Next]_vars =>
        /\ (Alone' => Kept')
        /\ [Alone => Claims!ClaimsNext]_(Claims!claimVars)
        /\ (Alone => [Claims!ClaimsNext]_(Claims!claimVars))
  <2>1. CASE Alone
    <3>1. ASSUME IInv, Kept, [Next]_vars
          PROVE  Kept' /\ ClaimsStep
      BY <2>1, <3>1, ClaimsKeep
    <3>2. QED
      BY <2>1, <3>1 DEF ClaimsStep
  <2>2. CASE ~ Alone
    BY <1>2, <2>2
  <2>3. QED
    BY <2>1, <2>2
<1>4. [Next]_vars /\ Alone => Alone'
  BY <1>2
<1>5. QED
  BY SpecIInv, <1>1, <1>3, <1>4, PTL DEF Spec, AgentKeepsClaims, Claims!ClaimsSpec
=============================================================================
