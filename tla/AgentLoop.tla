------------------------------ MODULE AgentLoop ------------------------------
(***************************************************************************)
(* The solve phase of the autonomous agent (reason/orchestration/agent.rs  *)
(* 495-690) on a Lean project: passes over a snapshot of the proof graph,  *)
(* the router, the loop guard, and the gate in front of a certificate.     *)
(*                                                                         *)
(* Several sessions may run an agent on one project (app/lib.rs:1011,      *)
(* app/tui/event.rs:445).  An action is the work between two commits: a    *)
(* node is routed from the pass's copy, while the store moves on.  Rows    *)
(* that only record what happened (evidence, events, the live plan, the    *)
(* trace) are left out.  The loop guard's window of 64 observations is     *)
(* never left, as GuardAssumption says.                                    *)
(***************************************************************************)
EXTENDS Taint, Naturals, FiniteSets

CONSTANTS
  Node,          \* the node ids that can be drawn
  KindOf,        \* the kind of each id
  Title,         \* the titles in use
  Agent,         \* the sessions that run an agent
  MaxAttempts,   \* max_iterations.max(1): passes of a run, attempts of a node
  K,             \* k_consecutive_clean
  Harden,        \* harden_proofs
  MaxVerdicts,   \* bound on what the other sessions decide meanwhile
  Setting        \* the projects, tools and faults considered

Route == {"falsify", "retrieve", "decompose", "verify", "formalize", "prove", "escalate"}
Tool == {"python", "search", "model", "verifier", "prover"}
NodeKind == {"conjecture", "obligation", "lemma"}

\* Lean sources, grouped by what they are worth: a proof or not.
Text == {"proof", "junk"}
Formal == Text \cup {"none"}

LoopThreshold == 3

ASSUME GuardAssumption == MaxAttempts * Cardinality(Node) <= 64

ASSUME AgentAssumption ==
  /\ MaxAttempts \in Nat \ {0} /\ K \in Nat /\ MaxVerdicts \in Nat /\ Harden \in BOOLEAN
  /\ KindOf \in [Node -> NodeKind]
  /\ \A x \in Setting :
       /\ x.nodes \subseteq Node /\ x.edges \subseteq Edge(x.nodes, {"depends_on"})
       /\ ~ HasCycle(x.nodes, x.edges)
       /\ x.title \in [Node -> Title] /\ x.untrusted \subseteq Node
       /\ x.tools \subseteq Tool /\ x.agents \subseteq Agent
       /\ x.faults \subseteq {"stop", "session"}

VARIABLES
  nodes, status, taint, edges,   \* the graph, as in ProofGraph
  formal,      \* the column formal_statement
  hinted,      \* the nodes with suggested_lemmas
  attempts,    \* rows of table attempts for each node
  run,         \* the state column of each agent's row in table runs
  agent,       \* the memory of each agent
  verdicts,    \* how often another session has set a status
  setting      \* never changes

db == <<nodes, status, taint, edges, formal, hinted, attempts, run>>
vars == <<db, agent, verdicts, setting>>

Fresh ==
  [at |-> "plan", pass |-> 0, certified |-> 0, falsified |-> {}, refuted |-> {},
   decomposed |-> {}, seen |-> [t \in Title |-> [r \in Route |-> 0]]]

NoSnapshot ==
  [todo |-> {}, progressed |-> FALSE, level |-> [n \in Node |-> 0],
   formal |-> [n \in Node |-> "none"], hinted |-> {}]

NoWork ==
  [node |-> {}, route |-> "escalate", text |-> "none", accepted |-> FALSE,
   streak |-> 0, rounds |-> 0, child |-> {}]

Init ==
  /\ setting \in Setting
  /\ nodes = setting.nodes
  /\ status = [n \in Node |-> "proposed"]
  /\ taint = [n \in Node |-> "clean"]
  /\ edges = setting.edges
  /\ formal \in [Node -> {"none", "junk"}]
  /\ \A n \in Node \ nodes : formal[n] = "none"
  /\ hinted = {}
  /\ attempts = [n \in Node |-> 0]
  /\ run = [a \in Agent |-> "running"]
  /\ agent = [a \in Agent |-> [mem |-> Fresh, snap |-> NoSnapshot, work |-> NoWork]]
  /\ verdicts = 0

----------------------------------------------------------------------------
\* The store of ProofGraph, without lemmas: set_node_status, add_node, add_edge.
Graph == INSTANCE ProofGraph WITH
  Assumption <- {}, Kind <- {"depends_on"}, Status <- NodeStatus,
  MaxLemmas <- 0, lemmas <- {}

\* An id is left for one more obligation: the bound of the instance.
CanDraw == \E n \in Node \ nodes : KindOf[n] = "obligation"

KeepGraph == UNCHANGED <<nodes, status, taint, edges>>
KeepRows == UNCHANGED <<formal, hinted, attempts, run>>

\* add_attempt: one more row for n.
AddAttempt(n) == attempts' = [attempts EXCEPT ![n] = @ + 1]

----------------------------------------------------------------------------
\* scheduler.rs plan: nodes to dispatch, and the level of each in Kahn's order.
IsOpen(n) == taint[n] = "clean" /\ status[n] \in {"proposed", "active"}

Level ==
  LET scheduled[k \in 0..Cardinality(nodes)] ==
        {n \in nodes : \A e \in edges :
            e.kind = "depends_on" /\ e.source = n =>
               k > 0 /\ e.target \in scheduled[k - 1]}
  IN  [n \in Node |->
         IF n \notin nodes THEN 0
         ELSE CHOOSE k \in 0..Cardinality(nodes) :
                n \in scheduled[k] /\ (k = 0 \/ n \notin scheduled[k - 1])]

\* A batch is the open part of one level, in the order of the uuids: any order.
NextNodes(snap) ==
  {n \in snap.todo : \A m \in snap.todo : snap.level[n] <= snap.level[m]}

\* The first rule whose condition holds.
FirstRule(rules) ==
  rules[CHOOSE i \in DOMAIN rules : rules[i][1] /\ \A j \in 1..(i - 1) : ~ rules[j][1]][2]

\* The rules of base_route.  A refuted node is rejected, so it comes back here only
\* when another session has proposed it again: the run remembers its counterexample.
BaseRoute(n, exhausted, mem, snap) ==
  LET tools == setting.tools
      stated == snap.formal[n] # "none"
  IN  FirstRule(<<
        <<exhausted, "escalate">>,
        <<KindOf[n] \in {"conjecture", "obligation"} /\ n \notin mem.falsified
            /\ n \notin mem.refuted /\ "python" \in tools, "falsify">>,
        <<n \in mem.refuted, "escalate">>,
        <<n \notin snap.hinted /\ "search" \in tools
            /\ KindOf[n] \in {"obligation", "lemma"}, "retrieve">>,
        <<KindOf[n] = "conjecture" /\ "model" \in tools, "decompose">>,
        <<stated /\ "verifier" \in tools, "verify">>,
        <<~ stated /\ {"verifier", "model"} \subseteq tools, "formalize">>,
        <<tools \cap {"prover", "model"} # {}, "prove">>,
        <<TRUE, "escalate">> >>)

\* router.rs base_route: the attempts of a node are bounded.
RouteOf(n, tries, mem, snap) == BaseRoute(n, tries >= MaxAttempts, mem, snap)

----------------------------------------------------------------------------
At(a, pc) == a \in setting.agents /\ agent[a].mem.at = pc

\* The agent is done with the node it works on.
Finish(ag, outcome) ==
  [ag EXCEPT !.mem.at = "route",
             !.snap.todo = @ \ ag.work.node,
             !.snap.progressed = @ \/ outcome # "noop",
             !.work = NoWork]

\* It remembers that the node was falsified, or decomposed, in this run.
FinishFalsify(ag, n) == [Finish(ag, "falsify") EXCEPT !.mem.falsified = @ \cup {n}]
FinishDecompose(ag, n) == [Finish(ag, "decompose") EXCEPT !.mem.decomposed = @ \cup {n}]

\* A certificate is counted, and one that was counted is counted no longer.
Counted(ag) == [ag EXCEPT !.mem.certified = @ + 1]

FinishFlagged(ag) ==
  [Finish(ag, "verify") EXCEPT !.mem.certified = IF @ > 0 THEN @ - 1 ELSE 0]

\* A pass reads the nodes and edges and plans on that copy.
Plan(a) ==
  /\ At(a, "plan")
  /\ agent' = [agent EXCEPT
       ![a].mem.at = "route",
       ![a].snap = [todo |-> {n \in nodes : IsOpen(n)}, progressed |-> FALSE,
                    level |-> Level, formal |-> formal, hinted |-> hinted]]
  /\ UNCHANGED <<db, verdicts, setting>>

\* A node decomposed earlier in this run waits for its obligations.
Skip(a, n) ==
  /\ At(a, "route")
  /\ n \in NextNodes(agent[a].snap) \cap agent[a].mem.decomposed
  /\ agent' = [agent EXCEPT ![a].snap.todo = @ \ {n}]
  /\ UNCHANGED <<db, verdicts, setting>>

\* A node whose text looks like instructions is blocked.
Screen(a, n) ==
  /\ At(a, "route")
  /\ n \in NextNodes(agent[a].snap) \ agent[a].mem.decomposed
  /\ n \in setting.untrusted
  /\ Graph!SetNodeStatus(n, "blocked")
  /\ agent' = [agent EXCEPT ![a].snap.todo = @ \ {n}]
  /\ KeepRows /\ UNCHANGED <<verdicts, setting>>

\* LoopGuard.observe: how often this title was routed this way, now included.
Observed(mem, title, route) == mem.seen[title][route] + 1

\* Read the attempts, route, and show the guard the title and the route.
Choose(a, n) ==
  LET route == RouteOf(n, attempts[n], agent[a].mem, agent[a].snap)
      seen == Observed(agent[a].mem, setting.title[n], route)
  IN  /\ At(a, "route")
      /\ n \in NextNodes(agent[a].snap) \ agent[a].mem.decomposed
      /\ n \notin setting.untrusted
      /\ agent' = [agent EXCEPT
           ![a].mem = [@ EXCEPT !.at = IF seen >= LoopThreshold THEN "block" ELSE route,
                                !.seen[setting.title[n]][route] = seen],
           ![a].work = [NoWork EXCEPT !.node = {n}, !.route = route]]
      /\ UNCHANGED <<db, verdicts, setting>>

\* The agent at work on n has reached pc.
Working(a, n, pc) == At(a, pc) /\ agent[a].work.node = {n}

\* The guard saw a loop: hand the node to a human.
Block(a, n) ==
  /\ Working(a, n, "block")
  /\ Graph!SetNodeStatus(n, "blocked")
  /\ agent' = [agent EXCEPT ![a] = Finish(@, "noop")]
  /\ KeepRows /\ UNCHANGED <<verdicts, setting>>

Escalate(a, n) ==
  /\ Working(a, n, "escalate")
  /\ agent' = [agent EXCEPT ![a] = Finish(@, "noop")]
  /\ UNCHANGED <<db, verdicts, setting>>

----------------------------------------------------------------------------
\* The run remembers a counterexample before it rejects the node.
Remember(ag, n) == [ag EXCEPT !.mem.at = "refute", !.mem.refuted = @ \cup {n}]

\* The verdict of the falsifier is an attempt, the rejection another commit.
Falsify(a, n) ==
  /\ Working(a, n, "falsify")
  /\ AddAttempt(n)
  /\ \/ agent' = [agent EXCEPT ![a] = Remember(@, n)]
     \/ agent' = [agent EXCEPT ![a] = FinishFalsify(@, n)]
  /\ KeepGraph /\ UNCHANGED <<formal, hinted, run, verdicts, setting>>

Refute(a, n) ==
  /\ Working(a, n, "refute")
  /\ Graph!SetNodeStatus(n, "rejected")
  /\ agent' = [agent EXCEPT ![a] = FinishFalsify(@, n)]
  /\ KeepRows /\ UNCHANGED <<verdicts, setting>>

\* set_suggested_lemmas when candidates were found.  Without any, the pass has
\* made progress all the same if the Python worker could be asked.
Retrieve(a, n) ==
  /\ Working(a, n, "retrieve")
  /\ \E found \in BOOLEAN :
       /\ hinted' = IF found THEN hinted \cup {n} ELSE hinted
       /\ agent' = [agent EXCEPT ![a] =
            Finish(@, IF found \/ "python" \in setting.tools THEN "retrieve" ELSE "noop")]
  /\ KeepGraph /\ UNCHANGED <<formal, attempts, run, verdicts, setting>>

\* The model answers with obligations, or with none.
Decompose(a, n) ==
  /\ Working(a, n, "decompose")
  /\ \/ agent' = [agent EXCEPT ![a] = Finish(@, "noop")]
     \/ CanDraw /\ agent' = [agent EXCEPT ![a].mem.at = "child"]
  /\ UNCHANGED <<db, verdicts, setting>>

\* Each obligation is a node and then an edge; an error leaves the rest undone.
AddChild(a, child) ==
  /\ At(a, "child") /\ KindOf[child] = "obligation"
  /\ Graph!AddNode(child)
  /\ agent' = [agent EXCEPT ![a].mem.at = "link", ![a].work.child = {child}]
  /\ KeepRows /\ UNCHANGED <<verdicts, setting>>

LinkChild(a, n, child) ==
  /\ Working(a, n, "link") /\ agent[a].work.child = {child}
  /\ Graph!AddEdge([source |-> n, target |-> child, kind |-> "depends_on"])
  /\ \/ CanDraw /\ agent' = [agent EXCEPT ![a].mem.at = "child", ![a].work.child = {}]
     \/ agent' = [agent EXCEPT ![a] = FinishDecompose(@, n)]
  /\ KeepRows /\ UNCHANGED <<verdicts, setting>>

----------------------------------------------------------------------------
(***************************************************************************)
(* verify_source, one round.  A proof may fail a round (a timeout, a dead  *)
(* session).  Junk may pass one, but the verifier does not err K times in  *)
(* a row: that is what the gate relies on.                                 *)
(***************************************************************************)
RoundOutcome(text, streak) ==
  IF text = "proof" \/ streak + 1 < K THEN BOOLEAN ELSE {FALSE}

\* best_of_n: the first source that passes a round, or the last one, or none.
Formalize(a, n) ==
  /\ Working(a, n, "formalize")
  /\ \/ /\ agent' = [agent EXCEPT ![a] = Finish(@, "noop")]
        /\ UNCHANGED attempts
     \/ \E text \in Text : \E accepted \in RoundOutcome(text, 0) :
          /\ AddAttempt(n)
          /\ agent' = [agent EXCEPT ![a].mem.at = "store",
                         ![a].work.text = text, ![a].work.accepted = accepted]
  /\ KeepGraph /\ UNCHANGED <<formal, hinted, run, verdicts, setting>>

\* The prover (ProofJobs) returns nothing, a source of another statement than
\* the one the copy of the node carries, or a source to check.
Prove(a, n) ==
  /\ Working(a, n, "prove")
  /\ AddAttempt(n)
  /\ \/ agent' = [agent EXCEPT ![a] = Finish(@, "prove_failed")]
     \/ \E text \in Text : \E accepted \in RoundOutcome(text, 0) :
          agent' = [agent EXCEPT ![a].mem.at = "store",
                      ![a].work.text = text, ![a].work.accepted = accepted]
  /\ KeepGraph /\ UNCHANGED <<formal, hinted, run, verdicts, setting>>

\* Mutant of StoreFormal: an accepted source is certified, not stored.
StoreRejectedOnly(a, n) ==
  LET work == agent[a].work
  IN  /\ Working(a, n, "store")
      /\ formal' = IF work.accepted THEN formal ELSE [formal EXCEPT ![n] = work.text]
      /\ agent' = [agent EXCEPT ![a] =
           IF work.accepted THEN [@ EXCEPT !.mem.at = "gate"] ELSE Finish(@, "formalize")]
      /\ KeepGraph /\ UNCHANGED <<hinted, attempts, run, verdicts, setting>>

\* set_formal_statement, whether or not the source was accepted.
StoreFormal(a, n) ==
  LET work == agent[a].work
  IN  /\ Working(a, n, "store")
      /\ formal' = [formal EXCEPT ![n] = work.text]
      /\ agent' = [agent EXCEPT ![a] =
           IF work.accepted THEN [@ EXCEPT !.mem.at = "gate"] ELSE Finish(@, "formalize")]
      /\ KeepGraph /\ UNCHANGED <<hinted, attempts, run, verdicts, setting>>

\* The stored source is checked as the pass's copy has it.
Verify(a, n) ==
  LET text == agent[a].snap.formal[n]
  IN  /\ Working(a, n, "verify")
      /\ \E clean \in RoundOutcome(text, 0) :
           agent' = [agent EXCEPT ![a] =
             IF clean THEN [@ EXCEPT !.mem.at = "gate", !.work.text = text]
             ELSE Finish(@, "verify")]
      /\ UNCHANGED <<db, verdicts, setting>>

----------------------------------------------------------------------------

\* certify_k_consecutive: max_rounds.
MaxRounds == IF 2 * K > 0 THEN 2 * K ELSE 1

\* Mutant of GateRound: the round is not counted.
GateRoundUncounted(a) ==
  LET work == agent[a].work
  IN  /\ At(a, "gate") /\ work.streak < K /\ work.rounds < MaxRounds
      /\ \E clean \in RoundOutcome(work.text, work.streak) :
           agent' = [agent EXCEPT ![a].work.streak = IF clean THEN @ + 1 ELSE 0]
      /\ UNCHANGED <<db, verdicts, setting>>

\* k_consecutive_clean, one round.
GateRound(a) ==
  LET work == agent[a].work
  IN  /\ At(a, "gate") /\ work.streak < K /\ work.rounds < MaxRounds
      /\ \E clean \in RoundOutcome(work.text, work.streak) :
           agent' = [agent EXCEPT
             ![a].work.rounds = @ + 1,
             ![a].work.streak = IF clean THEN @ + 1 ELSE 0]
      /\ UNCHANGED <<db, verdicts, setting>>

\* The streak decides, unless the pool and critic gate objects.
GateEnd(a) ==
  LET work == agent[a].work
  IN  /\ At(a, "gate") /\ (work.streak >= K \/ work.rounds >= MaxRounds)
      /\ \/ agent' = [agent EXCEPT ![a] = Finish(@, "verify")]
         \/ /\ work.streak >= K
            /\ agent' = [agent EXCEPT ![a].mem.at = "certify"]
      /\ UNCHANGED <<db, verdicts, setting>>

\* certify publishes the status first ...
Certify(a, n) ==
  /\ Working(a, n, "certify")
  /\ Graph!SetNodeStatus(n, "formally_verified")
  /\ agent' = [agent EXCEPT ![a] =
       IF Harden THEN [Counted(@) EXCEPT !.mem.at = "harden"]
       ELSE Finish(Counted(@), "verify")]
  /\ KeepRows /\ UNCHANGED <<verdicts, setting>>

\* Mutant of HardenProof: a flagged node stays counted.
HardenStillCounted(a, n) ==
  /\ Working(a, n, "harden")
  /\ \/ Graph!SetNodeStatus(n, "rejected")
     \/ KeepGraph
  /\ agent' = [agent EXCEPT ![a] = Finish(@, "verify")]
  /\ KeepRows /\ UNCHANGED <<verdicts, setting>>

\* ... and takes it back when the battery flags the proof.  A battery that
\* cannot run leaves the certificate as it is.
HardenProof(a, n) ==
  /\ Working(a, n, "harden")
  /\ \/ /\ Graph!SetNodeStatus(n, "rejected")
        /\ agent' = [agent EXCEPT ![a] = FinishFlagged(@)]
     \/ /\ KeepGraph
        /\ agent' = [agent EXCEPT ![a] = Finish(@, "verify")]
  /\ KeepRows /\ UNCHANGED <<verdicts, setting>>

----------------------------------------------------------------------------
\* The pass is over.  The run goes on while there are passes and progress.
EndPass(a) ==
  LET mem == agent[a].mem
      last == ~ agent[a].snap.progressed \/ mem.pass + 1 = MaxAttempts
  IN  /\ At(a, "route") /\ agent[a].snap.todo = {}
      /\ agent' = [agent EXCEPT
           ![a].mem.at = IF last THEN "done" ELSE "plan",
           ![a].mem.pass = @ + 1,
           ![a].snap = NoSnapshot]
      /\ run' = [run EXCEPT ![a] =
           IF ~ last THEN @
           ELSE IF mem.certified > 0 THEN "made_progress" ELSE "no_certificate"]
      /\ KeepGraph /\ UNCHANGED <<formal, hinted, attempts, verdicts, setting>>

\* An error of any call ends the run where it is, and so does the death of
\* the process: nothing is undone and the row of the run stays "running".
Stop(a) ==
  /\ "stop" \in setting.faults
  /\ a \in setting.agents /\ ~ At(a, "done") /\ ~ At(a, "stopped")
  /\ agent' = [agent EXCEPT ![a] =
       [mem |-> [Fresh EXCEPT !.at = "stopped"], snap |-> NoSnapshot, work |-> NoWork]]
  /\ UNCHANGED <<db, verdicts, setting>>

\* Another session rejects a node or proposes it again.
OtherSession(n) ==
  /\ "session" \in setting.faults /\ verdicts < MaxVerdicts
  /\ \E st \in {"rejected", "proposed"} : Graph!SetNodeStatus(n, st)
  /\ verdicts' = verdicts + 1
  /\ KeepRows /\ UNCHANGED <<agent, setting>>

AgentStep(a) ==
  \/ Plan(a)
  \/ \E n \in Node :
        \/ Skip(a, n) \/ Screen(a, n) \/ Choose(a, n)
        \/ Block(a, n) \/ Escalate(a, n)
        \/ Falsify(a, n) \/ Refute(a, n)
        \/ Retrieve(a, n)
        \/ Decompose(a, n) \/ AddChild(a, n) \/ (\E child \in Node : LinkChild(a, n, child))
        \/ Formalize(a, n) \/ Prove(a, n) \/ StoreFormal(a, n) \/ Verify(a, n)
        \/ Certify(a, n) \/ HardenProof(a, n)
  \/ GateRound(a) \/ GateEnd(a)
  \/ EndPass(a)

Next ==
  \/ \E a \in Agent : AgentStep(a) \/ Stop(a)
  \/ \E n \in Node : OtherSession(n)

Spec == Init /\ [][Next]_vars

\* A run is a loop of calls that return: each session keeps going.
FairSpec == Spec /\ \A a \in Agent : WF_vars(AgentStep(a))

----------------------------------------------------------------------------
(* Properties *)

Memory ==
  [at : Route \cup {"plan", "route", "block", "refute", "child", "link", "store",
                    "gate", "certify", "harden", "done", "stopped"},
   pass : 0..MaxAttempts, certified : 0..(MaxAttempts * Cardinality(Node)),
   falsified : SUBSET Node, refuted : SUBSET Node, decomposed : SUBSET Node,
   seen : [Title -> [Route -> 0..64]]]

Snapshot ==
  [todo : SUBSET Node, progressed : BOOLEAN, level : [Node -> 0..Cardinality(Node)],
   formal : [Node -> Formal], hinted : SUBSET Node]

Work ==
  [node : SUBSET Node, route : Route, text : Formal, accepted : BOOLEAN,
   streak : 0..K, rounds : 0..MaxRounds, child : SUBSET Node]

\* The shape of the tables and of each agent's memory; the rounds of a gate
\* never exceed max_rounds.
AgentTypeOK ==
  /\ nodes \subseteq Node
  /\ status \in [Node -> NodeStatus]
  /\ taint \in [Node -> TaintValue]
  /\ edges \subseteq Edge(nodes, {"depends_on"})
  /\ formal \in [Node -> Formal] /\ hinted \subseteq Node
  /\ attempts \in [Node -> Nat]
  /\ run \in [Agent -> {"running", "made_progress", "no_certificate"}]
  /\ \A a \in Agent :
       agent[a].mem \in Memory /\ agent[a].snap \in Snapshot /\ agent[a].work \in Work
  /\ verdicts \in 0..MaxVerdicts /\ setting \in Setting

Alone == \A x, y \in setting.agents : x = y

\* A project with one agent: the source stored with a formally verified node
\* is a proof, although the verifier errs in both directions, the source was
\* chosen passes ago, and other sessions change statuses (agent.rs:1416-1420).
CertificateIsOfStoredSource ==
  Alone => \A n \in nodes : status[n] = "formally_verified" => formal[n] = "proof"

\* What a run looks like from outside: what has become of each claim, the
\* certificate that is still being hardened, what the rows of the runs say.
Fate(st) ==
  CASE st = "formally_verified" -> "certified"
    [] st \in BadStatus -> "withdrawn"
    [] OTHER -> "open"

Life == [n \in Node |-> IF n \in nodes THEN Fate(status[n]) ELSE "absent"]
Hardening == {a \in setting.agents : agent[a].mem.at = "harden"}
OnTrial == UNION {agent[a].work.node : a \in Hardening}
Reports == {run[a] : a \in setting.agents} \ {"running"}
Contested == "session" \in setting.faults

Claims == INSTANCE CertifiedClaims WITH
  Claim <- Node, Source <- Formal, Proof <- {"proof"},
  contested <- Contested, life <- Life, source <- formal,
  trial <- OnTrial, report <- Reports

\* A single agent implements CertifiedClaims, through passes on old copies, a
\* verifier that errs both ways, crashes and other sessions: it certifies only
\* what is open and proved by the stored source, never touches a certificate
\* or its source again but to harden it, and reports what it leaves
\* (agent.rs:756-763, 1416-1420, 1571-1578).
AgentKeepsClaims ==
  Claims!ClaimsInit /\ [][Alone => Claims!ClaimsNext]_(Claims!claimVars)

\* The count of certificates an undisturbed run reports is the number of
\* formally verified nodes, through refuted, hardened and rejected ones, and
\* its final state says whether there is one (agent.rs:756-763, 1571-1578).
CountMatchesGraph ==
  Alone /\ "session" \notin setting.faults =>
    \A a \in setting.agents :
      LET verified == {n \in nodes : status[n] = "formally_verified"}
      IN  /\ agent[a].mem.at \notin {"harden", "stopped"}
               => agent[a].mem.certified = Cardinality(verified)
          /\ agent[a].mem.at = "done" => (run[a] = "made_progress" <=> verified # {})

\* A pass dispatches nothing that rests, through any chain of edges, on a node
\* rejected or blocked at that moment, whoever rejected it and whatever
\* decompositions grew meanwhile (scheduler.rs:194-199, router.rs:3-6).
PlanLeavesRefutedBranch ==
  [][\A a \in Agent : Plan(a) =>
        \A n \in agent'[a].snap.todo : \A m \in Closure(nodes, TaintEdges(edges), n) :
           status[m] \notin BadStatus]_vars

\* Every run comes to an end, whatever the tools answer, unless it is stopped.
RunEnds == \A a \in Agent : a \in setting.agents ~> agent[a].mem.at \in {"done", "stopped"}
=============================================================================
