----------------------------- MODULE Proposals -----------------------------
(***************************************************************************)
(* The approval gate of components/reason/orchestration/chat.rs: a model   *)
(* files graph mutations as proposals, and a user (or, for low-risk ones,  *)
(* the auto-approval policy) approves or rejects them.  Every session - a  *)
(* CLI process, the TUI main thread - has a connection of its own.         *)
(*                                                                         *)
(* approve reads the proposal, applies its mutation to the ProofGraph and  *)
(* marks it approved: three separate commits, between which other sessions *)
(* run and the process may die.                                            *)
(***************************************************************************)
EXTENDS ProofGraph, Sequences

CONSTANTS
  Proposal,   \* the proposal ids
  Base,       \* the nodes the user has created before
  Session,    \* the sessions
  Setting     \* the settings the gate is used in

LowRiskKind == {"conjecture", "definition", "assumption", "strategy",
                "lemma", "obligation", "computation"}

NodeKind == LowRiskKind \cup {"counterexample", "informal_proof",
              "formal_statement", "formal_proof", "evidence"}

MutationType ==
  [action : {"add_node"}, kind : NodeKind]
  \cup [action : {"add_edge"}, edge : Edge(Node, Kind)]
  \cup [action : {"set_status"}, node : Node, status : Status]
  \cup [action : {"set_formal_statement"}, node : Node]

ASSUME ProposalAssumption ==
  /\ Base \subseteq Node
  /\ \A x \in Setting : /\ x.mutation \in [Proposal -> MutationType]
                        /\ x.sessions \subseteq Session
                        /\ x.dies \in BOOLEAN

VARIABLES
  queue,     \* the proposals in the order of created_at
  decision,  \* their status column; "none" before they are filed
  sess,      \* what each session is in the middle of
  applied,   \* ghost: how often each mutation was applied, counted up to 2
  setting    \* never changes: the mutation of each proposal, the sessions at
             \* work, and whether one may die in the middle of a call

pvars == <<nodes, status, taint, edges, lemmas, queue, decision, sess, applied, setting>>

Mutation == setting.mutation

Idle == [at |-> "idle"]

\* A session between the steps of approve(p); rest is what is left of the
\* snapshot when resolve_auto_approvals makes the call, in the order of queue.
Approving(p, auto, rest) == [at |-> "apply", p |-> p, auto |-> auto, rest |-> rest]
Resolving(p, auto, rest) == [at |-> "resolve", p |-> p, auto |-> auto, rest |-> rest]
Scanning(rest) == [at |-> "scan", rest |-> rest]

\* After one proposal of the snapshot: the next one, or the end of the pass.
Continue(auto, rest) == IF auto /\ rest # {} THEN Scanning(rest) ELSE Idle

SessionType ==
  {Idle}
  \cup [at : {"apply", "resolve"}, p : Proposal, auto : BOOLEAN, rest : SUBSET Proposal]
  \cup [at : {"scan"}, rest : (SUBSET Proposal) \ {{}}]

ProposalTypeOK ==
  /\ TypeOK
  /\ queue \in Seq(Proposal)
  /\ decision \in [Proposal -> {"none", "pending", "approved", "rejected"}]
  /\ sess \in [Session -> SessionType]
  /\ applied \in [Proposal -> 0..2]
  /\ setting \in Setting

ProposalInit ==
  /\ nodes = Base
  /\ status = [n \in Node |-> "proposed"]
  /\ taint = [n \in Node |-> "clean"]
  /\ edges = {}
  /\ lemmas = {}
  /\ queue = <<>>
  /\ decision = [p \in Proposal |-> "none"]
  /\ sess = [s \in Session |-> Idle]
  /\ applied = [p \in Proposal |-> 0]
  /\ setting \in Setting

----------------------------------------------------------------------------
\* Mutant of GrantsCertificate: the guard is gone.
GrantsNothing(m) == FALSE

\* Tested by validate_mutation when the proposal is filed and again by
\* apply_mutation: a model may not certify a node.
GrantsCertificate(m) == m.action = "set_status" /\ m.status = "formally_verified"

LowRisk(m) ==
  \/ m.action = "add_node" /\ m.kind \in LowRiskKind
  \/ m.action = "add_edge"

\* Whether the Store call of apply_mutation returns Ok.
Applicable(m) ==
  \/ m.action = "add_node"
  \/ m.action = "add_edge" /\ Insertable(m.edge)
  \/ m.action = "set_status" /\ ~ GrantsCertificate(m) /\ m.node \in nodes
  \/ m.action = "set_formal_statement" /\ m.node \in nodes

\* The Store call of apply_mutation.  The formal_statement column is not part
\* of ProofGraph.  An add_node waits when the pool Node of ids is used up.
ApplyMutation(m) ==
  \/ m.action = "add_node" /\ \E n \in Node : AddNode(n)
  \/ m.action = "add_edge" /\ AddEdge(m.edge)
  \/ m.action = "set_status" /\ SetNodeStatus(m.node, m.status)
  \/ m.action = "set_formal_statement" /\ UNCHANGED vars

----------------------------------------------------------------------------
\* send: file a mutation of the model's reply.
Propose(p) ==
  /\ decision[p] = "none"
  /\ ~ GrantsCertificate(Mutation[p])
  /\ queue' = Append(queue, p)
  /\ decision' = [decision EXCEPT ![p] = "pending"]
  /\ UNCHANGED <<vars, sess, applied>>

\* Mutant of StartApprove: a resolved proposal is not refused.
StartApproveAgain(s, p) ==
  /\ sess[s] = Idle
  /\ decision[p] # "none"
  /\ sess' = [sess EXCEPT ![s] = Approving(p, FALSE, {})]
  /\ UNCHANGED <<vars, queue, decision, applied>>

\* approve: read the proposal, refuse a resolved one.
StartApprove(s, p) ==
  /\ sess[s] = Idle
  /\ decision[p] = "pending"
  /\ sess' = [sess EXCEPT ![s] = Approving(p, FALSE, {})]
  /\ UNCHANGED <<vars, queue, decision, applied>>

\* resolve_auto_approvals: read the pending proposals.
StartAuto(s) ==
  LET pending == {p \in Proposal : decision[p] = "pending"}
  IN  /\ sess[s] = Idle
      /\ pending # {}
      /\ sess' = [sess EXCEPT ![s] = Scanning(pending)]
      /\ UNCHANGED <<vars, queue, decision, applied>>

\* The first of these proposals by created_at.
IsFirst(p, set) ==
  \E i \in DOMAIN queue : queue[i] = p /\ \A j \in 1 .. i - 1 : queue[j] \notin set

\* One round of its loop: skip what a human must see, else call approve,
\* whose error (somebody resolved the proposal meanwhile) ends the pass.
ScanNext(s) ==
  /\ sess[s].at = "scan"
  /\ \E p \in sess[s].rest :
       LET rest == sess[s].rest \ {p}
       IN  /\ IsFirst(p, sess[s].rest)
           /\ sess' = [sess EXCEPT ![s] =
                         IF ~ LowRisk(Mutation[p]) THEN Continue(TRUE, rest)
                         ELSE IF decision[p] = "pending" THEN Approving(p, TRUE, rest)
                         ELSE Idle]
  /\ UNCHANGED <<vars, queue, decision, applied>>

\* approve, second step.
Apply(s) ==
  LET p == sess[s].p
  IN  /\ sess[s].at = "apply"
      /\ Applicable(Mutation[p])
      /\ ApplyMutation(Mutation[p])
      /\ sess' = [sess EXCEPT ![s] = Resolving(p, sess[s].auto, sess[s].rest)]
      /\ applied' = [applied EXCEPT ![p] = IF @ < 2 THEN @ + 1 ELSE 2]
      /\ UNCHANGED <<queue, decision>>

\* Mutant of ApplyFails: the error is dropped and approve goes on.
ApplyFailsSilently(s) ==
  /\ sess[s].at = "apply"
  /\ ~ Applicable(Mutation[sess[s].p])
  /\ sess' = [sess EXCEPT ![s] = Resolving(sess[s].p, sess[s].auto, sess[s].rest)]
  /\ UNCHANGED <<vars, queue, decision, applied>>

\* The mutation fails: the error ends approve, and an auto-approval pass.
ApplyFails(s) ==
  /\ sess[s].at = "apply"
  /\ ~ Applicable(Mutation[sess[s].p])
  /\ sess' = [sess EXCEPT ![s] = Idle]
  /\ UNCHANGED <<vars, queue, decision, applied>>

\* resolve_proposal, a single UPDATE guarded by status='pending'.
Resolved(p, verdict) ==
  IF decision[p] = "pending" THEN [decision EXCEPT ![p] = verdict] ELSE decision

\* approve, third step: when the row is no longer pending the call fails.
Resolve(s) ==
  LET p == sess[s].p
  IN  /\ sess[s].at = "resolve"
      /\ decision' = Resolved(p, "approved")
      /\ sess' = [sess EXCEPT ![s] = IF decision[p] = "pending"
                                     THEN Continue(sess[s].auto, sess[s].rest)
                                     ELSE Idle]
      /\ UNCHANGED <<vars, queue, applied>>

Reject(s, p) ==
  /\ sess[s] = Idle
  /\ decision[p] # "none"
  /\ decision' = Resolved(p, "rejected")
  /\ UNCHANGED <<vars, queue, sess, applied>>

\* The session's process dies; its connection commits nothing more.
Crash(s) ==
  /\ setting.dies
  /\ sess[s] # Idle
  /\ sess' = [sess EXCEPT ![s] = Idle]
  /\ UNCHANGED <<vars, queue, decision, applied>>

ProposalNext ==
  /\ \/ \E p \in Proposal : Propose(p)
     \/ \E s \in setting.sessions :
           \/ \E p \in Proposal : StartApprove(s, p) \/ Reject(s, p)
           \/ StartAuto(s) \/ ScanNext(s)
           \/ Apply(s) \/ ApplyFails(s) \/ Resolve(s)
           \/ Crash(s)
  /\ UNCHANGED setting

ProposalSpec == ProposalInit /\ [][ProposalNext]_pvars

----------------------------------------------------------------------------
(* Properties *)

\* Models may not grant themselves formal verification (chat.rs:391-394): no
\* interleaving of proposals, approvals and auto-approvals certifies a node.
NoModelCertificate == \A n \in nodes : status[n] # "formally_verified"

\* "approved" is never recorded for a mutation that was not applied: not by a
\* race with another session, not by a crash, not by a failing Store call.
ApprovedWasApplied ==
  \A p \in Proposal : decision[p] = "approved" => applied[p] > 0

\* One session, which finishes its calls.
Undisturbed == ~ setting.dies /\ \A s, t \in setting.sessions : s = t

\* With one session that finishes its calls, the graph and the verdicts agree
\* whenever it is idle: exactly the approved mutations are in the graph, once,
\* however many calls failed before.
GraphMatchesVerdicts ==
  Undisturbed /\ (\A s \in Session : sess[s] = Idle) =>
     \A p \in Proposal : applied[p] = IF decision[p] = "approved" THEN 1 ELSE 0
============================================================================
