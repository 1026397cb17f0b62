--------------------------- MODULE MCStoreWriters ---------------------------
(***************************************************************************)
(* The ways several writers share the store without a common transaction,  *)
(* side by side: sessions that approve proposals (Proposals), unfinished   *)
(* calls on two connections (StoreRaces), the threads of a batch (Team).   *)
(* A behaviour is of one of them; the others have nothing to do.           *)
(***************************************************************************)
EXTENDS Proposals, StoreRaces, Team, TLC

CONSTANTS a, b, n1, n2, s1, s2, c1, c2, t1, t2, t3

VARIABLE scene   \* "gate", "races" or "batch"

----------------------------------------------------------------------------
\* Two nodes the user has made, edges that close a cycle together, a lemma
\* node, a formal node, a status change and an attempt to certify a node.
MCNode == {a, b, n1, n2}
MCBase == {a, b}
MCStatus == NodeStatus
MCKind == {"depends_on"}

DependsOn(x, y) ==
  [action |-> "add_edge", edge |-> [source |-> x, target |-> y, kind |-> "depends_on"]]
AddNodeOf(kind) == [action |-> "add_node", kind |-> kind]
SetStatusOf(n, st) == [action |-> "set_status", node |-> n, status |-> st]

\* Two sessions that may die: an edge, a status change, a forbidden
\* certification and a formal node.
RaceMutation ==
  "p1" :> DependsOn(a, b) @@ "p2" :> SetStatusOf(b, "blocked")
  @@ "p3" :> SetStatusOf(a, "formally_verified")
  @@ "p4" :> AddNodeOf("formal_statement")

\* One session: an edge, its reverse, a lemma and a formal statement.
SoloMutation ==
  "p1" :> DependsOn(a, b) @@ "p2" :> DependsOn(b, a)
  @@ "p3" :> AddNodeOf("lemma")
  @@ "p4" :> [action |-> "set_formal_statement", node |-> a]

MCProposal == {"p1", "p2", "p3", "p4"}

Solo == [mutation |-> SoloMutation, sessions |-> {s1}, dies |-> FALSE]
Race == [mutation |-> RaceMutation, sessions |-> {s1, s2}, dies |-> TRUE]

MCSettings == {Solo, Race}
----------------------------------------------------------------------------
\* Two connections on two nodes of kind lemma; three obligations, of the third
\* of which the project knows nothing.
MCConn == {c1, c2}
RaceNode == {a, b}
RaceStatus == {"proposed", "rejected", "informally_verified"}
MCBatch == <<t1, t2, t3>>
\* The connections alone are alike: a proposal names the nodes.
MCSymmetry == Permutations(MCConn)
----------------------------------------------------------------------------
NoGate ==
  /\ queue = <<>> /\ setting = Solo
  /\ decision = [p \in Proposal |-> "none"] /\ applied = [p \in Proposal |-> 0]
  /\ sess = [s \in Session |-> Idle]
NoRace == call = [c \in Conn |-> Ready] /\ overtaken = {}
NoBatch ==
  /\ workers = <<>> /\ chunks = <<>>
  /\ rows = [n \in {t1, t2, t3} |-> [s \in 1 .. 4 |-> 0]]
  /\ result = [is |-> "none"]

WritersInit ==
  \/ scene = "gate" /\ ProposalInit /\ NoRace /\ NoBatch
  \/ scene = "races" /\ RaceInit /\ NoGate /\ NoBatch
  \/ scene = "batch" /\ BatchInit /\ Init /\ NoGate /\ NoRace

WritersNext ==
  /\ \/ scene = "gate" /\ ProposalNext /\ UNCHANGED <<call, overtaken, batchVars>>
     \/ /\ scene = "races" /\ RaceNext
        /\ nodes' \subseteq RaceNode /\ \A n \in Node : status'[n] \in RaceStatus
        /\ UNCHANGED <<queue, decision, sess, applied, setting, batchVars>>
     \/ scene = "batch" /\ BatchNext /\ UNCHANGED <<pvars, call, overtaken>>
  /\ UNCHANGED scene

WritersSpec == WritersInit /\ [][WritersNext]_<<scene, pvars, call, overtaken, batchVars>>
=============================================================================
