------------------------- MODULE StoreWritersProofs -------------------------
(***************************************************************************)
(* Safety proofs about the writers of the store, for any number of them.   *)
(*                                                                         *)
(* Proposals: what the gate does to the proof graph are steps of           *)
(* ProofGraph, so the graph's own invariant, proved in ProofGraphProofs,   *)
(* carries over.                                                           *)
(*                                                                         *)
(* StoreRaces: labels may be stale while set_taint is under way, but the   *)
(* tables stay in order, and that is all a transaction needs to put the    *)
(* labels right.                                                           *)
(*                                                                         *)
(* Team: the chunks cut the batch, so no two threads write the rows of one *)
(* obligation, and a thread alone keeps them in the order of its commits.  *)
(***************************************************************************)
EXTENDS Proposals, StoreRaces, Team, ProofGraphProofs, FiniteSetTheorems, WellFoundedInduction

----------------------------------------------------------------------------
(* The approval gate. *)

\* What a session is in the middle of, field by field.
SessionOK(c) ==
  /\ c \in SessionType
  /\ c.at \in {"apply", "resolve"} => c.p \in Proposal /\ c.auto \in BOOLEAN
  /\ c.at \in {"apply", "resolve", "scan"} => c.rest \in SUBSET Proposal

\* A session that is about to mark a proposal has applied it.
Applied(c) == c.at = "resolve" => applied[c.p] > 0

GateInv ==
  /\ IInv
  /\ ProposalTypeOK
  /\ NoModelCertificate
  /\ ApprovedWasApplied
  /\ \A s \in Session : Applied(sess[s])

\* Nobody else resolves a proposal that the only session has in hand.
Open(c) == c.at \in {"apply", "resolve"} => decision[c.p] = "pending"

\* The mutation of p is in the graph and its verdict is about to be written.
InHand(p) == \E s \in Session : sess[s].at = "resolve" /\ sess[s].p = p

Matching ==
  \A p \in Proposal : applied[p] = IF decision[p] = "approved" \/ InHand(p) THEN 1 ELSE 0

SoloInv ==
  /\ \A s \in Session \ setting.sessions : sess[s] = Idle
  /\ Undisturbed => (\A s \in Session : Open(sess[s])) /\ Matching

----------------------------------------------------------------------------
\* The fields of a session, of a mutation and of the settings.
LEMMA SessionTypes ==
  ASSUME ProposalTypeOK, NEW s \in Session
  PROVE  SessionOK(sess[s])
<1>1. sess[s] \in SessionType
  BY DEF ProposalTypeOK
<1>2. QED
  BY <1>1 DEF SessionOK, SessionType, Idle

LEMMA GateTypes ==
  ASSUME ProposalTypeOK
  PROVE  /\ queue \in Seq(Proposal) /\ setting \in Setting /\ setting.sessions \subseteq Session
         /\ decision \in [Proposal -> {"none", "pending", "approved", "rejected"}]
         /\ sess \in [Session -> SessionType] /\ applied \in [Proposal -> 0..2]
         /\ \A p \in Proposal :
              LET m == Mutation[p]
              IN  /\ m.action = "add_edge" => m.edge \in Edge(Node, Kind)
                  /\ m.action = "set_status" => m.node \in Node /\ m.status \in Status
<1>1. setting \in Setting /\ setting.mutation \in [Proposal -> MutationType]
      /\ setting.sessions \subseteq Session
  BY ProposalAssumption DEF ProposalTypeOK
<1>2. ASSUME NEW m \in MutationType
      PROVE  /\ m.action = "add_edge" => m.edge \in Edge(Node, Kind)
             /\ m.action = "set_status" => m.node \in Node /\ m.status \in Status
  BY DEF MutationType
<1>3. QED
  BY <1>1, <1>2 DEF ProposalTypeOK, Mutation

\* What a session is left with is typed.
LEMMA SessionStates ==
  ASSUME NEW p \in Proposal, NEW auto \in BOOLEAN, NEW rest \in SUBSET Proposal
  PROVE  /\ Idle \in SessionType /\ Idle.at = "idle"
         /\ Approving(p, auto, rest) \in SessionType
         /\ Approving(p, auto, rest).at = "apply" /\ Approving(p, auto, rest).p = p
         /\ Resolving(p, auto, rest) \in SessionType
         /\ Resolving(p, auto, rest).at = "resolve" /\ Resolving(p, auto, rest).p = p
         /\ rest # {} => Scanning(rest) \in SessionType
         /\ Scanning(rest).at = "scan"
         /\ Continue(auto, rest) \in SessionType
         /\ Continue(auto, rest).at \in {"idle", "scan"}
<1>1. Idle \in SessionType /\ Idle.at = "idle"
  BY DEF SessionType, Idle
<1>2. Approving(p, auto, rest) \in SessionType /\ Resolving(p, auto, rest) \in SessionType
      /\ (rest # {} => Scanning(rest) \in SessionType)
  BY DEF SessionType, Approving, Resolving, Scanning
<1>3. /\ Approving(p, auto, rest).at = "apply" /\ Approving(p, auto, rest).p = p
      /\ Resolving(p, auto, rest).at = "resolve" /\ Resolving(p, auto, rest).p = p
      /\ Scanning(rest).at = "scan"
  BY DEF Approving, Resolving, Scanning
<1>4. Continue(auto, rest) \in {Idle, Scanning(rest)}
      /\ (Continue(auto, rest) # Idle => rest # {})
  BY DEF Continue
<1>5. QED
  BY <1>1, <1>2, <1>3, <1>4

\* No proposal is filed, no session has begun; the graph is the user's nodes.
LEMMA InitGate == ProposalInit => GateInv /\ SoloInv
<1> SUFFICES ASSUME ProposalInit PROVE GateInv /\ SoloInv
  OBVIOUS
<1>1. IInv
  <2>1. TypeOK
    BY ProposalAssumption DEF ProposalInit, TypeOK, NodeStatus, TaintValue
  <2>2. FreshIds /\ TaintSound
    BY <2>1 DEF ProposalInit, FreshIds, TypeOK, TaintSound, TaintEdges, BadStatus
  <2>3. NoCycle
    BY DEF ProposalInit, NoCycle, HasCycle, Edge
  <2>4. QED
    BY <2>1, <2>2, <2>3 DEF IInv
<1>2. Idle \in SessionType /\ Idle.at = "idle"
  BY DEF SessionType, Idle
<1>3. ProposalTypeOK
  BY <1>1, <1>2 DEF ProposalInit, ProposalTypeOK, IInv
<1>4. NoModelCertificate /\ ApprovedWasApplied
  BY ProposalAssumption DEF ProposalInit, NoModelCertificate, ApprovedWasApplied
<1>5. \A s \in Session : Applied(sess[s]) /\ Open(sess[s]) /\ sess[s] = Idle
  BY <1>2 DEF ProposalInit, Applied, Open
<1>6. Matching
  BY <1>2 DEF ProposalInit, Matching, InHand
<1>7. QED
  BY <1>1, <1>3, <1>4, <1>5, <1>6 DEF GateInv, SoloInv

----------------------------------------------------------------------------
\* A step that only moves session s, and not to the verdict of a mutation.
LEMMA SessionStep ==
  ASSUME GateInv, SoloInv, NEW s \in setting.sessions, NEW c \in SessionType,
         UNCHANGED <<vars, queue, decision, applied, setting>>,
         sess' = [sess EXCEPT ![s] = c],
         c.at # "resolve",
         Undisturbed => Open(c) /\ sess[s].at # "resolve"
  PROVE  GateInv' /\ SoloInv'
<1>0. s \in Session /\ ProposalTypeOK /\ sess \in [Session -> SessionType]
  BY GateTypes DEF GateInv
<1>1. sess'[s] = c /\ \A t \in Session \ {s} : sess'[t] = sess[t]
  BY <1>0
<1>2. IInv' /\ ProposalTypeOK' /\ NoModelCertificate' /\ ApprovedWasApplied'
  <2>1. IInv'
    BY NextIInv DEF GateInv
  <2>2. ProposalTypeOK'
    BY <1>0, <2>1 DEF ProposalTypeOK, IInv
  <2>3. NoModelCertificate' /\ ApprovedWasApplied'
    BY DEF GateInv, NoModelCertificate, ApprovedWasApplied, vars
  <2>4. QED
    BY <2>1, <2>2, <2>3
<1>3. ASSUME NEW t \in Session PROVE Applied(sess[t])'
  BY <1>1 DEF Applied, GateInv
<1>4. \A t \in Session \ setting.sessions : sess'[t] = Idle
  BY <1>1 DEF SoloInv
<1>5. ASSUME Undisturbed, NEW t \in Session PROVE Open(sess[t])'
  BY <1>1, <1>5 DEF Open, SoloInv
<1>6. ASSUME Undisturbed PROVE Matching'
  <2>1. ASSUME NEW p \in Proposal PROVE InHand(p)' <=> InHand(p)
    BY <1>0, <1>1, <1>6 DEF InHand
  <2>2. QED
    BY <1>6, <2>1 DEF Matching, SoloInv
<1>7. Undisturbed' => Undisturbed
  BY DEF Undisturbed
<1>8. QED
  BY <1>2, <1>3, <1>4, <1>5, <1>6, <1>7 DEF GateInv, SoloInv

\* Beginning, refusing, failing, dying.
LEMMA SessionSteps ==
  ASSUME GateInv, SoloInv, NEW s \in setting.sessions, UNCHANGED setting,
         \/ \E p \in Proposal : StartApprove(s, p)
         \/ StartAuto(s) \/ ScanNext(s) \/ ApplyFails(s) \/ Crash(s)
  PROVE  GateInv' /\ SoloInv'
<1>0. /\ s \in Session /\ ProposalTypeOK /\ SessionOK(sess[s])
      /\ Idle \in SessionType /\ Idle.at = "idle"
  BY GateTypes, SessionTypes DEF GateInv, SessionType, Idle
<1>1. ASSUME NEW p \in Proposal, StartApprove(s, p) PROVE GateInv' /\ SoloInv'
  <2>1. PICK c : c = Approving(p, FALSE, {})
    OBVIOUS
  <2>2. c \in SessionType /\ c.at = "apply" /\ c.p = p
    <3>1. FALSE \in BOOLEAN /\ {} \in SUBSET Proposal
      OBVIOUS
    <3>2. QED
      BY ONLY <2>1, <3>1, SessionStates
  <2>3. /\ sess[s].at = "idle" /\ decision[p] = "pending" /\ sess' = [sess EXCEPT ![s] = c]
        /\ UNCHANGED <<vars, queue, decision, applied>>
    BY <1>0, <1>1, <2>1 DEF StartApprove
  <2>4. QED
    BY <2>2, <2>3, SessionStep DEF Open
<1>2. ASSUME StartAuto(s) PROVE GateInv' /\ SoloInv'
  <2>1. PICK pending : pending = {p \in Proposal : decision[p] = "pending"}
    OBVIOUS
  <2>2. PICK c : c = Scanning(pending)
    OBVIOUS
  <2>3. /\ pending # {} /\ sess[s].at = "idle" /\ sess' = [sess EXCEPT ![s] = c]
        /\ UNCHANGED <<vars, queue, decision, applied>>
    BY <1>0, <1>2, <2>1, <2>2 DEF StartAuto
  <2>4. c \in SessionType /\ c.at = "scan"
    BY <2>1, <2>2, <2>3 DEF Scanning, SessionType
  <2>5. QED
    BY <2>3, <2>4, SessionStep DEF Open
<1>3. ASSUME ScanNext(s) PROVE GateInv' /\ SoloInv'
  <2>1. sess[s].at = "scan" /\ sess[s].rest \in SUBSET Proposal
    BY <1>0, <1>3 DEF ScanNext, SessionOK
  <2>p. PICK p \in sess[s].rest :
          /\ sess' = [sess EXCEPT ![s] =
                        IF ~ LowRisk(Mutation[p]) THEN Continue(TRUE, sess[s].rest \ {p})
                        ELSE IF decision[p] = "pending"
                        THEN Approving(p, TRUE, sess[s].rest \ {p})
                        ELSE Idle]
          /\ UNCHANGED <<vars, queue, decision, applied>>
    BY <1>3 DEF ScanNext
  <2>r. PICK rest : rest = sess[s].rest \ {p}
    OBVIOUS
  <2>2. /\ p \in Proposal /\ rest \in SUBSET Proposal
        /\ sess' = [sess EXCEPT ![s] =
                      IF ~ LowRisk(Mutation[p]) THEN Continue(TRUE, rest)
                      ELSE IF decision[p] = "pending" THEN Approving(p, TRUE, rest)
                      ELSE Idle]
        /\ UNCHANGED <<vars, queue, decision, applied>>
    BY <2>1, <2>p, <2>r
  <2>3. PICK c : c = IF ~ LowRisk(Mutation[p]) THEN Continue(TRUE, rest)
                     ELSE IF decision[p] = "pending" THEN Approving(p, TRUE, rest)
                     ELSE Idle
    OBVIOUS
  <2>4. c \in SessionType /\ c.at # "resolve" /\ Open(c)
    <3>s. /\ Continue(TRUE, rest) \in SessionType
          /\ Continue(TRUE, rest).at \in {"idle", "scan"}
          /\ Approving(p, TRUE, rest) \in SessionType
          /\ Approving(p, TRUE, rest).at = "apply" /\ Approving(p, TRUE, rest).p = p
      <4>1. TRUE \in BOOLEAN /\ p \in Proposal /\ rest \in SUBSET Proposal
        BY <2>2
      <4>2. PICK auto \in BOOLEAN : auto = TRUE
        OBVIOUS
      <4>3. /\ Continue(auto, rest) \in SessionType /\ Continue(auto, rest).at \in {"idle", "scan"}
            /\ Approving(p, auto, rest) \in SessionType
            /\ Approving(p, auto, rest).at = "apply" /\ Approving(p, auto, rest).p = p
        BY ONLY <4>1, auto \in BOOLEAN, SessionStates
      <4>4. QED
        BY ONLY <4>2, <4>3
    <3>1. CASE c = Continue(TRUE, rest)
      BY <3>1, <3>s DEF Open
    <3>2. CASE c = Approving(p, TRUE, rest) /\ decision[p] = "pending"
      BY <3>2, <3>s DEF Open
    <3>3. CASE c = Idle
      BY <1>0, <3>3 DEF Open
    <3>4. QED
      BY <2>3, <3>1, <3>2, <3>3
  <2>5. sess' = [sess EXCEPT ![s] = c]
    BY <2>2, <2>3
  <2>6. QED
    BY <2>1, <2>2, <2>4, <2>5, SessionStep
<1>4. ASSUME ApplyFails(s) PROVE GateInv' /\ SoloInv'
  BY <1>0, <1>4, SessionStep DEF ApplyFails, Open
<1>5. ASSUME Crash(s) PROVE GateInv' /\ SoloInv'
  BY <1>0, <1>5, SessionStep DEF Crash, Undisturbed
<1>6. QED
  BY <1>1, <1>2, <1>3, <1>4, <1>5

\* A verdict other than "approved", or the filing of a proposal, while no
\* session that matters is in the middle of a call on it.
LEMMA VerdictStep ==
  ASSUME GateInv, SoloInv, NEW p \in Proposal, NEW d \in {"pending", "rejected"},
         decision' = [decision EXCEPT ![p] = d], queue' \in Seq(Proposal),
         UNCHANGED <<vars, sess, applied, setting>>,
         decision[p] # "approved",
         Undisturbed /\ decision[p] = "pending" => \A s \in Session : sess[s].at = "idle"
  PROVE  GateInv' /\ SoloInv'
<1>0. ProposalTypeOK /\ decision \in [Proposal -> {"none", "pending", "approved", "rejected"}]
      /\ \A s \in Session : SessionOK(sess[s])
  BY GateTypes, SessionTypes DEF GateInv
<1>1. decision'[p] = d /\ \A q \in Proposal \ {p} : decision'[q] = decision[q]
  BY <1>0
<1>2. IInv'
  BY NextIInv DEF GateInv
<1>3. ProposalTypeOK'
  BY <1>0, <1>2 DEF ProposalTypeOK, IInv
<1>4. NoModelCertificate' /\ ApprovedWasApplied' /\ \A s \in Session : Applied(sess[s])'
  BY <1>1 DEF GateInv, NoModelCertificate, ApprovedWasApplied, Applied, vars
<1>5. ASSUME Undisturbed, NEW s \in Session PROVE Open(sess[s])'
  <2>1. Open(sess[s])
    BY <1>5 DEF SoloInv
  <2>2. QED
    BY <1>0, <1>1, <1>5, <2>1 DEF Open, SessionOK
<1>6. Matching => Matching'
  BY <1>1 DEF Matching, InHand
<1>7. QED
  BY <1>2, <1>3, <1>4, <1>5, <1>6 DEF GateInv, SoloInv, Undisturbed

\* send files a proposal, reject resolves one.
LEMMA VerdictSteps ==
  ASSUME GateInv, SoloInv, UNCHANGED setting, NEW p \in Proposal,
         Propose(p) \/ \E s \in setting.sessions : Reject(s, p)
  PROVE  GateInv' /\ SoloInv'
<1>0. /\ ProposalTypeOK /\ queue \in Seq(Proposal) /\ setting.sessions \subseteq Session
      /\ decision \in [Proposal -> {"none", "pending", "approved", "rejected"}]
      /\ Idle.at = "idle"
  BY GateTypes DEF GateInv, Idle
<1>1. CASE Propose(p)
  <2>1. Append(queue, p) \in Seq(Proposal)
    BY <1>0
  <2>2. QED
    BY <1>1, <2>1, VerdictStep DEF Propose
<1>2. ASSUME NEW s \in setting.sessions, Reject(s, p) PROVE GateInv' /\ SoloInv'
  <2>1. /\ sess[s] = Idle /\ decision' = Resolved(p, "rejected")
        /\ UNCHANGED <<vars, queue, sess, applied>>
    BY <1>2 DEF Reject
  <2>2. CASE decision[p] = "pending"
    <3>1. decision' = [decision EXCEPT ![p] = "rejected"]
      BY <2>1, <2>2 DEF Resolved
    <3>2. Undisturbed => \A t \in Session : sess[t].at = "idle"
      BY <1>0, <2>1 DEF Undisturbed, SoloInv
    <3>3. QED
      BY <1>0, <2>1, <2>2, <3>1, <3>2, VerdictStep
  <2>3. CASE decision[p] # "pending"
    <3>1. UNCHANGED pvars
      BY <2>1, <2>3 DEF Resolved, pvars, vars
    <3>2. QED
      BY <3>1, NextIInv DEF pvars, vars, GateInv, SoloInv, IInv, TypeOK, FreshIds, NoCycle, TaintSound,
         ProposalTypeOK, NoModelCertificate, ApprovedWasApplied, Applied, Open, Matching,
         InHand, Undisturbed
  <2>4. QED
    BY <2>2, <2>3
<1>3. QED
  BY <1>1, <1>2

----------------------------------------------------------------------------
\* What approve does to the graph is a step of the graph: apply_mutation
\* calls the store, and never to certify a node.
LEMMA MutationIsStoreCall ==
  ASSUME GateInv, NEW p \in Proposal, Applicable(Mutation[p]), ApplyMutation(Mutation[p])
  PROVE  [Next]_vars /\ NoModelCertificate'
<1> DEFINE m == Mutation[p]
<1>0. /\ m.action = "add_edge" => m.edge \in Edge(Node, Kind)
      /\ m.action = "set_status" => m.node \in Node /\ m.status \in Status
  BY GateTypes DEF GateInv
<1>1. nodes \subseteq Node /\ status \in [Node -> NodeStatus] /\ FreshIds
      /\ \A n \in nodes : status[n] # "formally_verified"
  BY DEF GateInv, IInv, TypeOK, NoModelCertificate
<1>2. CASE m.action = "add_node" /\ \E n \in Node : AddNode(n)
  <2>1. PICK n \in Node : AddNode(n)
    BY <1>2
  <2>2. Next
    BY <2>1 DEF Next
  <2>3. NoModelCertificate'
    BY <1>1, <2>1 DEF AddNode, FreshIds, NoModelCertificate
  <2>4. QED
    BY <2>2, <2>3
<1>3. CASE m.action = "add_edge" /\ AddEdge(m.edge)
  <2>1. Next
    BY <1>0, <1>3 DEF Next
  <2>2. NoModelCertificate'
    BY <1>1, <1>3 DEF AddEdge, NoModelCertificate
  <2>3. QED
    BY <2>1, <2>2
<1>4. CASE m.action = "set_status" /\ SetNodeStatus(m.node, m.status)
  <2>1. Next
    BY <1>0, <1>4 DEF Next
  <2>2. m.status # "formally_verified"
    BY <1>4 DEF Applicable, GrantsCertificate
  <2>3. NoModelCertificate'
    BY <1>1, <1>4, <2>2 DEF SetNodeStatus, NoModelCertificate
  <2>4. QED
    BY <2>1, <2>3
<1>5. CASE UNCHANGED vars
  BY <1>1, <1>5 DEF vars, NoModelCertificate
<1>6. QED
  BY <1>2, <1>3, <1>4, <1>5 DEF ApplyMutation

\* approve, second step: applied once more, by the session that has it in hand.
LEMMA ApplyStep ==
  ASSUME GateInv, SoloInv, UNCHANGED setting, NEW s \in setting.sessions, Apply(s)
  PROVE  GateInv' /\ SoloInv'
<1>0. /\ s \in Session /\ ProposalTypeOK /\ sess \in [Session -> SessionType]
      /\ applied \in [Proposal -> 0..2] /\ sess[s].at = "apply"
      /\ SessionOK(sess[s]) /\ Idle.at = "idle"
  BY GateTypes, SessionTypes DEF GateInv, Apply, Idle
<1>1. PICK p, auto, rest : p = sess[s].p /\ auto = sess[s].auto /\ rest = sess[s].rest
  OBVIOUS
<1>2. p \in Proposal /\ auto \in BOOLEAN /\ rest \in SUBSET Proposal
  BY <1>0, <1>1 DEF SessionOK
<1>3. PICK c : c = Resolving(p, auto, rest)
  OBVIOUS
<1>4. c \in SessionType /\ c.at = "resolve" /\ c.p = p
  BY ONLY <1>2, <1>3, SessionStates
<1>5. PICK k : k = IF applied[p] < 2 THEN applied[p] + 1 ELSE 2
  OBVIOUS
<1>6. /\ sess' = [sess EXCEPT ![s] = c] /\ UNCHANGED <<queue, decision>>
      /\ applied' = [applied EXCEPT ![p] = k]
      /\ Applicable(Mutation[p]) /\ ApplyMutation(Mutation[p])
  BY <1>1, <1>3, <1>5 DEF Apply
<1>7. k \in 0..2 /\ k > 0 /\ (applied[p] = 0 => k = 1)
  BY <1>0, <1>2, <1>5
<1>8. /\ sess'[s] = c /\ \A t \in Session \ {s} : sess'[t] = sess[t]
      /\ applied'[p] = k /\ \A q \in Proposal \ {p} : applied'[q] = applied[q]
  BY <1>0, <1>2, <1>6
<1>9. IInv' /\ NoModelCertificate'
  BY <1>2, <1>6, MutationIsStoreCall, NextIInv DEF GateInv
<1>10. ProposalTypeOK'
  BY <1>0, <1>4, <1>6, <1>7, <1>9 DEF ProposalTypeOK, IInv
<1>11. ApprovedWasApplied'
  BY <1>6, <1>7, <1>8 DEF GateInv, ApprovedWasApplied
<1>12. ASSUME NEW t \in Session PROVE Applied(sess[t])'
  <2>1. CASE t = s
    BY <1>4, <1>7, <1>8, <2>1 DEF Applied
  <2>2. CASE t # s
    <3>1. SessionOK(sess[t]) /\ Applied(sess[t]) /\ sess'[t] = sess[t]
      BY <1>0, <1>8, <2>2, SessionTypes DEF GateInv
    <3>2. ASSUME sess[t].at = "resolve" PROVE applied'[sess[t].p] > 0
      <4>1. sess[t].p \in Proposal /\ applied[sess[t].p] > 0
        BY <3>1, <3>2 DEF SessionOK, Applied
      <4>2. CASE sess[t].p = p
        BY <1>7, <1>8, <4>2
      <4>3. CASE sess[t].p # p
        BY <1>8, <4>1, <4>3
      <4>4. QED
        BY <4>2, <4>3
    <3>3. QED
      BY <3>1, <3>2 DEF Applied
  <2>3. QED
    BY <2>1, <2>2
<1>13. \A t \in Session \ setting.sessions : sess'[t] = Idle
  BY <1>8 DEF SoloInv
<1>14. ASSUME Undisturbed PROVE (\A t \in Session : Open(sess[t])') /\ Matching'
  <2>1. \A t \in Session \ {s} : sess[t] = Idle /\ sess[t].at = "idle"
    BY <1>0, <1>14 DEF Undisturbed, SoloInv
  <2>2. decision[p] = "pending" /\ Matching
    BY <1>0, <1>1, <1>14 DEF SoloInv, Open
  <2>3. \A q \in Proposal : ~ InHand(q)
    BY <1>0, <2>1 DEF InHand
  <2>4. \A q \in Proposal : applied[q] = IF decision[q] = "approved" THEN 1 ELSE 0
    BY <2>2, <2>3 DEF Matching
  <2>5. \A t \in Session : Open(sess[t])'
    BY <1>4, <1>6, <1>8, <2>1, <2>2 DEF Open
  <2>6. InHand(p)' /\ \A q \in Proposal \ {p} : ~ InHand(q)'
    BY <1>0, <1>4, <1>8, <2>1 DEF InHand
  <2>7. ASSUME NEW q \in Proposal
        PROVE  applied'[q] = IF decision'[q] = "approved" \/ InHand(q)' THEN 1 ELSE 0
    <3>1. CASE q = p
      BY <1>7, <1>8, <2>2, <2>4, <2>6, <3>1
    <3>2. CASE q # p
      <4>1. applied'[q] = applied[q] /\ decision'[q] = decision[q] /\ ~ InHand(q)'
        BY <1>6, <1>8, <2>6, <3>2
      <4>2. QED
        BY <2>4, <4>1
    <3>3. QED
      BY <3>1, <3>2
  <2>8. QED
    BY <2>5, <2>7 DEF Matching
<1>15. Undisturbed' => Undisturbed
  BY DEF Undisturbed
<1>16. QED
  BY <1>9, <1>10, <1>11, <1>12, <1>13, <1>14, <1>15 DEF GateInv, SoloInv

\* approve, third step: approved only if it is still pending.
LEMMA ResolveStep ==
  ASSUME GateInv, SoloInv, UNCHANGED setting, NEW s \in setting.sessions, Resolve(s)
  PROVE  GateInv' /\ SoloInv'
<1>0. /\ s \in Session /\ ProposalTypeOK /\ sess \in [Session -> SessionType]
      /\ decision \in [Proposal -> {"none", "pending", "approved", "rejected"}]
      /\ sess[s].at = "resolve" /\ SessionOK(sess[s])
      /\ Idle \in SessionType /\ Idle.at = "idle"
  BY GateTypes, SessionTypes DEF GateInv, Resolve, Idle, SessionType
<1>1. PICK p, auto, rest : p = sess[s].p /\ auto = sess[s].auto /\ rest = sess[s].rest
  OBVIOUS
<1>2. p \in Proposal /\ auto \in BOOLEAN /\ rest \in SUBSET Proposal /\ applied[p] > 0
  BY <1>0, <1>1 DEF SessionOK, GateInv, Applied
<1>3. PICK c : c = IF decision[p] = "pending" THEN Continue(auto, rest) ELSE Idle
  OBVIOUS
<1>4. c \in SessionType /\ c.at \in {"idle", "scan"}
  <2>1. Continue(auto, rest) \in SessionType /\ Continue(auto, rest).at \in {"idle", "scan"}
    BY ONLY <1>2, SessionStates
  <2>2. QED
    BY <1>0, <1>3, <2>1
<1>5. /\ sess' = [sess EXCEPT ![s] = c] /\ UNCHANGED <<vars, queue, applied>>
      /\ decision' = Resolved(p, "approved")
  BY <1>1, <1>3 DEF Resolve
<1>6. /\ decision' \in [Proposal -> {"none", "pending", "approved", "rejected"}]
      /\ \A q \in Proposal \ {p} : decision'[q] = decision[q]
      /\ decision'[p] = IF decision[p] = "pending" THEN "approved" ELSE decision[p]
  BY <1>0, <1>2, <1>5 DEF Resolved
<1>7. sess'[s] = c /\ \A t \in Session \ {s} : sess'[t] = sess[t]
  BY <1>0, <1>5
<1>8. IInv'
  BY <1>5, NextIInv DEF GateInv
<1>9. ProposalTypeOK'
  BY <1>0, <1>4, <1>5, <1>6, <1>8 DEF ProposalTypeOK, IInv
<1>10. ApprovedWasApplied' /\ NoModelCertificate'
  BY <1>2, <1>5, <1>6 DEF GateInv, ApprovedWasApplied, NoModelCertificate, vars
<1>11. ASSUME NEW t \in Session PROVE Applied(sess[t])'
  BY <1>4, <1>5, <1>7 DEF GateInv, Applied
<1>12. \A t \in Session \ setting.sessions : sess'[t] = Idle
  BY <1>7 DEF SoloInv
<1>13. ASSUME Undisturbed PROVE (\A t \in Session : Open(sess[t])') /\ Matching'
  <2>1. \A t \in Session \ {s} : sess[t] = Idle /\ sess[t].at = "idle"
    BY <1>0, <1>13 DEF Undisturbed, SoloInv
  <2>2. decision[p] = "pending" /\ Matching
    BY <1>0, <1>1, <1>13 DEF SoloInv, Open
  <2>3. InHand(p) /\ \A q \in Proposal \ {p} : ~ InHand(q)
    BY <1>0, <1>1, <2>1 DEF InHand
  <2>4. \A t \in Session : sess'[t].at \in {"idle", "scan"}
    BY <1>4, <1>7, <2>1
  <2>5. \A q \in Proposal : ~ InHand(q)'
    BY <2>4 DEF InHand
  <2>6. ASSUME NEW q \in Proposal
        PROVE  applied'[q] = IF decision'[q] = "approved" THEN 1 ELSE 0
    <3>1. CASE q = p
      BY <1>5, <1>6, <2>2, <2>3, <3>1 DEF Matching
    <3>2. CASE q # p
      BY <1>5, <1>6, <2>2, <2>3, <3>2 DEF Matching
    <3>3. QED
      BY <3>1, <3>2
  <2>7. QED
    BY <2>4, <2>5, <2>6 DEF Matching, Open
<1>14. Undisturbed' => Undisturbed
  BY DEF Undisturbed
<1>15. QED
  BY <1>8, <1>9, <1>10, <1>11, <1>12, <1>13, <1>14 DEF GateInv, SoloInv

----------------------------------------------------------------------------
\* One step per action.
LEMMA NextGate == GateInv /\ SoloInv /\ [ProposalNext]_pvars => (GateInv /\ SoloInv)'
<1> SUFFICES ASSUME GateInv, SoloInv, [ProposalNext]_pvars PROVE GateInv' /\ SoloInv'
  OBVIOUS
<1>1. CASE ProposalNext
  BY <1>1, SessionSteps, VerdictSteps, ApplyStep, ResolveStep DEF ProposalNext
<1>2. CASE UNCHANGED pvars
  <2>1. UNCHANGED vars
    BY <1>2 DEF pvars, vars
  <2>2. IInv'
    BY <2>1, NextIInv DEF GateInv
  <2>3. QED
    BY <1>2, <2>2 DEF pvars, GateInv, SoloInv, IInv, TypeOK, ProposalTypeOK, NoModelCertificate,
       ApprovedWasApplied, Applied, Open, Matching, InHand, Undisturbed
<1>3. QED
  BY <1>1, <1>2

\* The invariants hold in every reachable state.
LEMMA SpecGate == ProposalSpec => [](GateInv /\ SoloInv)
<1>1. QED
  BY InitGate, NextGate, PTL DEF ProposalSpec

\* Proposals, verdicts, sessions and the graph stay well typed.
THEOREM GateTypeCorrect == ProposalSpec => []ProposalTypeOK
<1>1. GateInv => ProposalTypeOK
  BY DEF GateInv
<1>2. QED
  BY SpecGate, <1>1, PTL

\* Whatever is proposed, approved or approved automatically, no model
\* certifies a node.
THEOREM ModelsCertifyNothing == ProposalSpec => []NoModelCertificate
<1>1. GateInv => NoModelCertificate
  BY DEF GateInv
<1>2. QED
  BY SpecGate, <1>1, PTL

\* "approved" is recorded only of a mutation that was applied.
THEOREM NothingApprovedUnapplied == ProposalSpec => []ApprovedWasApplied
<1>1. GateInv => ApprovedWasApplied
  BY DEF GateInv
<1>2. QED
  BY SpecGate, <1>1, PTL

\* With one session that finishes its calls, exactly the approved mutations
\* are in the graph, once, whenever it is idle.
THEOREM SoloGateIsExact == ProposalSpec => []GraphMatchesVerdicts
<1>1. SoloInv => GraphMatchesVerdicts
  <2> SUFFICES ASSUME SoloInv, Undisturbed, \A s \in Session : sess[s] = Idle,
                      NEW p \in Proposal
               PROVE  applied[p] = IF decision[p] = "approved" THEN 1 ELSE 0
    BY DEF GraphMatchesVerdicts
  <2>1. ~ InHand(p)
    BY DEF InHand, Idle
  <2>2. QED
    BY <2>1 DEF SoloInv, Matching
<1>2. QED
  BY SpecGate, <1>1, PTL

\* The gate changes the graph through the store's calls alone, so what the
\* store guarantees holds of a graph that models may propose to change: it
\* stays acyclic and no taint goes missing.
THEOREM GateImplementsStore == ProposalSpec => [][Next]_vars /\ [](Acyclic /\ TaintSound)
<1>1. GateInv /\ [ProposalNext]_pvars => [Next]_vars
  <2> SUFFICES ASSUME GateInv, ProposalNext PROVE [Next]_vars
    BY DEF pvars, vars
  <2>1. ASSUME NEW s \in setting.sessions, Apply(s) PROVE [Next]_vars
    <3>1. sess[s].p \in Proposal
      BY <2>1, GateTypes, SessionTypes DEF GateInv, SessionOK, Apply
    <3>2. QED
      BY <2>1, <3>1, MutationIsStoreCall DEF Apply
  <2>2. QED
    BY <2>1 DEF ProposalNext, Propose, StartApprove, Reject, StartAuto, ScanNext,
                ApplyFails, Resolve, Crash
<1>2. GateInv => Acyclic /\ TaintSound
  BY NoCycleNoLoop DEF GateInv, IInv, TypeOK, NoCycle, Acyclic
<1>3. QED
  BY SpecGate, <1>1, <1>2, PTL DEF ProposalSpec

----------------------------------------------------------------------------
(* Connections in the middle of a call. *)

\* What a connection remembers of its first statements: only rows, and rows
\* are never deleted.
Remembers(k) ==
  /\ k \in CallType
  /\ k.op \in {"read", "writing"} => k.ids \subseteq nodes
  /\ k.op = "extracting" => k.root \in nodes

\* What nobody has overtaken is up to date: the columns read are those of the
\* tables; the labels computed are sound, and stored where they are written.
UpToDate(k) ==
  /\ k.op = "read" => k.ids = nodes /\ k.status = status /\ k.taint = taint
  /\ k.op = "writing" =>
       /\ \A n \in nodes : status[n] \in BadStatus => k.labels[n] # "clean"
       /\ \A e \in TaintEdges(edges) :
             k.labels[e.target] # "clean" => k.labels[e.source] # "clean"
       /\ \A n \in nodes \ k.ids : taint[n] = k.labels[n]

RaceInv ==
  /\ Tables /\ RaceTypeOK
  /\ \A c \in Conn : Remembers(call[c])
  /\ \A c \in Conn \ overtaken : UpToDate(call[c])

\* The step heals as RecomputingHeals says.
Heals == (Recomputes => TaintSound') /\ (TaintSound /\ ~ TaintSound' => OnItsWay)

\* What a connection may remember next is remembered also by the others.
LEMMA RaceStep ==
  ASSUME RaceInv, Overtake, Tables', nodes \subseteq nodes', NEW c \in Conn, NEW k,
         call' = [call EXCEPT ![c] = k], Remembers(k)',
         c \notin overtaken' => UpToDate(k)'
  PROVE  RaceInv'
<1>1. call \in [Conn -> CallType] /\ k \in CallType
  BY DEF RaceInv, RaceTypeOK, Remembers
<1>2. RaceTypeOK'
  BY <1>1 DEF RaceTypeOK, Tables, Overtake
<1>3. ASSUME NEW d \in Conn PROVE Remembers(call[d])'
  <2>1. CASE d = c
    BY <1>1, <2>1 DEF Remembers
  <2>2. CASE d # c
    <3>1. call'[d] = call[d] /\ Remembers(call[d])
      BY <1>1, <2>2 DEF RaceInv
    <3>2. QED
      BY <3>1 DEF Remembers
  <2>3. QED
    BY <2>1, <2>2
<1>4. ASSUME NEW d \in Conn \ overtaken' PROVE UpToDate(call[d])'
  <2>1. CASE d = c
    BY <1>1, <1>4, <2>1 DEF UpToDate
  <2>2. CASE d # c /\ Recomputing(call'[d])
    <3>1. call'[d] = call[d]
      BY <1>1, <2>2
    <3>2. d \notin overtaken /\ UNCHANGED vars
      BY <1>4, <2>2, <3>1 DEF Overtake
    <3>3. UpToDate(call[d])
      BY <3>2 DEF RaceInv
    <3>4. QED
      BY <3>1, <3>2, <3>3 DEF UpToDate, vars, TaintEdges
  <2>3. CASE ~ Recomputing(call'[d])
    BY <2>3 DEF UpToDate, Recomputing
  <2>4. QED
    BY <2>1, <2>2, <2>3
<1>5. QED
  BY <1>2, <1>3, <1>4 DEF RaceInv

\* A transaction of one connection, beside what the others are doing.
LEMMA TransactionHolds ==
  ASSUME RaceInv, Overtake, Transaction
  PROVE  /\ RaceInv'
         /\ TaintSound => TaintSound'
         /\ \/ edges' # edges
            \/ \E n \in nodes : status[n] \notin BadStatus /\ status'[n] \in BadStatus
            => TaintSound'
<1>0. Tables
  BY DEF RaceInv
<1> DEFINE Sound == /\ TaintSound => TaintSound'
                    /\ \/ edges' # edges
                       \/ \E n \in nodes : status[n] \notin BadStatus /\ status'[n] \in BadStatus
                       => TaintSound'
<1>1. ASSUME NEW n \in Node, AddNode(n) PROVE Tables' /\ nodes \subseteq nodes' /\ Sound
  BY <1>0, <1>1, AddNodeKeeps DEF AddNode
<1>2. ASSUME NEW e \in Edge(Node, Kind), AddEdge(e)
      PROVE  Tables' /\ nodes \subseteq nodes' /\ Sound
  BY <1>0, <1>2, AddEdgeKeeps DEF AddEdge
<1>3. ASSUME NEW n \in Node, NEW parents \in SUBSET Node, MergeNodes(n, parents)
      PROVE  Tables' /\ nodes \subseteq nodes' /\ Sound
  BY <1>0, <1>3, MergeNodesKeeps DEF MergeNodes
<1>4. ASSUME NEW n \in Node, NEW st \in Status, SetNodeStatus(n, st)
      PROVE  Tables' /\ nodes \subseteq nodes' /\ Sound
  <2>1. /\ Tables' /\ (TaintSound \/ st \in BadStatus => TaintSound')
        /\ edges' = edges /\ status' = [status EXCEPT ![n] = st] /\ nodes' = nodes
    BY <1>0, <1>4, SetNodeStatusKeeps DEF SetNodeStatus
  <2>2. ASSUME NEW m \in nodes, status[m] \notin BadStatus, status'[m] \in BadStatus
        PROVE  st \in BadStatus
    BY <1>0, <2>1, <2>2, TablesTyped
  <2>3. QED
    BY <2>1, <2>2
<1>5. Tables' /\ nodes \subseteq nodes' /\ Sound /\ call' = call
  BY <1>1, <1>2, <1>3, <1>4 DEF Transaction
<1>6. PICK c \in Conn : call[c] = Ready
  BY DEF Transaction
<1>7. PICK k : k = Ready
  OBVIOUS
<1>8. Remembers(k)' /\ UpToDate(k)'
  BY <1>7 DEF Remembers, UpToDate, CallType, Ready
<1>9. call' = [call EXCEPT ![c] = k]
  BY <1>5, <1>6, <1>7 DEF RaceInv, RaceTypeOK
<1>10. RaceInv'
  BY <1>5, <1>8, <1>9, RaceStep
<1>11. QED
  BY <1>5, <1>10

\* The mark of set_taint is put on a row.
LEMMA MarkHolds ==
  ASSUME RaceInv, Overtake, NEW c \in Conn, NEW n \in Node, NEW t \in TaintValue,
         SetTaintMark(c, n, t)
  PROVE  RaceInv'
<1>1. Tables /\ n \in nodes /\ taint' = [taint EXCEPT ![n] = t]
      /\ UNCHANGED <<nodes, status, edges, lemmas>>
  BY DEF RaceInv, SetTaintMark
<1>2. Tables'
  BY <1>1, TablesTyped DEF Tables, TypeOK, FreshIds, NoCycle
<1>3. PICK k : k = Marked
  OBVIOUS
<1>4. Remembers(k)' /\ UpToDate(k)'
  BY <1>3 DEF Remembers, UpToDate, CallType, Marked
<1>5. call' = [call EXCEPT ![c] = k]
  BY <1>3 DEF SetTaintMark
<1>6. QED
  BY <1>1, <1>2, <1>4, <1>5, RaceStep

\* What recompute_taint reads first are the rows as they are.
LEMMA ReadNodesHolds ==
  ASSUME RaceInv, Overtake, NEW c \in Conn, SetTaintReadNodes(c)
  PROVE  RaceInv'
<1>1. Tables /\ UNCHANGED vars
  BY DEF RaceInv, SetTaintReadNodes
<1>2. Tables' /\ nodes' = nodes
  BY <1>1 DEF vars, Tables, TypeOK, FreshIds, NoCycle
<1>3. PICK k : k = ReadNodes
  OBVIOUS
<1>4. Remembers(k)'
  BY <1>1, <1>2, <1>3, TablesTyped DEF Remembers, CallType, ReadNodes
<1>5. UpToDate(k)'
  BY <1>1, <1>3 DEF UpToDate, ReadNodes, vars
<1>6. call' = [call EXCEPT ![c] = k]
  BY <1>3 DEF SetTaintReadNodes
<1>7. QED
  BY <1>2, <1>4, <1>5, <1>6, RaceStep

\* The labels it computes are labels for rows, and sound if nobody came in
\* between the two reads.
LEMMA ReadEdgesHolds ==
  ASSUME RaceInv, Overtake, NEW c \in Conn, SetTaintReadEdges(c)
  PROVE  RaceInv'
<1>1. Tables /\ UNCHANGED vars /\ call[c] \in CallType /\ call[c].op = "read"
      /\ Remembers(call[c])
  BY DEF RaceInv, Remembers, SetTaintReadEdges
<1>2. Tables' /\ nodes' = nodes
  BY <1>1 DEF vars, Tables, TypeOK, FreshIds, NoCycle
<1>3. /\ call[c].status \in [Node -> NodeStatus] /\ call[c].taint \in [Node -> TaintValue]
      /\ call[c].ids \subseteq nodes
  BY <1>1 DEF CallType, Remembers, Ready, Marked
<1>4. PICK labels : labels = Recomputed(nodes, edges, call[c].status, call[c].taint)
  OBVIOUS
<1>5. Labelled(nodes, edges, call[c].status, call[c].taint, labels)
  BY <1>1, <1>3, <1>4, TablesTyped, RecomputedSound
<1>6. PICK k : k = Writing(call[c].ids, labels)
  OBVIOUS
<1>7. Remembers(k)'
  BY <1>2, <1>3, <1>5, <1>6, TablesTyped, <1>1 DEF Remembers, CallType, Writing, Labelled
<1>8. ASSUME c \notin overtaken' PROVE UpToDate(k)'
  <2>1. call' = [call EXCEPT ![c] = k]
    BY <1>4, <1>6 DEF SetTaintReadEdges
  <2>2. call'[c] = k /\ k.op = "writing"
    BY <1>6, <2>1 DEF RaceInv, RaceTypeOK, Writing
  <2>3. c \notin overtaken
    BY <1>8, <2>2 DEF Overtake, Recomputing
  <2>4. call[c].status = status /\ call[c].ids = nodes
    BY <1>1, <2>3 DEF RaceInv, UpToDate
  <2>5. QED
    BY <1>1, <1>5, <1>6, <2>4 DEF UpToDate, Writing, Labelled, vars, TaintEdges
<1>9. call' = [call EXCEPT ![c] = k]
  BY <1>4, <1>6 DEF SetTaintReadEdges
<1>10. QED
  BY <1>2, <1>7, <1>8, <1>9, RaceStep

\* What a call in its loop holds.
LEMMA RowInHand ==
  ASSUME RaceInv, NEW c \in Conn, NEW n \in Node, SetTaintWriteRow(c, n)
  PROVE  /\ Tables /\ n \in nodes /\ UNCHANGED <<nodes, status, edges, lemmas>>
         /\ call[c].op = "writing" /\ call[c].ids \subseteq nodes /\ n \in call[c].ids
         /\ call[c].labels \in [Node -> TaintValue]
         /\ taint' = [taint EXCEPT ![n] = call[c].labels[n]]
<1>1. Remembers(call[c]) /\ call[c].op = "writing" /\ n \in call[c].ids
  BY DEF RaceInv, SetTaintWriteRow
<1>2. QED
  BY <1>1 DEF RaceInv, Remembers, CallType, Ready, Marked, SetTaintWriteRow

\* A label may be stale by the time it is written, but it goes to a row.
LEMMA WriteRowHolds ==
  ASSUME RaceInv, Overtake, NEW c \in Conn, NEW n \in Node, SetTaintWriteRow(c, n)
  PROVE  RaceInv'
<1>1. /\ Tables /\ n \in nodes /\ UNCHANGED <<nodes, status, edges, lemmas>>
      /\ call[c].op = "writing" /\ call[c].ids \subseteq nodes /\ n \in call[c].ids
      /\ call[c].labels \in [Node -> TaintValue]
      /\ taint' = [taint EXCEPT ![n] = call[c].labels[n]]
  BY RowInHand
<1>2. taint' \in [Node -> TaintValue] /\ \A m \in Node \ nodes : taint'[m] = taint[m]
  BY <1>1, TablesTyped
<1>3. Tables'
  BY <1>1, <1>2 DEF Tables, TypeOK, FreshIds, NoCycle
<1>4. PICK k : k = IF call[c].ids = {n} THEN Ready
                   ELSE Writing(call[c].ids \ {n}, call[c].labels)
  OBVIOUS
<1>5. Remembers(k)'
  <2>1. CASE k = Ready
    BY <2>1 DEF Remembers, CallType, Ready
  <2>2. CASE k = Writing(call[c].ids \ {n}, call[c].labels)
    BY <1>1, <2>2, TablesTyped DEF Remembers, CallType, Writing
  <2>3. QED
    BY <1>4, <2>1, <2>2
<1>6. call' = [call EXCEPT ![c] = k]
  BY <1>4 DEF SetTaintWriteRow
<1>7. ASSUME c \notin overtaken' PROVE UpToDate(k)'
  <2>1. CASE k = Ready
    BY <2>1 DEF UpToDate, Ready
  <2>2. CASE k = Writing(call[c].ids \ {n}, call[c].labels)
    <3>1. call'[c] = k /\ k.op = "writing"
      BY <1>6, <2>2 DEF RaceInv, RaceTypeOK, Writing
    <3>2. c \notin overtaken
      BY <1>7, <3>1 DEF Overtake, Recomputing
    <3>3. UpToDate(call[c])
      BY <3>2 DEF RaceInv
    <3>4. \A m \in nodes \ k.ids : taint'[m] = k.labels[m]
      BY <1>1, <2>2, <3>3, TablesTyped DEF UpToDate, Writing
    <3>5. QED
      BY <1>1, <2>2, <3>3, <3>4 DEF UpToDate, Writing, TaintEdges
  <2>3. QED
    BY <1>4, <2>1, <2>2
<1>8. QED
  BY <1>1, <1>3, <1>5, <1>6, <1>7, RaceStep

\* The last row of labels that are up to date makes the stored ones sound.
LEMMA LastRowHeals ==
  ASSUME RaceInv, NEW c \in Conn \ overtaken, NEW n \in Node, SetTaintWriteRow(c, n),
         call'[c] = Ready
  PROVE  TaintSound'
<1>1. /\ Tables /\ n \in nodes /\ UNCHANGED <<nodes, status, edges, lemmas>>
      /\ call[c].op = "writing" /\ call[c].ids \subseteq nodes /\ n \in call[c].ids
      /\ call[c].labels \in [Node -> TaintValue]
      /\ taint' = [taint EXCEPT ![n] = call[c].labels[n]]
  BY RowInHand
<1>2. call[c].ids = {n}
  BY DEF SetTaintWriteRow, RaceInv, RaceTypeOK, Ready, Writing
<1>3. UpToDate(call[c])
  BY DEF RaceInv
<1>4. \A m \in nodes : taint'[m] = call[c].labels[m]
  BY <1>1, <1>2, <1>3, TablesTyped DEF UpToDate
<1>5. \A e \in TaintEdges(edges) : e.source \in nodes /\ e.target \in nodes
  BY <1>1, TablesTyped DEF TaintEdges, Edge
<1>6. QED
  BY <1>1, <1>3, <1>4, <1>5 DEF UpToDate, TaintSound, TaintEdges

\* An extraction inserts a lemma about a row, or nothing.
LEMMA ExtractHolds ==
  ASSUME RaceInv, Overtake, NEW c \in Conn
  PROVE  (\E n \in Node : ExtractReadNodes(c, n)) \/ ExtractFinish(c) => RaceInv'
<1>0. Tables
  BY DEF RaceInv
<1>1. ASSUME NEW n \in Node, ExtractReadNodes(c, n) PROVE RaceInv'
  <2>1. n \in nodes /\ UNCHANGED vars
    BY <1>1 DEF ExtractReadNodes
  <2>2. Tables' /\ nodes' = nodes
    BY <1>0, <2>1 DEF vars, Tables, TypeOK, FreshIds, NoCycle
  <2>3. PICK k : k = Extracting(n)
    OBVIOUS
  <2>4. Remembers(k)' /\ UpToDate(k)'
    BY <1>0, <2>1, <2>2, <2>3, TablesTyped DEF Remembers, UpToDate, CallType, Extracting
  <2>5. call' = [call EXCEPT ![c] = k]
    BY <1>1, <2>3 DEF ExtractReadNodes
  <2>6. QED
    BY <2>2, <2>4, <2>5, RaceStep
<1>2. ASSUME ExtractFinish(c) PROVE RaceInv'
  <2>1. call[c].root \in nodes
    BY <1>2 DEF RaceInv, Remembers, ExtractFinish
  <2>2. PICK bad \in BOOLEAN : lemmas' \subseteq lemmas \cup {[root |-> call[c].root, taint |-> bad]}
    <3>1. PICK set : lemmas' = IF set \ Assumption \subseteq call[c].verified
                               THEN lemmas \cup {[root |-> call[c].root,
                                                  taint |-> set \cap call[c].unclean # {}]}
                               ELSE lemmas
      BY <1>2 DEF ExtractFinish
    <3>2. PICK bad \in BOOLEAN : bad = (set \cap call[c].unclean # {})
      OBVIOUS
    <3>3. QED
      BY <3>1, <3>2
  <2>3. UNCHANGED <<nodes, status, taint, edges>>
    BY <1>2 DEF ExtractFinish
  <2>4. lemmas' \subseteq [root : nodes', taint : BOOLEAN]
    BY <1>0, <2>1, <2>2, <2>3 DEF Tables, TypeOK
  <2>5. Tables'
    BY <1>0, <2>3, <2>4 DEF Tables, TypeOK, FreshIds, NoCycle
  <2>6. PICK k : k = Ready
    OBVIOUS
  <2>7. Remembers(k)' /\ UpToDate(k)'
    BY <2>6 DEF Remembers, UpToDate, CallType, Ready
  <2>8. call' = [call EXCEPT ![c] = k]
    BY <1>2, <2>6 DEF ExtractFinish
  <2>9. QED
    BY <2>3, <2>5, <2>7, <2>8, RaceStep
<1>3. QED
  BY <1>1, <1>2

\* A process that dies leaves the tables as they are.
LEMMA DeathHolds ==
  ASSUME RaceInv, Overtake, NEW c \in Conn, ConnDies(c)
  PROVE  RaceInv'
<1>1. Tables /\ UNCHANGED vars
  BY DEF RaceInv, ConnDies
<1>2. Tables' /\ nodes' = nodes
  BY <1>1 DEF vars, Tables, TypeOK, FreshIds, NoCycle
<1>3. PICK k : k = Ready
  OBVIOUS
<1>4. Remembers(k)' /\ UpToDate(k)'
  BY <1>3 DEF Remembers, UpToDate, CallType, Ready
<1>5. call' = [call EXCEPT ![c] = k]
  BY <1>3 DEF ConnDies
<1>6. QED
  BY <1>2, <1>4, <1>5, RaceStep

\* Between two statements of a call that is no transaction, no edge is
\* inserted and no status changes; and only a set_taint touches a label.
LEMMA CallStepHolds ==
  ASSUME RaceInv, Overtake, NEW c \in Conn,
         \/ \E n \in Node, t \in TaintValue : SetTaintMark(c, n, t)
         \/ SetTaintReadNodes(c)
         \/ SetTaintReadEdges(c)
         \/ \E n \in Node : SetTaintWriteRow(c, n)
         \/ \E n \in Node : ExtractReadNodes(c, n)
         \/ ExtractFinish(c)
         \/ ConnDies(c)
  PROVE  /\ RaceInv' /\ UNCHANGED <<status, edges>>
         /\ TaintSound /\ ~ TaintSound' => OnItsWay
<1>1. RaceInv'
  BY MarkHolds, ReadNodesHolds, ReadEdgesHolds, WriteRowHolds, ExtractHolds, DeathHolds
<1>2. UNCHANGED <<status, edges>>
  BY DEF SetTaintMark, SetTaintReadNodes, SetTaintReadEdges, SetTaintWriteRow,
         ExtractReadNodes, ExtractFinish, ConnDies, vars
<1>3. ASSUME TaintSound, ~ TaintSound' PROVE OnItsWay
  <2>1. ASSUME NEW n \in Node, NEW t \in TaintValue, SetTaintMark(c, n, t) PROVE OnItsWay
    BY <2>1 DEF OnItsWay
  <2>2. ASSUME NEW n \in Node, SetTaintWriteRow(c, n) PROVE OnItsWay
    <3>1. c \in overtaken \/ call'[c] # Ready
      BY <1>3, <2>2, LastRowHeals
    <3>2. QED
      BY <2>2, <3>1 DEF OnItsWay
  <2>3. ASSUME \/ SetTaintReadNodes(c) \/ SetTaintReadEdges(c) \/ ConnDies(c)
               \/ \E n \in Node : ExtractReadNodes(c, n)
               \/ ExtractFinish(c)
        PROVE  FALSE
    <3>1. UNCHANGED <<nodes, status, taint, edges>>
      BY <2>3 DEF SetTaintReadNodes, SetTaintReadEdges, ConnDies, ExtractReadNodes,
                  ExtractFinish, vars
    <3>2. QED
      BY <1>3, <3>1 DEF TaintSound, TaintEdges
  <2>4. QED
    BY <2>1, <2>2, <2>3
<1>4. QED
  BY <1>1, <1>2, <1>3

\* Every connection starts with an empty project and nothing in hand.
LEMMA RaceInitHolds == RaceInit => RaceInv
<1> SUFFICES ASSUME RaceInit PROVE RaceInv
  OBVIOUS
<1>1. IInv
  BY InitIInv DEF RaceInit
<1>2. Tables
  BY <1>1 DEF IInv, Tables
<1>3. \A c \in Conn : Remembers(call[c]) /\ UpToDate(call[c])
  BY DEF RaceInit, Remembers, UpToDate, CallType, Ready
<1>4. RaceTypeOK
  BY <1>2 DEF RaceInit, RaceTypeOK, Tables, CallType
<1>5. QED
  BY <1>2, <1>3, <1>4 DEF RaceInv

\* The invariant under any interleaving, and what a step does to the labels.
LEMMA RaceNextHolds == RaceInv /\ [RaceNext]_allvars => RaceInv' /\ [Heals]_allvars
<1>1. ASSUME RaceInv, UNCHANGED allvars PROVE RaceInv' /\ [Heals]_allvars
  BY <1>1 DEF allvars, RaceInv, RaceTypeOK, Remembers, UpToDate, TaintEdges, Tables, TypeOK,
              FreshIds, NoCycle
<1>2. ASSUME RaceInv, RaceNext PROVE RaceInv' /\ Heals
  <2>1. Overtake /\ CallStep
    BY <1>2 DEF RaceNext
  <2>2. CASE Transaction
    <3>1. /\ RaceInv'
          /\ TaintSound => TaintSound'
          /\ \/ edges' # edges
             \/ \E n \in nodes : status[n] \notin BadStatus /\ status'[n] \in BadStatus
             => TaintSound'
      BY <1>2, <2>1, <2>2, TransactionHolds
    <3>2. QED
      BY <1>2, <3>1, LastRowHeals DEF Heals, Recomputes
  <2>3. ASSUME ~ Transaction PROVE RaceInv' /\ Heals
    <3>1. /\ RaceInv' /\ UNCHANGED <<status, edges>>
          /\ TaintSound /\ ~ TaintSound' => OnItsWay
      BY <1>2, <2>1, <2>3, CallStepHolds DEF CallStep
    <3>2. QED
      BY <1>2, <3>1, LastRowHeals DEF Heals, Recomputes
  <2>4. QED
    BY <2>2, <2>3
<1>3. QED
  BY <1>1, <1>2

LEMMA RaceInvAlways == RaceSpec => []RaceInv
<1>1. QED
  BY RaceInitHolds, RaceNextHolds, PTL DEF RaceSpec

\* The tables stay in order and without a cycle, although set_taint and
\* extract_lemma run and die between any two of their statements, one row
\* written and the next not, beside the transactions.
THEOREM RacesKeepTables == RaceSpec => [](RaceTypeOK /\ Acyclic)
<1>1. RaceInv => RaceTypeOK /\ Acyclic
  BY NoCycleNoLoop DEF RaceInv, Tables, TypeOK, NoCycle, Acyclic
<1>2. QED
  BY <1>1, RaceInvAlways, PTL

\* A transaction that recomputes the labels, and a set_taint that nobody has
\* overtaken, leave them sound, however stale half-finished calls of set_taint
\* made them; and only a set_taint on its way makes sound labels unsound.
THEOREM RecomputingHealsLabels == RaceSpec => RecomputingHeals
<1>1. RaceInv /\ [RaceNext]_allvars => [Heals]_allvars
  BY RaceNextHolds
<1>2. QED
  BY <1>1, RaceInvAlways, PTL DEF RaceSpec, RecomputingHeals, Heals
----------------------------------------------------------------------------
(* The threads of a batch. *)

\* The chunks cut the batch, in order, at the ends of its chunks.
CutAt(cut) ==
  /\ cut \in [0 .. Len(chunks) -> 0 .. Len(Batch)]
  /\ cut[0] = 0 /\ cut[Len(chunks)] = Len(Batch)
  /\ \A u, v \in 0 .. Len(chunks) : u <= v => cut[u] <= cut[v]
  /\ \A w \in DOMAIN chunks :
       chunks[w] = [j \in 1 .. cut[w] - cut[w - 1] |-> Batch[cut[w - 1] + j]]
Partitioned ==
  /\ chunks \in Seq(Seq(ToSet(Batch))) /\ Batch # <<>>
  /\ \E cut : CutAt(cut)

LEMMA Multiples ==
  ASSUME NEW i \in Nat, NEW j \in Nat, NEW s \in Nat, i <= j
  PROVE  i * s <= j * s /\ i * s \in Nat /\ (i + 1) * s = i * s + s
<1>1. PICK d \in Nat : j = i + d
  <2>1. j - i \in Nat /\ j = i + (j - i)
    OBVIOUS
  <2>. QED BY <2>1
<1>2. (i + d) * s = i * s + d * s /\ d * s \in Nat /\ i * s \in Nat
  OBVIOUS
<1>3. (i + 1) * s = i * s + s
  OBVIOUS
<1>. QED BY <1>1, <1>2, <1>3

LEMMA RoundedUp ==
  ASSUME NEW n \in Nat \ {0}, NEW k \in Nat \ {0}
  PROVE  LET q == (n + k - 1) \div k
         IN  q \in Nat \ {0} /\ q * k >= n /\ (q - 1) * k < n
<1>. DEFINE q == (n + k - 1) \div k
            r == (n + k - 1) % k
<1>1. n + k - 1 \in Int /\ k \in Int /\ k > 0
  OBVIOUS
<1>2. q \in Int /\ r \in 0 .. k - 1 /\ n + k - 1 = q * k + r
  BY <1>1
<1>. HIDE DEF q, r
<1>3. q >= 1
  <2>. SUFFICES ASSUME q <= 0 PROVE FALSE
    BY <1>2
  <2>1. q * k <= 0
    BY <1>1, <1>2
  <2>. QED BY <1>1, <1>2, <2>1
<1>4. (q - 1) * k = q * k - k
  BY <1>1, <1>2
<1>5. q \in Nat \ {0} /\ q * k >= n /\ (q - 1) * k < n
  BY <1>1, <1>2, <1>3, <1>4
<1>. QED BY <1>5 DEF q

\* process_batch cuts a batch that is not empty, whatever max_workers is.
LEMMA ChunksPartition ==
  ASSUME Batch # <<>>, NEW n \in MaxWorkers, chunks = Chunks(n)
  PROVE  Partitioned
<1>. DEFINE N == Len(Batch)
            k == IF n > N THEN N ELSE IF n = 0 THEN 1 ELSE n
            size == (N + k - 1) \div k
            M == (N + size - 1) \div size
            last(w) == IF w * size > N THEN N ELSE w * size
            cut == [w \in 0 .. M |-> last(w)]
<1>1. N \in Nat \ {0} /\ k \in Nat \ {0}
  BY TeamAssumption
<1>2. size \in Nat \ {0}
  <2>. HIDE DEF k, N
  <2>. QED BY <1>1, RoundedUp
<1>3. M \in Nat \ {0} /\ M * size >= N /\ (M - 1) * size < N
  <2>. HIDE DEF size, N
  <2>. QED BY <1>1, <1>2, RoundedUp
<1>4. chunks = [w \in 1 .. M |-> SubSeq(Batch, (w - 1) * size + 1, last(w))]
  BY DEF Chunks
<1>. HIDE DEF N, k, size, M
<1>5. ASSUME NEW u \in 0 .. M, NEW v \in 0 .. M, u <= v PROVE last(u) <= last(v) /\ last(u) \in 0 .. N
  <2>1. u * size <= v * size /\ u * size \in Nat /\ v * size \in Nat
    BY <1>2, <1>3, <1>5, Multiples
  <2>. QED BY <1>1, <2>1
<1>6. ASSUME NEW w \in 1 .. M
      PROVE  /\ last(w - 1) = (w - 1) * size
             /\ last(w - 1) <= last(w) /\ last(w - 1) \in 0 .. N /\ last(w) \in 0 .. N
  <2>1. w - 1 \in 0 .. M /\ w \in 0 .. M /\ w - 1 <= w /\ M - 1 \in Nat /\ w - 1 <= M - 1
    BY <1>3
  <2>2. (w - 1) * size <= (M - 1) * size
    BY <1>2, <2>1, Multiples
  <2>3. (w - 1) * size \in Nat /\ (M - 1) * size \in Nat
    BY <1>2, <2>1, Multiples
  <2>4. ~ ((w - 1) * size > N)
    BY <1>1, <1>3, <2>2, <2>3
  <2>5. last(w - 1) = (w - 1) * size
    BY <2>4
  <2>. HIDE DEF last
  <2>. QED BY <1>5, <2>1, <2>5
<1>7. last(0) = 0 /\ last(M) = N
  <2>1. 0 * size = 0 /\ M * size \in Nat
    BY <1>2, <1>3
  <2>. QED BY <1>1, <1>3, <2>1
<1>. HIDE DEF last
<1>8. ASSUME NEW w \in 1 .. M
      PROVE  /\ chunks[w] = [j \in 1 .. last(w) - last(w - 1) |-> Batch[last(w - 1) + j]]
             /\ chunks[w] \in Seq(ToSet(Batch))
  <2>1. chunks[w] = SubSeq(Batch, last(w - 1) + 1, last(w))
    BY <1>4, <1>6
  <2>2. PICK x \in 0 .. N, y \in 0 .. N : x = last(w - 1) /\ y = last(w) /\ x <= y
    BY <1>6
  <2>3. Batch \in Seq(ToSet(Batch)) /\ Len(Batch) = N
    BY TeamAssumption DEF N
  <2>4. SubSeq(Batch, x + 1, y) = [j \in 1 .. y - x |-> Batch[x + j]]
    BY <1>1, <2>2, <2>3
  <2>5. \A j \in 1 .. y - x : x + j \in 1 .. N
    BY <1>1, <2>2
  <2>6. [j \in 1 .. y - x |-> Batch[x + j]] \in Seq(ToSet(Batch))
    <3>1. y - x \in Nat /\ DOMAIN Batch = 1 .. N /\ \A l \in 1 .. N : Batch[l] \in ToSet(Batch)
      BY <1>1, <2>2, <2>3
    <3>2. \A j \in 1 .. y - x : Batch[x + j] \in ToSet(Batch)
      BY <2>5, <3>1
    <3>. QED BY <3>1, <3>2
  <2>. QED BY <2>1, <2>2, <2>4, <2>6
<1>9. chunks \in Seq(Seq(ToSet(Batch))) /\ Len(chunks) = M /\ DOMAIN chunks = 1 .. M
  <2>1. chunks \in [1 .. M -> Seq(ToSet(Batch))]
    BY <1>4, <1>8
  <2>. QED BY <1>3, <2>1
<1>10. CutAt(cut)
  <2>1. cut \in [0 .. M -> 0 .. N] /\ \A w \in 0 .. M : cut[w] = last(w)
    BY <1>5
  <2>2. 0 \in 0 .. M /\ M \in 0 .. M /\ \A w \in 1 .. M : w \in 0 .. M /\ w - 1 \in 0 .. M
    BY <1>3
  <2>. HIDE DEF cut
  <2>3. cut[0] = 0 /\ cut[M] = N
    BY <1>7, <2>1, <2>2
  <2>4. \A u, v \in 0 .. M : u <= v => cut[u] <= cut[v]
    BY <1>5, <2>1
  <2>5. \A w \in 1 .. M : chunks[w] = [j \in 1 .. cut[w] - cut[w - 1] |-> Batch[cut[w - 1] + j]]
    BY <1>8, <2>1, <2>2
  <2>. QED BY <1>9, <2>1, <2>3, <2>4, <2>5 DEF CutAt, N
<1>. HIDE DEF cut
<1>. QED BY <1>9, <1>10 DEF Partitioned

\* Where the members of a chunk are in the batch: an obligation is in one chunk
\* only, once, and every one is in some chunk.
LEMMA ChunksDisjoint ==
  ASSUME Partitioned, NEW v \in DOMAIN chunks, NEW w \in DOMAIN chunks,
         NEW i \in DOMAIN chunks[v], NEW j \in DOMAIN chunks[w], chunks[v][i] = chunks[w][j]
  PROVE  v = w /\ i = j
<1>1. PICK cut : CutAt(cut)
  BY DEF Partitioned
<1>2. /\ Len(chunks) \in Nat /\ DOMAIN chunks = 1 .. Len(chunks)
      /\ v - 1 \in 0 .. Len(chunks) /\ w - 1 \in 0 .. Len(chunks)
      /\ v \in 0 .. Len(chunks) /\ w \in 0 .. Len(chunks) /\ v \in Int /\ w \in Int
  BY DEF Partitioned
<1>3. /\ i \in 1 .. cut[v] - cut[v - 1] /\ chunks[v][i] = Batch[cut[v - 1] + i]
      /\ j \in 1 .. cut[w] - cut[w - 1] /\ chunks[w][j] = Batch[cut[w - 1] + j]
  BY <1>1 DEF CutAt
<1>4. /\ cut[v] \in 0 .. Len(Batch) /\ cut[v - 1] \in 0 .. Len(Batch)
      /\ cut[w] \in 0 .. Len(Batch) /\ cut[w - 1] \in 0 .. Len(Batch)
  BY <1>1, <1>2 DEF CutAt
<1>5. /\ v <= w - 1 => cut[v] <= cut[w - 1]
      /\ w <= v - 1 => cut[w] <= cut[v - 1]
  BY <1>1, <1>2 DEF CutAt
<1>6. cut[v - 1] + i \in DOMAIN Batch /\ cut[w - 1] + j \in DOMAIN Batch
  BY <1>3, <1>4, TeamAssumption
<1>7. cut[v - 1] + i = cut[w - 1] + j
  BY <1>3, <1>6, TeamAssumption DEF IsInjective
<1>8. v = w
  <2>1. PICK pv \in Nat, pw \in Nat, qv \in Nat, qw \in Nat :
               pv = cut[v - 1] /\ pw = cut[w - 1] /\ qv = cut[v] /\ qw = cut[w]
    BY <1>4
  <2>2. i \in 1 .. qv - pv /\ j \in 1 .. qw - pw /\ pv + i = pw + j
    BY <1>3, <1>7, <2>1
  <2>3. ~ (qv <= pw) /\ ~ (qw <= pv)
    BY <2>1, <2>2
  <2>4. ~ (v <= w - 1) /\ ~ (w <= v - 1)
    BY <1>5, <2>1, <2>3
  <2>. QED BY <1>2, <2>4
<1>. QED BY <1>3, <1>4, <1>7, <1>8

\* A set of naturals that is not empty has a least element.
LEMMA LeastNatural ==
  ASSUME NEW S \in SUBSET Nat, S # {}
  PROVE  \E m \in S : \A n \in S : m <= n
<1>. DEFINE T == {0 .. n : n \in S}
<1>1. T \subseteq FiniteSubsetsOf(Nat)
  <2>1. ASSUME NEW n \in S PROVE 0 .. n \subseteq Nat /\ IsFiniteSet(0 .. n)
    BY FS_Interval
  <2>. QED BY <2>1 DEF FiniteSubsetsOf
<1>2. PICK I \in T : \A J \in T : ~ (<<J, I>> \in StrictSubsetOrdering(Nat))
  <2>1. T # {}
    OBVIOUS
  <2>2. IsWellFoundedOn(StrictSubsetOrdering(Nat), FiniteSubsetsOf(Nat))
    BY FS_StrictSubsetOrderingWellFounded
  <2>. HIDE DEF T
  <2>. QED BY <1>1, <2>1, <2>2, WFMin
<1>3. PICK m \in S : I = 0 .. m
  OBVIOUS
<1>4. ASSUME NEW n \in S, n < m PROVE FALSE
  <2>1. 0 .. n \subseteq 0 .. m /\ 0 .. n # 0 .. m
    <3>1. m \in 0 .. m /\ m \notin 0 .. n
      BY <1>4
    <3>. QED BY <1>4, <3>1
  <2>2. <<0 .. n, I>> \in (SUBSET Nat) \X (SUBSET Nat)
    BY <1>3
  <2>3. <<0 .. n, I>> \in StrictSubsetOrdering(Nat)
    BY <1>3, <2>1, <2>2 DEF StrictSubsetOrdering
  <2>. QED BY <1>2, <2>3
<1>. QED BY <1>4

\* Every place in the batch is in some chunk.
LEMMA ChunksCover ==
  ASSUME Partitioned, NEW cut, CutAt(cut), NEW i \in DOMAIN Batch
  PROVE  \E w \in DOMAIN chunks : cut[w - 1] < i /\ i <= cut[w]
<1>. DEFINE M == Len(chunks)
            S == {u \in 0 .. M : i <= cut[u]}
<1>1. M \in Nat /\ DOMAIN chunks = 1 .. M
  BY DEF Partitioned
<1>2. Len(Batch) \in Nat /\ i \in 1 .. Len(Batch)
  BY TeamAssumption
<1>3. cut[0] = 0 /\ cut[M] = Len(Batch) /\ \A u \in 0 .. M : cut[u] \in 0 .. Len(Batch)
  BY DEF CutAt
<1>. HIDE DEF M
<1>4. M \in S /\ S \in SUBSET Nat
  BY <1>1, <1>2, <1>3
<1>5. PICK w \in S : \A u \in S : w <= u
  <2>. HIDE DEF S
  <2>. QED BY <1>4, LeastNatural
<1>6. w # 0
  BY <1>2, <1>3, <1>5
<1>7. w \in 1 .. M /\ w - 1 \in 0 .. M /\ w - 1 \notin S
  BY <1>1, <1>5, <1>6
<1>8. ~ (i <= cut[w - 1]) /\ cut[w - 1] \in 0 .. Len(Batch) /\ i <= cut[w]
  BY <1>3, <1>5, <1>7
<1>. QED BY <1>1, <1>2, <1>7, <1>8

\* Two pieces of a sequence, one after the other, are one piece.
LEMMA PiecesJoin ==
  ASSUME NEW A, NEW all \in Seq(A), NEW p \in Nat, NEW q \in Nat, p <= q, q <= Len(all)
  PROVE  [l \in 1 .. p |-> all[l]] \o [j \in 1 .. q - p |-> all[p + j]] = [l \in 1 .. q |-> all[l]]
<1>. DEFINE s == [l \in 1 .. p |-> all[l]]
            t == [j \in 1 .. q - p |-> all[p + j]]
            r == [l \in 1 .. q |-> all[l]]
<1>1. PICK n \in Nat : n = Len(all)
  OBVIOUS
<1>2. \A l \in 1 .. n : all[l] \in A
  BY <1>1
<1>3. q - p \in Nat /\ q <= n /\ \A j \in 1 .. q - p : p + j \in 1 .. n
  BY <1>1
<1>4. s \in [1 .. p -> A]
  BY <1>2, <1>3
<1>5. t \in [1 .. q - p -> A]
  BY <1>2, <1>3
<1>6. r \in [1 .. q -> A]
  BY <1>2, <1>3
<1>7. \A l \in 1 .. p : s[l] = all[l]
  OBVIOUS
<1>8. \A j \in 1 .. q - p : t[j] = all[p + j]
  OBVIOUS
<1>9. \A l \in 1 .. q : r[l] = all[l]
  OBVIOUS
<1>. HIDE DEF s, t, r
<1>10. s \in Seq(A) /\ Len(s) = p
  BY <1>4
<1>11. t \in Seq(A) /\ Len(t) = q - p
  BY <1>3, <1>5
<1>12. s \o t = [l \in 1 .. q |-> IF l <= p THEN s[l] ELSE t[l - p]]
  <2>1. p + (q - p) = q
    OBVIOUS
  <2>2. s \o t \in Seq(A) /\ Len(s \o t) = p + (q - p)
    BY <1>10, <1>11
  <2>3. \A l \in 1 .. p + (q - p) : (s \o t)[l] = IF l <= p THEN s[l] ELSE t[l - p]
    BY <1>10, <1>11
  <2>. DEFINE b == s \o t
  <2>4. b \in Seq(A) /\ Len(b) = q /\ \A l \in 1 .. q : b[l] = IF l <= p THEN s[l] ELSE t[l - p]
    BY <2>1, <2>2, <2>3
  <2>. HIDE DEF b
  <2>5. b = [l \in 1 .. q |-> b[l]]
    BY <2>4
  <2>6. b = [l \in 1 .. q |-> IF l <= p THEN s[l] ELSE t[l - p]]
    BY <2>4, <2>5
  <2>. QED BY <2>6 DEF b
<1>13. ASSUME NEW l \in 1 .. q PROVE (IF l <= p THEN s[l] ELSE t[l - p]) = r[l]
  <2>1. CASE l <= p
    BY <1>7, <1>9, <2>1
  <2>2. CASE ~ (l <= p)
    <3>1. l - p \in 1 .. q - p /\ p + (l - p) = l
      BY <2>2
    <3>. QED BY <1>8, <1>9, <2>2, <3>1
  <2>. QED BY <2>1, <2>2
<1>14. s \o t = r
  BY <1>6, <1>12, <1>13
<1>. QED BY <1>14 DEF s, t, r

\* The sequences seqs are all, cut at these places.
Pieces(A, all, M, cut, seqs) ==
  /\ M \in Nat \ {0} /\ all \in Seq(A) /\ seqs \in Seq(Seq(A)) /\ Len(seqs) = M
  /\ cut \in [0 .. M -> 0 .. Len(all)] /\ cut[0] = 0 /\ cut[M] = Len(all)
  /\ \A u, v \in 0 .. M : u <= v => cut[u] <= cut[v]
  /\ \A w \in 1 .. M : Len(seqs[w]) = cut[w] - cut[w - 1]
  /\ \A w \in 1 .. M : \A j \in 1 .. cut[w] - cut[w - 1] : seqs[w][j] = all[cut[w - 1] + j]

\* Put together again, they are all.
LEMMA Flattened ==
  ASSUME NEW A, NEW all, NEW M, NEW cut, NEW seqs, Pieces(A, all, M, cut, seqs)
  PROVE  FlattenSeq(seqs) = all
<1>. DEFINE upTo(w) == [l \in 1 .. cut[w] |-> all[l]]
            F == [w \in 1 .. M |-> upTo(w)]
            step(f) == [i \in 1 .. M |-> IF i = 1 THEN seqs[i] ELSE f[i - 1] \o seqs[i]]
            G == CHOOSE f : f = step(f)
<1>def. /\ M \in Nat \ {0} /\ all \in Seq(A) /\ seqs \in Seq(Seq(A)) /\ Len(seqs) = M
        /\ cut \in [0 .. M -> 0 .. Len(all)] /\ cut[0] = 0 /\ cut[M] = Len(all)
        /\ \A u, v \in 0 .. M : u <= v => cut[u] <= cut[v]
        /\ \A w \in 1 .. M : Len(seqs[w]) = cut[w] - cut[w - 1]
        /\ \A w \in 1 .. M : \A j \in 1 .. cut[w] - cut[w - 1] : seqs[w][j] = all[cut[w - 1] + j]
  BY DEF Pieces
<1>. USE <1>def
<1>0. ASSUME NEW w \in 1 .. M
      PROVE  seqs[w] = [j \in 1 .. cut[w] - cut[w - 1] |-> all[cut[w - 1] + j]]
  <2>1. seqs[w] \in Seq(A)
    OBVIOUS
  <2>2. DOMAIN seqs[w] = 1 .. cut[w] - cut[w - 1]
    BY <2>1
  <2>3. seqs[w] = [j \in DOMAIN seqs[w] |-> seqs[w][j]]
    BY <2>1
  <2>. QED BY <2>2, <2>3
<1>1. ASSUME NEW w \in 1 .. M
      PROVE  /\ w \in 0 .. M /\ w - 1 \in 0 .. M
             /\ cut[w] \in 0 .. Len(all) /\ cut[w - 1] \in 0 .. Len(all)
             /\ cut[w - 1] <= cut[w]
  OBVIOUS
<1>2. F = step(F)
  <2>1. ASSUME NEW w \in 1 .. M, w # 1 PROVE F[w] = F[w - 1] \o seqs[w]
    <3>1. PICK p \in 0 .. Len(all), q \in 0 .. Len(all) :
                 p = cut[w - 1] /\ q = cut[w] /\ p <= q
      BY <1>1
    <3>. DEFINE x == [l \in 1 .. p |-> all[l]]
                y == [j \in 1 .. q - p |-> all[p + j]]
                z == [l \in 1 .. q |-> all[l]]
    <3>2. F[w] = z /\ F[w - 1] = x
      <4>1. w - 1 \in 1 .. M
        BY <2>1
      <4>. QED BY <3>1, <4>1
    <3>3. seqs[w] = y
      BY <1>0, <3>1
    <3>4. p \in Nat /\ q \in Nat /\ p <= q /\ q <= Len(all)
      BY <3>1
    <3>5. x \o y = z
      <4>1. all \in Seq(A)
        OBVIOUS
      <4>. QED BY ONLY <3>4, <4>1, PiecesJoin
    <3>. HIDE DEF F, x, y, z
    <3>. QED BY <3>2, <3>3, <3>5
  <2>2. F[1] = seqs[1]
    <3>1. 1 \in 1 .. M /\ 1 - 1 = 0
      OBVIOUS
    <3>2. seqs[1] = [j \in 1 .. cut[1] - 0 |-> all[0 + j]]
      <4>1. seqs[1] = [j \in 1 .. cut[1] - cut[1 - 1] |-> all[cut[1 - 1] + j]]
        BY <1>0, <3>1
      <4>. QED BY <3>1, <4>1
    <3>3. cut[1] \in 0 .. Len(all) /\ Len(all) \in Nat
      BY <1>1, <3>1
    <3>4. cut[1] - 0 = cut[1] /\ \A j \in 1 .. cut[1] : 0 + j = j
      BY <3>3
    <3>. QED BY <3>1, <3>2, <3>4
  <2>. HIDE DEF upTo
  <2>3. step(F) = [i \in 1 .. M |-> F[i]]
    <3>. HIDE DEF F
    <3>. QED BY <2>1, <2>2
  <2>. QED BY <2>3
<1>3. G = step(G)
  <2>. HIDE DEF step, F
  <2>. QED BY <1>2
<1>. HIDE DEF F, G
<1>4. ASSUME NEW i \in 1 .. M PROVE G[i] = F[i]
  <2>. DEFINE D == {l \in 1 .. M : G[l] # F[l]}
  <2>1. SUFFICES ASSUME D # {} PROVE FALSE
    OBVIOUS
  <2>2. PICK m \in D : \A l \in D : m <= l
    <3>1. D \in SUBSET Nat
      OBVIOUS
    <3>. HIDE DEF D
    <3>. QED BY <2>1, <3>1, LeastNatural
  <2>3. CASE m = 1
    BY <1>2, <1>3, <2>2, <2>3
  <2>4. CASE m # 1
    <3>1. m - 1 \in 1 .. M /\ m - 1 \notin D
      BY <2>2, <2>4
    <3>2. G[m - 1] = F[m - 1]
      BY <3>1
    <3>3. G[m] = G[m - 1] \o seqs[m]
      BY <1>3, <2>2, <2>4
    <3>4. F[m] = F[m - 1] \o seqs[m]
      BY <1>2, <2>2, <2>4
    <3>. QED BY <2>2, <3>2, <3>3, <3>4
  <2>. QED BY <2>3, <2>4
<1>5. Len(seqs) = M
  OBVIOUS
<1>6. FlattenSeq(seqs) = G[M]
  BY <1>5 DEF FlattenSeq, G
<1>7. F[M] = [l \in 1 .. Len(all) |-> all[l]]
  <2>1. M \in 1 .. M
    OBVIOUS
  <2>2. F[M] = upTo(M)
    BY <2>1 DEF F
  <2>. QED BY <2>2
<1>8. F[M] = all
  BY <1>7
<1>. QED BY <1>4, <1>6, <1>8

Thread == [at : {"open", "node", "commit", "done", "failed"}, i : Nat \ {0}, step : Step,
           tries : 0 .. MaxTries - 1, out : Seq(Outcome)]

\* What a thread in state t has done for its chunk c, R being the rows: the
\* obligations behind it are answered and have all their rows, the ones ahead
\* have none, and of the one in hand the last row is missing and the row it is
\* about to write is fewer than the one before.
Recorded(t, c, R) ==
  /\ t.i <= Len(c) + 1
  /\ t.at = "commit" => t.i <= Len(c) /\ c[t.i] \in Known
  /\ t.at = "done" => t.i = Len(c) + 1
  /\ t.at \in {"open", "node"} => t.tries = 0
  /\ t.out = [j \in 1 .. t.i - 1 |-> [node |-> c[j], ok |-> c[j] \in Known]]
  /\ \A j \in DOMAIN c :
       /\ R[c[j]][4] = IF j < t.i /\ c[j] \in Known THEN 1 ELSE 0
       /\ j > t.i \/ (j = t.i /\ t.at \in {"open", "node"}) => R[c[j]][1] = 0
       /\ j = t.i /\ t.at = "commit" =>
            /\ R[c[j]][1] <= t.tries + (IF t.step = 1 THEN 0 ELSE 1)
            /\ t.step # 1 => R[c[j]][t.step] < R[c[j]][t.step - 1]

\* Rows in the order of their commits.
Ordered(r) == r[2] <= r[1] /\ r[3] <= r[2] /\ r[4] <= r[3]

Reported ==
  /\ [i \in DOMAIN result.out |-> result.out[i].node] = Batch
  /\ \A i \in DOMAIN result.out :
       LET o == result.out[i]
       IN (o.ok <=> o.node \in Known) /\ (o.ok => \A s \in Step : rows[o.node][s] > 0)

RowsInv ==
  /\ rows \in [ToSet(Batch) -> [Step -> 0 .. MaxTries]]
  /\ \A n \in ToSet(Batch) : Ordered(rows[n])
ResultInv ==
  /\ result \in [is : {"running", "error", "ok"}, out : Seq(Outcome)]
  /\ result.is = "ok" => Reported
BatchInv ==
  /\ Partitioned
  /\ workers \in Seq(Thread) /\ Len(workers) = Len(chunks)
  /\ RowsInv /\ ResultInv
  /\ \A w \in DOMAIN chunks : Recorded(workers[w], chunks[w], rows)

\* One more outcome, the next of the chunk.
LEMMA Answers ==
  ASSUME NEW i \in Nat \ {0}, NEW c, NEW K, NEW out \in Seq(Outcome), NEW o \in Outcome,
         out = [j \in 1 .. i - 1 |-> [node |-> c[j], ok |-> c[j] \in K]],
         o = [node |-> c[i], ok |-> c[i] \in K]
  PROVE  Append(out, o) = [j \in 1 .. i + 1 - 1 |-> [node |-> c[j], ok |-> c[j] \in K]]
<1>1. Len(out) = i - 1 /\ i + 1 - 1 = i
  BY DOMAIN out = 1 .. i - 1
<1>2. Append(out, o) \in Seq(Outcome) /\ Len(Append(out, o)) = i
  BY <1>1
<1>3. \A j \in 1 .. i : Append(out, o)[j] = IF j = i THEN o ELSE out[j]
  BY <1>1
<1>. DEFINE b == Append(out, o)
            g == [j \in 1 .. i |-> [node |-> c[j], ok |-> c[j] \in K]]
<1>4. ASSUME NEW j \in 1 .. i PROVE b[j] = g[j]
  <2>1. CASE j = i
    BY <1>3, <2>1
  <2>2. CASE j # i
    <3>1. j \in 1 .. i - 1
      BY <2>2
    <3>2. b[j] = out[j]
      BY <1>3, <2>2
    <3>3. out[j] = [node |-> c[j], ok |-> c[j] \in K]
      BY <3>1
    <3>. HIDE DEF b
    <3>. QED BY <3>2, <3>3
  <2>. QED BY <2>1, <2>2
<1>5. DOMAIN b = 1 .. i /\ b = [j \in DOMAIN b |-> b[j]]
  BY <1>2
<1>. HIDE DEF b
<1>6. b = g
  BY <1>4, <1>5
<1>. QED BY <1>1, <1>6 DEF b

LEMMA SameRows ==
  ASSUME NEW t, NEW c, NEW R, NEW S, Recorded(t, c, R), \A j \in DOMAIN c : S[c[j]] = R[c[j]]
  PROVE  Recorded(t, c, S)
BY DEF Recorded

\* What each step of a thread has to show: the thread is as its rows are, and
\* no row was changed but those of its own obligation.
LEMMA ThreadKeeps ==
  ASSUME BatchInv, NEW w \in DOMAIN chunks, NEW t \in Thread, workers' = [workers EXCEPT ![w] = t],
         UNCHANGED <<chunks, result>>, RowsInv',
         \A n \in ToSet(Batch), s \in Step : rows[n][s] <= rows'[n][s],
         \A n \in ToSet(Batch) : (\A j \in DOMAIN chunks[w] : n # chunks[w][j]) => rows'[n] = rows[n],
         Recorded(t, chunks[w], rows')
  PROVE  BatchInv'
<1>1. Partitioned'
  <2>1. PICK cut : CutAt(cut)
    BY DEF BatchInv, Partitioned
  <2>2. chunks' = chunks /\ Partitioned
    BY DEF BatchInv
  <2>3. (\E c : CutAt(c))'
    <3>1. (\E c : CutAt(c)) <=> (\E c : CutAt(c))'
      BY <2>2 DEF CutAt
    <3>. QED BY <2>1, <3>1
  <2>. QED BY <2>2, <2>3 DEF Partitioned
<1>2. DOMAIN workers = DOMAIN chunks /\ workers \in Seq(Thread) /\ Len(workers) = Len(chunks)
      /\ DOMAIN chunks = 1 .. Len(chunks)
  BY DEF BatchInv, Partitioned
<1>3. workers' \in Seq(Thread) /\ Len(workers') = Len(chunks')
  BY <1>2
<1>4. ResultInv'
  <2>1. result' = result /\ ResultInv
    BY DEF BatchInv
  <2>2. ASSUME Reported, result \in [is : {"running", "error", "ok"}, out : Seq(Outcome)]
        PROVE  Reported'
    <3>1. \A i \in DOMAIN result.out : result.out[i].node \in ToSet(Batch)
      <4>1. result.out \in Seq(Outcome)
        BY <2>2
      <4>2. \A i \in DOMAIN result.out : result.out[i] \in Outcome
        BY <4>1
      <4>. QED BY <4>2 DEF Outcome
    <3>2. ASSUME NEW i \in DOMAIN result.out, result.out[i].ok, NEW s \in Step
          PROVE  rows'[result.out[i].node][s] > 0
      <4>1. PICK n \in ToSet(Batch) : n = result.out[i].node
        BY <3>1
      <4>2. rows[n][s] \in Nat /\ rows'[n][s] \in Nat /\ rows[n][s] > 0 /\ rows[n][s] <= rows'[n][s]
        <5>1. rows[n][s] \in 0 .. MaxTries /\ rows'[n][s] \in 0 .. MaxTries
          BY <4>1 DEF BatchInv, RowsInv
        <5>. QED BY <2>2, <3>2, <4>1, <5>1, TeamAssumption DEF Reported
      <4>. QED BY <4>1, <4>2
    <3>3. result'.out = result.out
      BY <2>1
    <3>. QED BY <2>2, <3>2, <3>3 DEF Reported
  <2>. QED BY <2>1, <2>2 DEF ResultInv
<1>5. ASSUME NEW v \in DOMAIN chunks PROVE Recorded(workers'[v], chunks'[v], rows')
  <2>1. CASE v = w
    BY <1>2, <2>1
  <2>2. CASE v # w
    <3>1. workers'[v] = workers[v] /\ chunks'[v] = chunks[v] /\ Recorded(workers[v], chunks[v], rows)
      BY <1>2, <2>2 DEF BatchInv
    <3>2. ASSUME NEW j \in DOMAIN chunks[v] PROVE rows'[chunks[v][j]] = rows[chunks[v][j]]
      <4>1. chunks[v][j] \in ToSet(Batch)
        BY DEF BatchInv, Partitioned
      <4>2. ASSUME NEW i \in DOMAIN chunks[w] PROVE chunks[v][j] # chunks[w][i]
        BY <2>2, ChunksDisjoint DEF BatchInv
      <4>. QED BY <4>1, <4>2
    <3>3. Recorded(workers[v], chunks[v], rows')
      BY <3>1, <3>2, SameRows
    <3>. QED BY <3>1, <3>3
  <2>. QED BY <2>1, <2>2
<1>. QED BY <1>1, <1>2, <1>3, <1>4, <1>5 DEF BatchInv

\* A thread in state t and the rows that BatchInv lets a step of it read.
LEMMA ThreadRead ==
  ASSUME BatchInv, NEW w \in DOMAIN workers
  PROVE  /\ w \in DOMAIN chunks
         /\ workers[w] \in Thread /\ Recorded(workers[w], chunks[w], rows)
         /\ Len(chunks[w]) \in Nat /\ DOMAIN chunks[w] = 1 .. Len(chunks[w])
         /\ chunks[w] \in Seq(ToSet(Batch))
<1>1. DOMAIN workers = DOMAIN chunks /\ workers \in Seq(Thread)
  BY DEF BatchInv, Partitioned
<1>2. chunks[w] \in Seq(ToSet(Batch))
  BY <1>1 DEF BatchInv, Partitioned
<1>. QED BY <1>1, <1>2 DEF BatchInv

LEMMA OpenHolds ==
  ASSUME BatchInv, NEW w \in DOMAIN workers, OpenStore(w)
  PROVE  BatchInv'
<1>1. PICK opened \in BOOLEAN : workers' = [workers EXCEPT ![w].at = IF opened THEN "node" ELSE "failed"]
  BY DEF OpenStore
<1>2. w \in DOMAIN chunks /\ workers[w] \in Thread /\ Recorded(workers[w], chunks[w], rows)
      /\ workers[w].at = "open" /\ rows' = rows /\ UNCHANGED <<chunks, result>>
  BY ThreadRead DEF OpenStore
<1>. DEFINE t == [workers[w] EXCEPT !.at = IF opened THEN "node" ELSE "failed"]
<1>3. t \in Thread /\ workers' = [workers EXCEPT ![w] = t]
  BY <1>1, <1>2 DEF Thread
<1>4. /\ t.at \in {"node", "failed"} /\ t.i = workers[w].i /\ t.out = workers[w].out
      /\ t.tries = workers[w].tries
  BY <1>2 DEF Thread
<1>. HIDE DEF t
<1>5. Recorded(t, chunks[w], rows')
  BY <1>2, <1>4 DEF Recorded
<1>6. RowsInv' /\ \A n \in ToSet(Batch), s \in Step : rows[n][s] <= rows'[n][s]
  <2>1. \A n \in ToSet(Batch), s \in Step : rows[n][s] \in 0 .. MaxTries
    BY DEF BatchInv, RowsInv
  <2>. QED BY <1>2, <2>1, TeamAssumption DEF BatchInv, RowsInv
<1>. QED BY <1>2, <1>3, <1>5, <1>6, ThreadKeeps

LEMMA TakeHolds ==
  ASSUME BatchInv, NEW w \in DOMAIN workers, Take(w)
  PROVE  BatchInv'
<1>. DEFINE me == workers[w]
            c == chunks[w]
<1>1. /\ w \in DOMAIN chunks /\ me \in Thread /\ Recorded(me, c, rows)
      /\ Len(c) \in Nat /\ DOMAIN c = 1 .. Len(c) /\ c \in Seq(ToSet(Batch))
  BY ThreadRead
<1>2. /\ me.at = "node" /\ rows' = rows /\ UNCHANGED <<chunks, result>>
      /\ workers' = IF me.i > Len(c) THEN [workers EXCEPT ![w].at = "done"]
                    ELSE IF c[me.i] \in Known THEN [workers EXCEPT ![w].at = "commit", ![w].step = 1]
                    ELSE [workers EXCEPT ![w].i = me.i + 1,
                                         ![w].out = Append(me.out, [node |-> c[me.i], ok |-> FALSE])]
  BY DEF Take, Current
<1>3. RowsInv' /\ \A n \in ToSet(Batch), s \in Step : rows[n][s] <= rows'[n][s]
  <2>1. \A n \in ToSet(Batch), s \in Step : rows[n][s] \in 0 .. MaxTries
    BY DEF BatchInv, RowsInv
  <2>. QED BY <1>2, <2>1, TeamAssumption DEF BatchInv, RowsInv
<1>4. workers[w] = me /\ w \in DOMAIN workers
  OBVIOUS
<1>5. /\ me.i \in Nat \ {0} /\ me.step \in Step /\ me.tries \in 0 .. MaxTries - 1
      /\ me.out \in Seq(Outcome)
  BY <1>1 DEF Thread
<1>. HIDE DEF me, c
<1>6. SUFFICES ASSUME NEW t, workers' = [workers EXCEPT ![w] = t], t \in Thread,
                      Recorded(t, chunks[w], rows)
               PROVE  BatchInv'
  <2>1. CASE me.i > Len(c)
    <3>. DEFINE t == [me EXCEPT !.at = "done"]
    <3>1. workers' = [workers EXCEPT ![w] = t]
      BY <1>2, <1>4, <2>1
    <3>2. t \in Thread /\ t.at = "done" /\ t.i = me.i /\ t.out = me.out
      BY <1>1 DEF Thread
    <3>. HIDE DEF t
    <3>3. t.i = Len(c) + 1
      BY <1>1, <1>5, <2>1, <3>2 DEF Recorded
    <3>4. Recorded(t, c, rows)
      BY <1>1, <1>2, <1>5, <3>2, <3>3 DEF Recorded
    <3>. QED BY <1>6, <3>1, <3>2, <3>4 DEF c
  <2>2. CASE me.i <= Len(c) /\ c[me.i] \in Known
    <3>. DEFINE t == [me EXCEPT !.at = "commit", !.step = 1]
    <3>1. workers' = [workers EXCEPT ![w] = t]
      <4>1. ~ (me.i > Len(c))
        BY <1>1, <1>5, <2>2
      <4>. QED BY <1>2, <1>4, <2>2, <4>1
    <3>2. t \in Thread /\ t.at = "commit" /\ t.i = me.i /\ t.out = me.out /\ t.step = 1 /\ t.tries = me.tries
      <4>1. 1 \in Step
        BY DEF Step
      <4>. QED BY <1>1, <4>1 DEF Thread
    <3>. HIDE DEF t
    <3>3. me.tries = 0 /\ me.i \in DOMAIN c /\ rows[c[me.i]][1] = 0
      BY <1>1, <1>2, <1>5, <2>2 DEF Recorded
    <3>4. Recorded(t, c, rows)
      BY <1>1, <1>2, <1>5, <2>2, <3>2, <3>3 DEF Recorded
    <3>. QED BY <1>6, <3>1, <3>2, <3>4 DEF c
  <2>3. CASE me.i <= Len(c) /\ c[me.i] \notin Known
    <3>. DEFINE o == [node |-> c[me.i], ok |-> FALSE]
                t == [me EXCEPT !.i = me.i + 1, !.out = Append(me.out, o)]
    <3>1. workers' = [workers EXCEPT ![w] = t]
      <4>1. ~ (me.i > Len(c))
        BY <1>1, <1>5, <2>3
      <4>. QED BY <1>2, <1>4, <2>3, <4>1
    <3>2. me.i \in DOMAIN c /\ c[me.i] \in ToSet(Batch)
      BY <1>1, <1>5, <2>3
    <3>3. o \in Outcome
      BY <3>2 DEF Outcome
    <3>4. t \in Thread /\ t.at = "node" /\ t.i = me.i + 1 /\ t.out = Append(me.out, o) /\ t.tries = me.tries
      <4>1. Append(me.out, o) \in Seq(Outcome) /\ me.i + 1 \in Nat \ {0}
        BY <1>5, <3>3
      <4>. QED BY <1>1, <1>2, <4>1 DEF Thread
    <3>. HIDE DEF t
    <3>5. t.out = [j \in 1 .. t.i - 1 |-> [node |-> c[j], ok |-> c[j] \in Known]]
      <4>1. me.out = [j \in 1 .. me.i - 1 |-> [node |-> c[j], ok |-> c[j] \in Known]]
        BY <1>1 DEF Recorded
      <4>2. o = [node |-> c[me.i], ok |-> c[me.i] \in Known]
        <5>1. (c[me.i] \in Known) = FALSE
          BY <2>3
        <5>. QED BY <5>1
      <4>. QED BY <1>5, <3>3, <3>4, <4>1, <4>2, Answers
    <3>6. t.i <= Len(c) + 1 /\ me.tries = 0
      <4>1. me.tries = 0
        BY <1>1, <1>2 DEF Recorded
      <4>. QED BY <1>1, <1>5, <2>3, <3>4, <4>1
    <3>7. ASSUME NEW j \in DOMAIN c
          PROVE  /\ rows[c[j]][4] = IF j < t.i /\ c[j] \in Known THEN 1 ELSE 0
                 /\ j >= t.i => rows[c[j]][1] = 0
      <4>1. CASE j < me.i
        BY <1>1, <1>5, <3>4, <4>1 DEF Recorded
      <4>2. CASE j = me.i
        BY <1>1, <1>5, <2>3, <3>4, <4>2 DEF Recorded
      <4>3. CASE j > me.i
        BY <1>1, <1>5, <3>4, <4>3 DEF Recorded
      <4>. QED BY <1>1, <1>5, <4>1, <4>2, <4>3
    <3>8. Recorded(t, c, rows)
      BY <1>1, <1>5, <3>4, <3>5, <3>6, <3>7 DEF Recorded
    <3>. QED BY <1>6, <3>1, <3>4, <3>8 DEF c
  <2>. QED BY <1>1, <1>5, <2>1, <2>2, <2>3
<1>. QED BY <1>1, <1>2, <1>3, <1>6, ThreadKeeps

\* One more row for the obligation in hand, at the commit the thread has reached.
LEMMA RowAdded ==
  ASSUME NEW r \in [Step -> 0 .. MaxTries], Ordered(r), NEW s \in Step,
         NEW tries \in 0 .. MaxTries - 1, r[4] = 0,
         r[1] <= tries + (IF s = 1 THEN 0 ELSE 1), s # 1 => r[s] < r[s - 1],
         NEW q, q = [r EXCEPT ![s] = r[s] + 1]
  PROVE  /\ q \in [Step -> 0 .. MaxTries] /\ Ordered(q) /\ q[1] <= tries + 1
         /\ s # 4 => q[4] = 0 /\ q[s + 1] < q[s]
         /\ s = 4 => q[4] = 1
         /\ \A x \in Step : r[x] <= q[x]
<1>1. Step = {1, 2, 3, 4} /\ MaxTries \in Nat \ {0}
  BY TeamAssumption DEF Step
<1>2. PICK r1 \in 0 .. MaxTries, r2 \in 0 .. MaxTries, r3 \in 0 .. MaxTries :
             r1 = r[1] /\ r2 = r[2] /\ r3 = r[3] /\ r2 <= r1 /\ r3 <= r2
  BY <1>1 DEF Ordered
<1>3. CASE s = 1
  <2>1. q[1] = r1 + 1 /\ q[2] = r2 /\ q[3] = r3 /\ q[4] = 0 /\ r1 + 1 \in 0 .. MaxTries
        /\ r1 + 1 <= tries + 1
    BY <1>1, <1>2, <1>3
  <2>2. q \in [Step -> 0 .. MaxTries]
    BY <1>1, <1>2, <1>3, <2>1
  <2>. QED BY <1>1, <1>2, <1>3, <2>1, <2>2 DEF Ordered
<1>4. CASE s = 2
  <2>1. q[1] = r1 /\ q[2] = r2 + 1 /\ q[3] = r3 /\ q[4] = 0 /\ r2 + 1 \in 0 .. MaxTries
        /\ r2 < r1 /\ r1 <= tries + 1
    BY <1>1, <1>2, <1>4
  <2>2. q \in [Step -> 0 .. MaxTries]
    BY <1>1, <1>2, <1>4, <2>1
  <2>. QED BY <1>1, <1>2, <1>4, <2>1, <2>2 DEF Ordered
<1>5. CASE s = 3
  <2>1. q[1] = r1 /\ q[2] = r2 /\ q[3] = r3 + 1 /\ q[4] = 0 /\ r3 + 1 \in 0 .. MaxTries
        /\ r3 < r2 /\ r1 <= tries + 1
    BY <1>1, <1>2, <1>5
  <2>2. q \in [Step -> 0 .. MaxTries]
    BY <1>1, <1>2, <1>5, <2>1
  <2>. QED BY <1>1, <1>2, <1>5, <2>1, <2>2 DEF Ordered
<1>6. CASE s = 4
  <2>1. q[1] = r1 /\ q[2] = r2 /\ q[3] = r3 /\ q[4] = 1 /\ 1 \in 0 .. MaxTries
        /\ 0 < r3 /\ r1 <= tries + 1
    BY <1>1, <1>2, <1>6
  <2>2. q \in [Step -> 0 .. MaxTries]
    BY <1>1, <1>2, <1>6, <2>1
  <2>. QED BY <1>1, <1>2, <1>6, <2>1, <2>2 DEF Ordered
<1>. QED BY <1>1, <1>3, <1>4, <1>5, <1>6

LEMMA CommitHolds ==
  ASSUME BatchInv, NEW w \in DOMAIN workers, Commit(w)
  PROVE  BatchInv'
<1>. DEFINE me == workers[w]
            c == chunks[w]
            n == c[me.i]
            q == [rows[n] EXCEPT ![me.step] = rows[n][me.step] + 1]
            o == [node |-> n, ok |-> TRUE]
<1>1. /\ w \in DOMAIN chunks /\ me \in Thread /\ Recorded(me, c, rows)
      /\ Len(c) \in Nat /\ DOMAIN c = 1 .. Len(c) /\ c \in Seq(ToSet(Batch))
  BY ThreadRead
<1>2. /\ me.at = "commit" /\ UNCHANGED <<chunks, result>>
      /\ rows' = [rows EXCEPT ![n][me.step] = rows[n][me.step] + 1]
      /\ workers' = IF me.step < 4 THEN [workers EXCEPT ![w].step = me.step + 1]
                    ELSE [workers EXCEPT ![w].at = "node", ![w].i = me.i + 1, ![w].tries = 0,
                                         ![w].out = Append(me.out, o)]
  BY DEF Commit, Current
<1>3. workers[w] = me /\ w \in DOMAIN workers
  OBVIOUS
<1>4. /\ me.i \in Nat \ {0} /\ me.step \in Step /\ me.tries \in 0 .. MaxTries - 1
      /\ me.out \in Seq(Outcome)
  BY <1>1 DEF Thread
<1>5. /\ rows \in [ToSet(Batch) -> [Step -> 0 .. MaxTries]]
      /\ \A m \in ToSet(Batch) : Ordered(rows[m]) /\ rows[m] \in [Step -> 0 .. MaxTries]
  BY DEF BatchInv, RowsInv
<1>. HIDE DEF me, c, q
<1>6. /\ me.i \in DOMAIN c /\ n \in ToSet(Batch) /\ n \in Known /\ rows[n][4] = 0
      /\ rows[n][1] <= me.tries + (IF me.step = 1 THEN 0 ELSE 1)
      /\ me.step # 1 => rows[n][me.step] < rows[n][me.step - 1]
  <2>1. me.i \in DOMAIN c /\ n \in Known
    BY <1>1, <1>2, <1>4 DEF Recorded
  <2>2. rows[n][4] = IF me.i < me.i /\ n \in Known THEN 1 ELSE 0
    BY <1>1, <2>1 DEF Recorded
  <2>3. /\ rows[n][1] <= me.tries + (IF me.step = 1 THEN 0 ELSE 1)
        /\ me.step # 1 => rows[n][me.step] < rows[n][me.step - 1]
    BY <1>1, <1>2, <2>1 DEF Recorded
  <2>. QED BY <1>1, <1>4, <2>1, <2>2, <2>3
<1>7. /\ q \in [Step -> 0 .. MaxTries] /\ Ordered(q) /\ q[1] <= me.tries + 1
      /\ me.step # 4 => q[4] = 0 /\ q[me.step + 1] < q[me.step]
      /\ me.step = 4 => q[4] = 1
      /\ \A x \in Step : rows[n][x] <= q[x]
  BY <1>4, <1>5, <1>6, RowAdded DEF q
<1>8. rows' = [rows EXCEPT ![n] = q]
  BY <1>2 DEF q
<1>. HIDE DEF n
<1>9. RowsInv'
  BY <1>5, <1>6, <1>7, <1>8 DEF RowsInv
<1>10. \A m \in ToSet(Batch), s \in Step : rows[m][s] <= rows'[m][s]
  <2>1. ASSUME NEW m \in ToSet(Batch), NEW s \in Step PROVE rows[m][s] <= rows'[m][s]
    <3>1. CASE m = n
      BY <1>5, <1>7, <1>8, <3>1
    <3>2. CASE m # n
      <4>1. rows'[m] = rows[m] /\ rows[m][s] \in 0 .. MaxTries
        BY <1>5, <1>8, <3>2
      <4>. QED BY <4>1, TeamAssumption
    <3>. QED BY <3>1, <3>2
  <2>. QED BY <2>1
<1>11. /\ rows'[n] = q
       /\ \A m \in ToSet(Batch) : m # n => rows'[m] = rows[m]
  BY <1>5, <1>6, <1>8
<1>12. \A j \in DOMAIN c : j # me.i => c[j] # n
  BY <1>1, <1>6, ChunksDisjoint DEF BatchInv, c, n
<1>13. \A j \in DOMAIN c : c[j] \in ToSet(Batch)
  BY <1>1
<1>14. c[me.i] = n
  BY DEF n
<1>15. SUFFICES ASSUME NEW t, workers' = [workers EXCEPT ![w] = t], t \in Thread,
                       Recorded(t, c, rows')
                PROVE  BatchInv'
  <2>1. CASE me.step < 4
    <3>. DEFINE t == [me EXCEPT !.step = me.step + 1]
    <3>1. workers' = [workers EXCEPT ![w] = t]
      BY <1>2, <1>3, <2>1
    <3>2. me.step + 1 \in Step /\ me.step + 1 # 1 /\ me.step + 1 - 1 = me.step /\ me.step # 4
      BY <1>4, <2>1 DEF Step
    <3>3. t \in Thread /\ t.at = "commit" /\ t.i = me.i /\ t.out = me.out /\ t.step = me.step + 1
          /\ t.tries = me.tries
      BY <1>1, <1>2, <3>2 DEF Thread
    <3>. HIDE DEF t
    <3>4. ASSUME NEW j \in DOMAIN c, j # me.i
          PROVE  /\ rows'[c[j]][4] = IF j < t.i /\ c[j] \in Known THEN 1 ELSE 0
                 /\ j > t.i => rows'[c[j]][1] = 0
      <4>1. rows'[c[j]] = rows[c[j]]
        BY <1>11, <1>12, <1>13, <3>4
      <4>. QED BY <1>1, <3>3, <4>1 DEF Recorded
    <3>5. rows'[c[me.i]] = q /\ q[4] = 0 /\ q[1] <= t.tries + 1 /\ q[t.step] < q[t.step - 1]
      <4>1. q[4] = 0 /\ q[me.step + 1] < q[me.step]
        BY <1>7, <3>2
      <4>2. q[t.step] < q[t.step - 1]
        <5>1. t.step - 1 = me.step
          <6>1. t.step = me.step + 1 /\ me.step \in Int
            BY <1>4, <3>3 DEF Step
          <6>. QED BY <6>1
        <5>. QED BY <3>3, <4>1, <5>1
      <4>. QED BY <1>7, <1>11, <1>14, <3>3, <4>1, <4>2
    <3>6. /\ t.i <= Len(c) + 1 /\ t.i <= Len(c) /\ c[t.i] \in Known
          /\ t.out = [j \in 1 .. t.i - 1 |-> [node |-> c[j], ok |-> c[j] \in Known]]
      BY <1>1, <1>2, <3>3 DEF Recorded
    <3>7. Recorded(t, c, rows')
      BY <1>1, <1>4, <3>2, <3>3, <3>4, <3>5, <3>6 DEF Recorded
    <3>. QED BY <1>15, <3>1, <3>3, <3>7
  <2>2. CASE me.step = 4
    <3>. DEFINE t == [me EXCEPT !.at = "node", !.i = me.i + 1, !.tries = 0,
                                !.out = Append(me.out, o)]
    <3>1. workers' = [workers EXCEPT ![w] = t]
      <4>1. ~ (me.step < 4)
        BY <2>2
      <4>2. workers' = [workers EXCEPT ![w].at = "node", ![w].i = me.i + 1, ![w].tries = 0,
                                       ![w].out = Append(me.out, o)]
        BY <1>2, <4>1
      <4>. HIDE DEF o
      <4>. QED BY <1>3, <4>2
    <3>2. o \in Outcome /\ o.node = n
      BY <1>6 DEF Outcome
    <3>3. t \in Thread /\ t.at = "node" /\ t.i = me.i + 1 /\ t.out = Append(me.out, o)
          /\ t.tries = 0
      <4>1. Append(me.out, o) \in Seq(Outcome) /\ me.i + 1 \in Nat \ {0} /\ 0 \in 0 .. MaxTries - 1
        BY <1>4, <3>2, TeamAssumption
      <4>. QED BY <1>1, <4>1 DEF Thread
    <3>. HIDE DEF t
    <3>4. t.out = [j \in 1 .. t.i - 1 |-> [node |-> c[j], ok |-> c[j] \in Known]]
      <4>1. me.out = [j \in 1 .. me.i - 1 |-> [node |-> c[j], ok |-> c[j] \in Known]]
        BY <1>1 DEF Recorded
      <4>2. o = [node |-> c[me.i], ok |-> c[me.i] \in Known]
        <5>1. (c[me.i] \in Known) = TRUE
          BY <1>6, <1>14
        <5>. QED BY <1>14, <5>1
      <4>. QED BY <1>4, <3>2, <3>3, <4>1, <4>2, Answers
    <3>5. ASSUME NEW j \in DOMAIN c
          PROVE  /\ rows'[c[j]][4] = IF j < t.i /\ c[j] \in Known THEN 1 ELSE 0
                 /\ j >= t.i => rows'[c[j]][1] = 0
      <4>1. CASE j = me.i
        BY <1>1, <1>4, <1>6, <1>7, <1>11, <1>14, <2>2, <3>3, <4>1
      <4>2. CASE j # me.i
        <5>1. rows'[c[j]] = rows[c[j]]
          BY <1>11, <1>12, <1>13, <4>2
        <5>2. (j < t.i <=> j < me.i) /\ (j >= t.i <=> j > me.i)
          BY <1>1, <1>4, <3>3, <4>2
        <5>. QED BY <1>1, <5>1, <5>2 DEF Recorded
      <4>. QED BY <4>1, <4>2
    <3>6. t.i <= Len(c) + 1
      BY <1>1, <1>4, <1>6, <3>3
    <3>7. Recorded(t, c, rows')
      <4>1. ASSUME NEW j \in DOMAIN c
            PROVE  j > t.i \/ (j = t.i /\ t.at \in {"open", "node"}) => rows'[c[j]][1] = 0
        BY <1>1, <1>4, <3>3, <3>5
      <4>2. t.at \notin {"commit", "done"}
        BY <3>3
      <4>. QED BY <3>3, <3>4, <3>5, <3>6, <4>1, <4>2 DEF Recorded
    <3>. QED BY <1>15, <3>1, <3>3, <3>7
  <2>3. me.step < 4 \/ me.step = 4
    BY <1>4 DEF Step
  <2>. QED BY <2>1, <2>2, <2>3
<1>16. \A m \in ToSet(Batch) : (\A j \in DOMAIN chunks[w] : m # chunks[w][j]) => rows'[m] = rows[m]
  BY <1>6, <1>11, <1>14 DEF c
<1>17. Recorded(t, chunks[w], rows')
  BY <1>15 DEF c
<1>. QED BY <1>1, <1>2, <1>9, <1>10, <1>15, <1>16, <1>17, ThreadKeeps

LEMMA LockedHolds ==
  ASSUME BatchInv, NEW w \in DOMAIN workers, Locked(w)
  PROVE  BatchInv'
<1>. DEFINE me == workers[w]
            c == chunks[w]
            t == IF me.tries + 1 = MaxTries THEN [me EXCEPT !.at = "failed"]
                 ELSE [me EXCEPT !.step = 1, !.tries = me.tries + 1]
<1>1. /\ w \in DOMAIN chunks /\ me \in Thread /\ Recorded(me, c, rows)
      /\ Len(c) \in Nat /\ DOMAIN c = 1 .. Len(c) /\ c \in Seq(ToSet(Batch))
  BY ThreadRead
<1>2. /\ me.at = "commit" /\ rows' = rows /\ UNCHANGED <<chunks, result>>
      /\ workers' = IF me.tries + 1 = MaxTries THEN [workers EXCEPT ![w].at = "failed"]
                    ELSE [workers EXCEPT ![w].step = 1, ![w].tries = me.tries + 1]
  BY DEF Locked
<1>3. workers' = [workers EXCEPT ![w] = t]
  BY <1>2
<1>4. /\ me.i \in Nat \ {0} /\ me.step \in Step /\ me.tries \in 0 .. MaxTries - 1
  BY <1>1 DEF Thread
<1>5. /\ rows \in [ToSet(Batch) -> [Step -> 0 .. MaxTries]]
      /\ \A m \in ToSet(Batch) : Ordered(rows[m]) /\ rows[m] \in [Step -> 0 .. MaxTries]
  BY DEF BatchInv, RowsInv
<1>. HIDE DEF me, c
<1>6. t \in Thread
  <2>1. 1 \in Step
    BY DEF Step
  <2>2. me.tries + 1 # MaxTries => me.tries + 1 \in 0 .. MaxTries - 1
    BY <1>4, TeamAssumption
  <2>. QED BY <1>1, <2>1, <2>2 DEF Thread
<1>7. /\ t.at \in {"commit", "failed"} /\ t.i = me.i /\ t.out = me.out
      /\ t.at = "commit" => t.step = 1 /\ t.tries = me.tries + 1
  BY <1>1, <1>2 DEF Thread
<1>. HIDE DEF t
<1>8. ASSUME NEW j \in DOMAIN c, j = me.i PROVE rows[c[j]][1] <= me.tries + 1
  <2>1. rows[c[j]][1] <= me.tries + (IF me.step = 1 THEN 0 ELSE 1)
    BY <1>1, <1>2, <1>8 DEF Recorded
  <2>2. rows[c[j]][1] \in 0 .. MaxTries
    <3>1. c[j] \in ToSet(Batch) /\ 1 \in Step
      BY <1>1 DEF Step
    <3>. QED BY <1>5, <3>1
  <2>. QED BY <1>4, <2>1, <2>2, TeamAssumption
<1>9. Recorded(t, c, rows)
  BY <1>1, <1>2, <1>4, <1>7, <1>8 DEF Recorded
<1>10. RowsInv' /\ \A n \in ToSet(Batch), s \in Step : rows[n][s] <= rows'[n][s]
  <2>1. \A n \in ToSet(Batch), s \in Step : rows[n][s] \in 0 .. MaxTries
    BY <1>5
  <2>. QED BY <1>2, <2>1, TeamAssumption DEF BatchInv, RowsInv
<1>11. Recorded(t, chunks[w], rows')
  BY <1>2, <1>9 DEF c
<1>. QED BY <1>1, <1>2, <1>3, <1>6, <1>10, <1>11, ThreadKeeps

\* Every thread done, its outcomes are those of its chunk, and the chunks, in
\* order, are the batch.
LEMMA OutcomesReport ==
  ASSUME BatchInv, \A w \in DOMAIN workers : workers[w].at = "done"
  PROVE  /\ Outcomes.out = [i \in 1 .. Len(Batch) |-> [node |-> Batch[i], ok |-> Batch[i] \in Known]]
         /\ Outcomes.out \in Seq(Outcome)
         /\ \A i \in 1 .. Len(Batch) : Batch[i] \in Known => \A s \in Step : rows[Batch[i]][s] > 0
<1>. DEFINE all == [i \in 1 .. Len(Batch) |-> [node |-> Batch[i], ok |-> Batch[i] \in Known]]
            seqs == [w \in DOMAIN workers |-> workers[w].out]
            M == Len(chunks)
<1>1. PICK cut : CutAt(cut)
  BY DEF BatchInv, Partitioned
<1>2. DOMAIN workers = 1 .. M /\ M \in Nat /\ DOMAIN chunks = 1 .. M
  BY DEF BatchInv, Partitioned
<1>3. Len(Batch) \in Nat \ {0} /\ \A i \in 1 .. Len(Batch) : Batch[i] \in ToSet(Batch)
  BY TeamAssumption DEF BatchInv, Partitioned
<1>4. all \in Seq(Outcome) /\ Len(all) = Len(Batch)
  <2>1. \A i \in 1 .. Len(Batch) : [node |-> Batch[i], ok |-> Batch[i] \in Known] \in Outcome
    BY <1>3 DEF Outcome
  <2>2. all \in [1 .. Len(Batch) -> Outcome]
    BY <2>1
  <2>. QED BY <1>3, <2>2
<1>5. /\ cut \in [0 .. M -> 0 .. Len(Batch)] /\ cut[0] = 0 /\ cut[M] = Len(Batch)
      /\ \A u, v \in 0 .. M : u <= v => cut[u] <= cut[v]
      /\ \A w \in 1 .. M : chunks[w] = [j \in 1 .. cut[w] - cut[w - 1] |-> Batch[cut[w - 1] + j]]
  BY <1>1, <1>2 DEF CutAt
<1>6. M # 0
  BY <1>3, <1>5
<1>. HIDE DEF M, all
<1>7. ASSUME NEW w \in 1 .. M
      PROVE  /\ cut[w - 1] \in 0 .. Len(Batch) /\ cut[w] \in 0 .. Len(Batch)
             /\ cut[w - 1] <= cut[w]
             /\ Len(chunks[w]) = cut[w] - cut[w - 1]
             /\ \A j \in 1 .. cut[w] - cut[w - 1] : cut[w - 1] + j \in 1 .. Len(Batch)
  <2>1. w - 1 \in 0 .. M /\ w \in 0 .. M /\ w - 1 <= w
    BY <1>2
  <2>2. /\ cut[w - 1] \in 0 .. Len(Batch) /\ cut[w] \in 0 .. Len(Batch)
        /\ cut[w - 1] <= cut[w]
    BY <1>5, <2>1
  <2>3. PICK p \in Nat, q \in Nat : p = cut[w - 1] /\ q = cut[w] /\ p <= q /\ q <= Len(Batch)
    BY <1>3, <2>2
  <2>4. q - p \in Nat /\ \A j \in 1 .. q - p : p + j \in 1 .. Len(Batch)
    <3>1. PICK l \in Nat : l = Len(Batch)
      BY <1>3
    <3>2. p \in Nat /\ q \in Nat /\ p <= q /\ q <= l
      BY <2>3, <3>1
    <3>3. \A j \in 1 .. q - p : p + j \in 1 .. l
      BY ONLY <3>2, l \in Nat
    <3>. QED BY <3>1, <3>2, <3>3
  <2>5. chunks[w] \in Seq(ToSet(Batch))
    BY <1>2 DEF BatchInv, Partitioned
  <2>6. DOMAIN chunks[w] = 1 .. q - p
    BY <1>5, <2>3
  <2>7. Len(chunks[w]) = q - p
    BY <2>4, <2>5, <2>6
  <2>. QED BY <2>2, <2>3, <2>4, <2>7
<1>8. ASSUME NEW w \in 1 .. M
      PROVE  seqs[w] = [j \in 1 .. cut[w] - cut[w - 1] |-> all[cut[w - 1] + j]]
  <2>1. workers[w].at = "done" /\ Recorded(workers[w], chunks[w], rows)
    BY <1>2 DEF BatchInv
  <2>2. workers[w].i - 1 = Len(chunks[w])
    <3>1. Len(chunks[w]) \in Nat /\ workers[w].i = Len(chunks[w]) + 1
      BY <1>7, <2>1 DEF Recorded
    <3>. QED BY <3>1
  <2>3. workers[w].out = [j \in 1 .. Len(chunks[w]) |->
                            [node |-> chunks[w][j], ok |-> chunks[w][j] \in Known]]
    BY <2>1, <2>2 DEF Recorded
  <2>4. ASSUME NEW j \in 1 .. cut[w] - cut[w - 1]
        PROVE  [node |-> chunks[w][j], ok |-> chunks[w][j] \in Known] = all[cut[w - 1] + j]
    <3>1. chunks[w][j] = Batch[cut[w - 1] + j] /\ cut[w - 1] + j \in 1 .. Len(Batch)
      BY <1>5, <1>7
    <3>. QED BY <3>1 DEF all
  <2>. QED BY <1>2, <1>7, <2>3, <2>4
<1>9. /\ seqs \in Seq(Seq(Outcome)) /\ Len(seqs) = M
      /\ \A w \in 1 .. M : Len(seqs[w]) = cut[w] - cut[w - 1]
      /\ \A w \in 1 .. M : \A j \in 1 .. cut[w] - cut[w - 1] : seqs[w][j] = all[cut[w - 1] + j]
  <2>1. ASSUME NEW w \in 1 .. M PROVE seqs[w] \in Seq(Outcome)
    <3>1. workers[w] \in Thread
      BY <1>2 DEF BatchInv
    <3>. QED BY <1>2, <3>1 DEF Thread
  <2>2. seqs \in [1 .. M -> Seq(Outcome)]
    BY <1>2, <2>1
  <2>3. ASSUME NEW w \in 1 .. M PROVE Len(seqs[w]) = cut[w] - cut[w - 1]
    <3>1. DOMAIN seqs[w] = 1 .. cut[w] - cut[w - 1]
      BY <1>8
    <3>2. cut[w] - cut[w - 1] \in Nat
      BY <1>3, <1>7
    <3>. HIDE DEF seqs
    <3>. QED BY <2>1, <3>1, <3>2
  <2>4. ASSUME NEW w \in 1 .. M, NEW j \in 1 .. cut[w] - cut[w - 1]
        PROVE  seqs[w][j] = all[cut[w - 1] + j]
    <3>1. seqs[w] = [l \in 1 .. cut[w] - cut[w - 1] |-> all[cut[w - 1] + l]]
      BY <1>8
    <3>. HIDE DEF seqs
    <3>. QED BY <3>1
  <2>. HIDE DEF seqs
  <2>5. seqs \in Seq(Seq(Outcome)) /\ Len(seqs) = M
    BY <1>2, <2>2
  <2>. QED BY <2>3, <2>4, <2>5
<1>10. Outcomes.out = FlattenSeq(seqs)
  BY DEF Outcomes
<1>. HIDE DEF seqs
<1>11. FlattenSeq(seqs) = all
  <2>1. /\ cut \in [0 .. M -> 0 .. Len(all)] /\ cut[0] = 0 /\ cut[M] = Len(all)
        /\ \A u, v \in 0 .. M : u <= v => cut[u] <= cut[v]
    BY <1>4, <1>5
  <2>2. M \in Nat \ {0} /\ all \in Seq(Outcome)
    BY <1>2, <1>4, <1>6
  <2>3. M \in Nat \ {0}
    BY <2>2
  <2>4. all \in Seq(Outcome)
    BY <2>2
  <2>5. \A u, v \in 0 .. M : u <= v => cut[u] <= cut[v]
    BY <2>1
  <2>6. Pieces(Outcome, all, M, cut, seqs)
    BY <1>9, <2>1, <2>3, <2>4, <2>5 DEF Pieces
  <2>. QED BY <2>6, Flattened
<1>12. ASSUME NEW i \in 1 .. Len(Batch), Batch[i] \in Known, NEW s \in Step
       PROVE  rows[Batch[i]][s] > 0
  <2>1. PICK w \in DOMAIN chunks : cut[w - 1] < i /\ i <= cut[w]
    <3>1. i \in DOMAIN Batch
      BY <1>3, TeamAssumption
    <3>. QED BY <1>1, <3>1, ChunksCover DEF BatchInv
  <2>2. w \in 1 .. M
    BY <1>2
  <2>. DEFINE j == i - cut[w - 1]
  <2>3. j \in 1 .. cut[w] - cut[w - 1] /\ cut[w - 1] + j = i
    <3>1. cut[w - 1] \in 0 .. Len(Batch) /\ cut[w] \in 0 .. Len(Batch)
      BY <1>7, <2>2
    <3>. QED BY <1>3, <2>1, <3>1
  <2>. HIDE DEF j
  <2>4. chunks[w][j] = Batch[i] /\ j \in DOMAIN chunks[w]
    BY <1>5, <2>2, <2>3
  <2>5. workers[w].at = "done" /\ Recorded(workers[w], chunks[w], rows)
    BY <1>2, <2>2 DEF BatchInv
  <2>6. j < workers[w].i
    <3>1. Len(chunks[w]) = cut[w] - cut[w - 1] /\ cut[w] - cut[w - 1] \in Nat
      <4>1. cut[w - 1] \in 0 .. Len(Batch) /\ cut[w] \in 0 .. Len(Batch) /\ cut[w - 1] <= cut[w]
        BY <1>7, <2>2
      <4>. QED BY <1>3, <1>7, <2>2, <4>1
    <3>2. workers[w].i = Len(chunks[w]) + 1
      BY <2>5 DEF Recorded
    <3>. QED BY <2>3, <3>1, <3>2
  <2>7. rows[Batch[i]][4] = 1
    BY <1>12, <2>4, <2>5, <2>6 DEF Recorded
  <2>8. Ordered(rows[Batch[i]]) /\ rows[Batch[i]] \in [Step -> 0 .. MaxTries]
    BY <1>3 DEF BatchInv, RowsInv
  <2>. QED BY <2>7, <2>8, TeamAssumption DEF Ordered, Step
<1>. QED BY <1>4, <1>10, <1>11, <1>12 DEF all

LEMMA ReturnHolds ==
  ASSUME BatchInv, ReturnBatch
  PROVE  BatchInv'
<1>1. UNCHANGED <<workers, chunks, rows>> /\ BatchInv /\ \A w \in DOMAIN workers : Ended(w)
  BY DEF ReturnBatch
<1>2. ResultInv'
  <2>1. CASE \E w \in DOMAIN workers : workers[w].at = "failed"
    <3>1. result' = [is |-> "error", out |-> <<>>]
      BY <2>1 DEF ReturnBatch
    <3>2. <<>> \in Seq(Outcome)
      OBVIOUS
    <3>. QED BY <3>1, <3>2 DEF ResultInv
  <2>2. CASE ~ \E w \in DOMAIN workers : workers[w].at = "failed"
    <3>1. result' = Outcomes
      BY <2>2 DEF ReturnBatch
    <3>2. \A w \in DOMAIN workers : workers[w].at = "done"
      BY <1>1, <2>2 DEF Ended
    <3>. DEFINE all == [i \in 1 .. Len(Batch) |-> [node |-> Batch[i], ok |-> Batch[i] \in Known]]
    <3>3. /\ Outcomes.out = all /\ Outcomes.out \in Seq(Outcome)
          /\ \A i \in 1 .. Len(Batch) : Batch[i] \in Known => \A s \in Step : rows[Batch[i]][s] > 0
      BY <3>2, OutcomesReport
    <3>4. result'.is = "ok" /\ result'.out = all
          /\ result' \in [is : {"running", "error", "ok"}, out : Seq(Outcome)]
      BY <3>1, <3>3 DEF Outcomes
    <3>5. DOMAIN all = 1 .. Len(Batch)
          /\ \A i \in 1 .. Len(Batch) : all[i].node = Batch[i] /\ all[i].ok = (Batch[i] \in Known)
      OBVIOUS
    <3>6. [i \in DOMAIN all |-> all[i].node] = Batch
      <4>1. Batch \in [1 .. Len(Batch) -> ToSet(Batch)]
        BY TeamAssumption
      <4>. QED BY <3>5, <4>1
    <3>. HIDE DEF all
    <3>7. [i \in DOMAIN result'.out |-> result'.out[i].node] = Batch
      BY <3>4, <3>6
    <3>8. ASSUME NEW i \in DOMAIN result'.out
          PROVE  LET a == result'.out[i]
                 IN  (a.ok <=> a.node \in Known) /\ (a.ok => \A s \in Step : rows'[a.node][s] > 0)
      <4>1. i \in 1 .. Len(Batch) /\ result'.out[i] = all[i]
        BY <3>4, <3>5
      <4>2. result'.out[i].node = Batch[i] /\ result'.out[i].ok = (Batch[i] \in Known)
        BY <3>5, <4>1
      <4>. QED BY <1>1, <3>3, <4>1, <4>2
    <3>9. Reported'
      BY <3>7, <3>8 DEF Reported
    <3>. QED BY <3>4, <3>9 DEF ResultInv
  <2>. QED BY <2>1, <2>2
<1>3. Partitioned'
  <2>1. (\E c : CutAt(c)) <=> (\E c : CutAt(c))'
    BY <1>1 DEF CutAt
  <2>. QED BY <1>1, <2>1 DEF BatchInv, Partitioned
<1>4. RowsInv'
  BY <1>1 DEF BatchInv, RowsInv
<1>5. \A w \in DOMAIN chunks' : Recorded(workers'[w], chunks'[w], rows')
  BY <1>1 DEF BatchInv
<1>6. workers' \in Seq(Thread) /\ Len(workers') = Len(chunks')
  BY <1>1 DEF BatchInv
<1>. QED BY <1>2, <1>3, <1>4, <1>5, <1>6 DEF BatchInv

LEMMA BatchInitHolds ==
  ASSUME BatchInit
  PROVE  BatchInv
<1>1. Partitioned
  BY ChunksPartition DEF BatchInit
<1>2. /\ chunks \in Seq(Seq(ToSet(Batch)))
      /\ workers = [w \in DOMAIN chunks |-> [at |-> "open", i |-> 1, step |-> 1, tries |-> 0, out |-> <<>>]]
      /\ rows = [n \in ToSet(Batch) |-> [s \in Step |-> 0]]
      /\ result = [is |-> "running", out |-> <<>>]
  BY <1>1 DEF BatchInit, Partitioned
<1>3. [at |-> "open", i |-> 1, step |-> 1, tries |-> 0, out |-> <<>>] \in Thread
  BY TeamAssumption DEF Thread, Step
<1>4. Len(chunks) \in Nat /\ DOMAIN chunks = 1 .. Len(chunks)
  BY <1>2
<1>5. workers \in Seq(Thread) /\ Len(workers) = Len(chunks)
  <2>1. workers \in [1 .. Len(chunks) -> Thread]
    BY <1>2, <1>3, <1>4
  <2>. QED BY <1>4, <2>1
<1>6. RowsInv
  <2>1. ASSUME NEW n \in ToSet(Batch) PROVE Ordered(rows[n]) /\ rows[n] \in [Step -> 0 .. MaxTries]
    BY <1>2, TeamAssumption DEF Ordered, Step
  <2>. QED BY <1>2, <2>1 DEF RowsInv
<1>7. ResultInv
  BY <1>2 DEF ResultInv
<1>8. ASSUME NEW w \in DOMAIN chunks PROVE Recorded(workers[w], chunks[w], rows)
  <2>. DEFINE t == [at |-> "open", i |-> 1, step |-> 1, tries |-> 0, out |-> <<>>]
              c == chunks[w]
  <2>1. workers[w] = t /\ c \in Seq(ToSet(Batch))
    BY <1>2
  <2>2. Len(c) \in Nat /\ DOMAIN c = 1 .. Len(c)
    BY <2>1
  <2>3. \A j \in DOMAIN c : rows[c[j]][4] = 0 /\ rows[c[j]][1] = 0
    BY <1>2, <2>1 DEF Step
  <2>4. <<>> = [j \in 1 .. 1 - 1 |-> [node |-> c[j], ok |-> c[j] \in Known]]
    OBVIOUS
  <2>. HIDE DEF c
  <2>5. Recorded(t, c, rows)
    BY <2>2, <2>3, <2>4 DEF Recorded
  <2>. QED BY <2>1, <2>5 DEF c
<1>. QED BY <1>1, <1>5, <1>6, <1>7, <1>8 DEF BatchInv

LEMMA BatchNextHolds ==
  ASSUME BatchInv, [BatchNext]_batchVars
  PROVE  BatchInv'
<1>1. CASE ReturnBatch
  BY <1>1, ReturnHolds
<1>2. ASSUME NEW w \in DOMAIN workers, OpenStore(w) PROVE BatchInv'
  BY <1>2, OpenHolds
<1>3. ASSUME NEW w \in DOMAIN workers, Take(w) PROVE BatchInv'
  BY <1>3, TakeHolds
<1>4. ASSUME NEW w \in DOMAIN workers, Commit(w) PROVE BatchInv'
  BY <1>4, CommitHolds
<1>5. ASSUME NEW w \in DOMAIN workers, Locked(w) PROVE BatchInv'
  BY <1>5, LockedHolds
<1>6. CASE UNCHANGED batchVars
  <2>1. UNCHANGED <<workers, chunks, rows, result>>
    BY <1>6 DEF batchVars
  <2>2. Partitioned'
    <3>1. (\E c : CutAt(c)) <=> (\E c : CutAt(c))'
      BY <2>1 DEF CutAt
    <3>. QED BY <2>1, <3>1 DEF BatchInv, Partitioned
  <2>3. RowsInv' /\ ResultInv'
    BY <2>1 DEF BatchInv, RowsInv, ResultInv, Reported
  <2>. QED BY <2>1, <2>2, <2>3 DEF BatchInv
<1>. QED BY <1>1, <1>2, <1>3, <1>4, <1>5, <1>6 DEF BatchNext, Worker

\* The invariant of a batch holds in every reachable state.
LEMMA BatchInvAlways == BatchSpec => []BatchInv
<1>1. BatchInit => BatchInv
  BY BatchInitHolds
<1>2. BatchInv /\ [BatchNext]_batchVars => BatchInv'
  BY BatchNextHolds
<1>. QED BY <1>1, <1>2, PTL DEF BatchSpec

\* For every batch, project, number of workers and number of tries, and however
\* the threads and the locks of process_batch interleave: a dispatch is on record
\* (attempt, event, evidence, event) in the order of its commits, never complete
\* twice, and what process_batch returns has one outcome per obligation, in the
\* order of the batch, ok exactly for the ones the project has, all rows written.
THEOREM DispatchesAlwaysRecorded == BatchSpec => [](TeamTypeOK /\ DispatchesAreRecorded)
<1>1. ASSUME BatchInv PROVE TeamTypeOK
  <2>1. ASSUME NEW w \in DOMAIN workers
        PROVE  /\ workers[w] \in [at : {"open", "node", "commit", "done", "failed"},
                                  i : 1 .. Len(chunks[w]) + 1, step : Step,
                                  tries : 0 .. MaxTries - 1, out : Seq(Outcome)]
               /\ workers[w].at = "commit" => workers[w].i \in DOMAIN chunks[w]
    <3>1. /\ workers[w] \in Thread /\ Recorded(workers[w], chunks[w], rows)
          /\ Len(chunks[w]) \in Nat /\ DOMAIN chunks[w] = 1 .. Len(chunks[w])
      BY <1>1, ThreadRead
    <3>2. workers[w].i \in 1 .. Len(chunks[w]) + 1
      BY <3>1 DEF Thread, Recorded
    <3>3. workers[w].at = "commit" => workers[w].i \in DOMAIN chunks[w]
      BY <3>1, <3>2 DEF Recorded
    <3>. QED BY <3>1, <3>2, <3>3 DEF Thread
  <2>. QED BY <1>1, <2>1 DEF TeamTypeOK, BatchInv, Partitioned, RowsInv, ResultInv
<1>2. ASSUME BatchInv PROVE DispatchesAreRecorded
  <2>1. ASSUME NEW n \in ToSet(Batch)
        PROVE  (\A s \in Step \ {1} : rows[n][s] <= rows[n][s - 1]) /\ rows[n][4] <= 1
    <3>1. Ordered(rows[n])
      BY <1>2 DEF BatchInv, RowsInv
    <3>2. ASSUME NEW s \in Step \ {1} PROVE rows[n][s] <= rows[n][s - 1]
      <4>1. s = 2 \/ s = 3 \/ s = 4
        BY DEF Step
      <4>2. 2 - 1 = 1 /\ 3 - 1 = 2 /\ 4 - 1 = 3
        OBVIOUS
      <4>. QED BY <3>1, <4>1, <4>2 DEF Ordered
    <3>3. rows[n][4] <= 1
      <4>1. PICK i \in DOMAIN Batch : n = Batch[i]
        BY DEF ToSet
      <4>2. PICK cut : CutAt(cut)
        BY <1>2 DEF BatchInv, Partitioned
      <4>3. PICK w \in DOMAIN chunks : cut[w - 1] < i /\ i <= cut[w]
        BY <1>2, <4>2, ChunksCover DEF BatchInv
      <4>4. PICK j \in DOMAIN chunks[w] : chunks[w][j] = n
        <5>1. cut[w - 1] \in 0 .. Len(Batch) /\ cut[w] \in 0 .. Len(Batch) /\ Len(Batch) \in Nat
              /\ i \in 1 .. Len(Batch)
          <6>1. w - 1 \in 0 .. Len(chunks) /\ w \in 0 .. Len(chunks)
            BY <1>2 DEF BatchInv, Partitioned
          <6>. QED BY <4>2, <6>1, TeamAssumption DEF CutAt
        <5>2. i - cut[w - 1] \in 1 .. cut[w] - cut[w - 1] /\ cut[w - 1] + (i - cut[w - 1]) = i
          BY <4>3, <5>1
        <5>3. chunks[w] = [j \in 1 .. cut[w] - cut[w - 1] |-> Batch[cut[w - 1] + j]]
          BY <4>2 DEF CutAt
        <5>. QED BY <4>1, <5>2, <5>3
      <4>5. rows[n][4] \in {0, 1}
        BY <1>2, <4>4 DEF BatchInv, Recorded
      <4>. QED BY <4>5
    <3>. QED BY <3>2, <3>3
  <2>2. result.is = "ok" => Reported
    BY <1>2 DEF BatchInv, ResultInv
  <2>. QED BY <2>1, <2>2 DEF DispatchesAreRecorded, Reported
<1>. QED BY <1>1, <1>2, BatchInvAlways, PTL
=============================================================================
