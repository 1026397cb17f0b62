-------------------------- MODULE CertifiedClaims --------------------------
(***************************************************************************)
(* What one run of the autonomous agent (reason/orchestration/agent.rs)    *)
(* owes the claims of a project, whatever happens on the way there.  A     *)
(* claim is certified only while the source stored with it is a proof, and *)
(* that source is then never replaced.  The run takes a certificate back   *)
(* in one way: the battery of tests that follows it finds the proof        *)
(* wanting (harden_proof).  What was withdrawn stays so, and the run ends  *)
(* by saying truly whether anything is certified.                          *)
(*                                                                         *)
(* In a contested project other sessions may reject a claim or propose it  *)
(* again at any time.                                                      *)
(***************************************************************************)
CONSTANTS
  Claim,    \* the claims there may ever be
  Source,   \* what may be stored as formal statement of a claim
  Proof     \* the sources that prove it

VARIABLES
  contested,   \* other sessions decide too; never changes
  life,        \* what has become of each claim
  source,      \* the source stored with each
  trial,       \* the claim whose fresh certificate is being tested, if any
  report       \* what the run has said of itself: nothing, or its final state

claimVars == <<contested, life, source, trial, report>>

ClaimsInit ==
  /\ contested \in BOOLEAN
  /\ life \in [Claim -> {"absent", "open"}]
  /\ source \in [Claim -> Source]
  /\ trial = {} /\ report = {}

\* Decomposition adds a claim.
Pose(c) ==
  /\ life[c] = "absent"
  /\ life' = [life EXCEPT ![c] = "open"]
  /\ UNCHANGED <<contested, source, trial, report>>

Rewrite(c) ==
  /\ life[c] # "certified"
  /\ \E s \in Source : source' = [source EXCEPT ![c] = s]
  /\ UNCHANGED <<contested, life, trial, report>>

Certify(c) ==
  /\ life[c] = "open" \/ (contested /\ life[c] = "withdrawn")
  /\ source[c] \in Proof /\ trial = {}
  /\ life' = [life EXCEPT ![c] = "certified"]
  /\ trial' \in {{}, {c}}
  /\ UNCHANGED <<contested, source, report>>

\* An open claim is refuted, or handed to a human; a fresh certificate fails.
Withdraw(c) ==
  /\ life[c] = "open" \/ c \in trial
  /\ life' = [life EXCEPT ![c] = "withdrawn"]
  /\ trial' = trial \ {c}
  /\ UNCHANGED <<contested, source, report>>

\* The certificate stands: the tests found nothing, or never got to an end.
Uphold ==
  /\ trial # {} /\ trial' = {}
  /\ UNCHANGED <<contested, life, source, report>>

\* The run ends, with no test pending.
Report ==
  /\ trial = {}
  /\ \E final \in {"made_progress", "no_certificate"} :
       /\ report' = {final}
       /\ ~ contested =>
            (final = "made_progress" <=> \E c \in Claim : life[c] = "certified")
  /\ UNCHANGED <<contested, life, source, trial>>

Overrule(c) ==
  /\ contested /\ life[c] # "absent"
  /\ \E other \in {"open", "withdrawn"} : life' = [life EXCEPT ![c] = other]
  /\ UNCHANGED <<contested, source, trial, report>>

ClaimsNext ==
  \/ /\ report = {}
     /\ \/ \E c \in Claim : Pose(c) \/ Rewrite(c) \/ Certify(c) \/ Withdraw(c)
        \/ Uphold \/ Report
  \/ \E c \in Claim : Overrule(c)

ClaimsSpec == ClaimsInit /\ [][ClaimsNext]_claimVars
=============================================================================
