------------------------------ MODULE MCProvers ------------------------------
(***************************************************************************)
(* The ways the program leaves a question to a program outside it, side by *)
(* side: the warm Lean session (WarmLean), one process per call (ToolCall) *)
(* and the jobs of an external prover (ProofJobs).  A behaviour is of one  *)
(* of them; the others have nothing to do.                                 *)
(***************************************************************************)
EXTENDS WarmLean, ToolCall, ProofJobs

CONSTANTS
  p1, p2,                      \* processes on the job table
  proof, hidden, sorry, junk   \* sources: a proof; one with a gap, in a namespace;
                               \* one with a gap; one that does not compile

----------------------------------------------------------------------------
\* One attempt is enough: the calls on different attempts touch different
\* rows.  Two processes share it, or one has it to itself.
MCProc == {p1, p2}
AllOperations == {"start", "poll", "cancel_job", "cancel", "run"}
Alone == [procs : {{p1}}, faults : {{}, {"crash"}}]
Together == [procs : {MCProc}, faults : {{"crash", "busy"}}]
Nobody == [procs |-> {}, faults |-> {}]
MCSettings == Alone \cup Together \cup {Nobody}
----------------------------------------------------------------------------
NoRequest ==
  /\ mode = "repl"
  /\ calls = MaxCalls
  /\ client = [session |-> "gone", asks |-> None]
  /\ serve = [at |-> "idle", ok |-> FALSE]
  /\ object = [proc |-> 0, warmed |-> FALSE, torn |-> FALSE]
  /\ procs = <<>> /\ queue = <<>> /\ verdict = None
NoTool ==
  /\ kind = "exec" /\ at = "done" /\ late = FALSE
  /\ toSend = 0 /\ stdin = 0 /\ stdout = 0 /\ wrote = 0
  /\ child = "none" /\ heir = "none"
  /\ reader = [kept |-> 0, cut |-> FALSE, done |-> FALSE, on |-> FALSE]
  /\ result = NoResult
NoJobs == Init /\ setting = Nobody

ProversInit ==
  \/ WarmInit /\ NoTool /\ NoJobs
  \/ ToolInit /\ NoRequest /\ NoJobs
  \/ Init /\ setting # Nobody /\ NoRequest /\ NoTool

ProversNext ==
  \/ WarmNext /\ UNCHANGED <<toolVars, vars>>
  \/ ToolNext /\ UNCHANGED <<warmVars, vars>>
  \/ Next /\ UNCHANGED <<warmVars, toolVars>>

ProversSpec ==
  /\ ProversInit /\ [][ProversNext]_<<warmVars, toolVars, vars>>
  /\ WarmFairness /\ ToolFairness /\ JobsFairness
=============================================================================
