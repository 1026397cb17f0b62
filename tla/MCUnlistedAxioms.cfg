SPECIFICATION WarmSpec
CONSTANTS
  None = None
  Source = {proof, hidden}
  Compiles = {proof, hidden}
  Allowed = {proof}
  Named = {proof}
  Mode = {"repl"}
  MaxCalls = 1
  MaxProcs = 2
INVARIANTS
  CleanAuditIsAllowed
\* The agent makes one request and then stops.
CHECK_DEADLOCK FALSE
