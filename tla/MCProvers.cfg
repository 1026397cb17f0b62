SPECIFICATION ProversSpec
CONSTANTS
  None = None
  proof = proof
  hidden = hidden
  sorry = sorry
  junk = junk
  Source = {proof, hidden, sorry, junk}
  Compiles = {proof, hidden, sorry}
  Allowed = {proof}
  Named = {proof, sorry}
  Mode = {"repl", "lean"}
  MaxCalls = 2
  MaxProcs = 3
  Kind = {"exec", "worker", "lean"}
  PipeSize = 2
  MaxStored = 2
  MaxWrites = 5
  MaxInput = 3
  p1 = p1
  p2 = p2
  Attempt = {a1}
  Proc <- MCProc
  Operation <- AllOperations
  MaxPolls = 2
  Setting <- MCSettings
INVARIANTS
  VerdictsAreLeans
  SuccessIsOwnExit
  UnmarkedOutputIsAll
  ResultHasEvidence
  SettledRunHasSettledJob
PROPERTIES
  RequestsAnswered
  OnlyHeldUp
  AttemptNeverRestarts
  VerdictsAreFinal
  CommandsEnd
\* The agent makes so many requests and then stops; a call that returned is over.
CHECK_DEADLOCK FALSE
