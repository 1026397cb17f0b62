SPECIFICATION FairSpec
CONSTANTS
  N = 3
  Outcome <- AnyOutcome
  Worker = {w1, w2, w3}
PROPERTIES
  SameAsSequential
  CallReturns
\* The model stops when the call has returned, and where a task hangs.
CHECK_DEADLOCK FALSE
