SPECIFICATION Spec
CONSTANTS
  Turn <- Turns
  MAX_ACTION_ROUNDS = 2
  MaxItems = 2
  MaxKeys = 2
  Faults <- AnyFaults
INVARIANTS
  OneWorkerInFlight
PROPERTIES
  InterruptIsHonoured
  TurnsEnd
\* The model stops when the user has left.
CHECK_DEADLOCK FALSE
