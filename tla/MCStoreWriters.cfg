SPECIFICATION WritersSpec
CONSTANTS
  a = a
  b = b
  n1 = n1
  n2 = n2
  s1 = s1
  s2 = s2
  c1 = c1
  c2 = c2
  t1 = t1
  t2 = t2
  t3 = t3
  Node <- MCNode
  Assumption = {}
  Kind <- MCKind
  Status <- MCStatus
  MaxLemmas = 1
  Base <- MCBase
  Proposal <- MCProposal
  Session = {s1, s2}
  Setting <- MCSettings
  Conn <- MCConn
  Batch <- MCBatch
  Known = {t1, t2}
  MaxWorkers = {0, 1, 2, 5}
  MaxTries = 3
SYMMETRY MCSymmetry
INVARIANTS
  DispatchesAreRecorded
  NoModelCertificate
  ApprovedWasApplied
  GraphMatchesVerdicts
PROPERTIES
  RecomputingHeals
\* The model stops when the call of the batch has returned.
CHECK_DEADLOCK FALSE
