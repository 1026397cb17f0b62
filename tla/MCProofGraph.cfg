SPECIFICATION Spec
CONSTANTS
  a = a
  b = b
  c = c
  Node <- MCNode
  Assumption <- MCAssumption
  Kind <- MCKind
  Status <- MCStatus
  MaxLemmas = 1
SYMMETRY MCSymmetry
INVARIANTS
  TypeOK
  Acyclic
  TaintSound
PROPERTIES
  ExactLostOnlyByRevival
  AdmittedIsSticky
  CleanLemmaHasCleanBasis
