SPECIFICATION FairSpec
CONSTANTS
  c = c
  o = o
  l = l
  s1 = s1
  s2 = s2
  Node <- MCNode
  KindOf <- MCKindOf
  Title <- MCTitle
  Agent <- MCAgent
  MaxAttempts = 3
  K = 2
  Harden = TRUE
  MaxVerdicts = 2
  Setting <- MCSettings
INVARIANTS
  CountMatchesGraph
PROPERTIES
  AgentKeepsClaims
  PlanLeavesRefutedBranch
  RunEnds
CHECK_DEADLOCK FALSE
