SPECIFICATION SearchesSpec
CONSTANTS
  g = g
  h = h
  notg = notg
  noth = noth
  qed = qed
  None = None
  State = {g, h, notg, noth, qed}
  Root = g
  World <- GoalWorlds
  Limits <- GoalLimits
  root = root
  s1 = s1
  s2 = s2
  done = done
  a = a
  b = b
  Failed = Failed
  GoalState = {root, s1, s2, done}
  Tactic = {a, b}
  Key = {root, s1, s2, done}
  Target = root
  Tree <- Trees
  MaxSteps = {1, 4}
  Name <- Names
  Predicate <- Predicates
  Fresh <- MCFresh
  Atom <- CapturedLiterals
  Sequent <- CapturedSequents
  Problem <- CapturedProblems
  Config <- Configs
INVARIANT HitIsGenuine
CHECK_DEADLOCK FALSE
