SPECIFICATION Spec
CONSTANTS
  g1 = g1
  g2 = g2
  c1 = c1
  c2 = c2
  e1 = e1
  e2 = e2
  f1 = f1
  f2 = f2
  f3 = f3
  Goal = {g1, g2}
  Code = {c1, c2}
  Env = {e1, e2}
  Form = {f1, f2, f3}
  Unresolved = Unresolved
  MockLib = MockLib
  None = None
  Gate <- MCGate
  Pin <- MCPin
  Elab <- MCElab
  Projects <- MCProjects
  Workload <- MCWorkload
  N = 2
  Rounds = 1
  Samples = 1
  MaxFiled = 3
  Limit = 3
  MaxReelaborations = 1
PROPERTY GeneratedIsSwept
CHECK_DEADLOCK FALSE
