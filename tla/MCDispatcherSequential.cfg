CONSTANTS
  d1 = d1
  d2 = d2
  d3 = d3
  d4 = d4
  s1 = s1
  w = w
  Root = Root
  Request <- MCRequest
  Session <- MCSession
  SessionOf <- MCSessionOf
  Parallel <- MCParallel
  WardOf <- MCWardOf
  Parent <- MCParent
  Permits = 2
SPECIFICATION Spec
INVARIANTS
  OneRunsAtATime
CHECK_DEADLOCK FALSE
