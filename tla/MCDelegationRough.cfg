CONSTANTS
  c1 = c1
  c2 = c2
  Root = Root
  Watcher = Watcher
  User = User
  Child <- MCChild
  Planner = {c2}
  MaxTurns = 3
  PerTurn = 1
  Trouble <- Rough
SPECIFICATION Spec
INVARIANTS
  OneTurnAtATime
  ContinuationSeesResults
  GateStaysClosed
CHECK_DEADLOCK FALSE
