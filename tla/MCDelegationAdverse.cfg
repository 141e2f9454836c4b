CONSTANTS
  c1 = c1
  c2 = c2
  Root = Root
  Watcher = Watcher
  User = User
  Child <- MCChild
  Planner = {}
  MaxTurns = 2
  PerTurn = 2
  Trouble <- Crossed
SPECIFICATION Spec
INVARIANTS
  TypeOK
  PendingNeverOverstates
  CountedHasReported
CHECK_DEADLOCK FALSE
SYMMETRY Alike
