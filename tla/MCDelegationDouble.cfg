CONSTANTS
  c1 = c1
  c2 = c2
  Root = Root
  Watcher = Watcher
  User = User
  Child <- MCChild
  Planner = {}
  MaxTurns = 2
  PerTurn = 2
  Trouble = {}
SPECIFICATION Spec
INVARIANTS
  OneLastDelegation
CHECK_DEADLOCK FALSE
