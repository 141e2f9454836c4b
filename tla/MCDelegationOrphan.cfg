CONSTANTS
  c1 = c1
  c2 = c2
  Root = Root
  Watcher = Watcher
  User = User
  Child <- MCChild
  Planner = {}
  MaxTurns = 2
  PerTurn = 1
  Trouble = {"root_error"}
SPECIFICATION Spec
PROPERTIES
  OrphansAreStopped
CHECK_DEADLOCK FALSE
