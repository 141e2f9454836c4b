CONSTANTS
  c1 = c1
  c2 = c2
  Root = Root
  Watcher = Watcher
  User = User
  Child <- MCChild
  Planner = {}
  MaxTurns = 2
  PerTurn = 1
  Trouble = {"message"}
SPECIFICATION FairSpec
PROPERTIES
  CompletedOnlyWhenDone
CHECK_DEADLOCK FALSE
