CONSTANTS
  c1 = c1
  c2 = c2
  Root = Root
  Watcher = Watcher
  User = User
  Child <- MCChild
  Planner = {c2}
  MaxTurns = 3
  PerTurn = 1
  Trouble <- Calm
SPECIFICATION FairSpec
INVARIANTS
  PendingIsExact
  OneTurnAtATime
  CompletedMeansDone
  ContinuationSeesResults
  GateStaysClosed
PROPERTIES
  ContinuationFollows
CHECK_DEADLOCK FALSE
