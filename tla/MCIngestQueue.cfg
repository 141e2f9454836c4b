SPECIFICATION Spec
CONSTANTS
  e1 = e1
  e2 = e2
  ask1 = ask1
  ask2 = ask2
  file = file
  w1 = w1
  w2 = w2
  None = None
  Episode <- MCEpisode
  Request <- MCRequest
  Recorder <- MCRecorder
  Parts <- MCParts
  Worker <- MCWorker
  MaxDepth = 1
  Capacity = 1
  MaxRestarts = 1
INVARIANT RunningIsWorked
PROPERTY WorkIsFetched
CHECK_DEADLOCK FALSE
