SPECIFICATION Spec
CONSTANTS
  e1 = e1
  e2 = e2
  ask1 = ask1
  ask2 = ask2
  file = file
  w1 = w1
  w2 = w2
  None = None
  Episode <- MCEpisode
  Request <- MCAlone
  Recorder <- MCNoRecorder
  Parts <- MCAloneParts
  Worker <- MCWorker
  MaxDepth = 1
  Capacity = 1
  MaxRestarts = 0
PROPERTY SignalledWorkIsFetched
CHECK_DEADLOCK FALSE
