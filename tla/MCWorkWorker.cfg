SPECIFICATION WorkerSpec
CONSTANTS
  a = a
  nokey = nokey
  main = main
  nobody = nobody
  Nobody = nobody
  w1 = w1
  w2 = w2
  Id <- MCId
  Draft <- MCDraft
  NoKey = nokey
  Leases <- MCLeases
  Lag = 0
  MaxTime = 4
  Worker <- MCWorker
  Target = main
  Concurrency = 1
  Lease = 4
  Beat = 1
  Patience = 4
  Poll = 1
  ClaimTime = 1
  Yield = 0
INVARIANTS WorkerTypeOK LeaseCoversHandler OneHandler NoOversleep
PROPERTY StoreSpec
SYMMETRY Workers
CHECK_DEADLOCK FALSE
