CONSTANTS
  a = a
  b = b
  c = c
  key = key
  main = main
  x = x
  y = y
  NoKey = NoKey
  Id <- MCId
  Draft <- MCDraft
  Leases <- MCLeases
  Lag = 1
  MaxTime = 4
SPECIFICATION Spec
INVARIANTS
  TypeOK
  RowConsistent
  LatestClaimHoldsLease
  PendingIsClaimable
  OneVerdictPerLease
PROPERTIES
  LeaseProtects
  Lifecycle
