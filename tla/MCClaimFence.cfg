CONSTANTS
  c1 = c1
  c2 = c2
  c3 = c3
  Claimer <- MCClaimer
SPECIFICATION FairSpec
INVARIANTS
  GuardsMatchThreads
PROPERTIES
  NoLeaseAfterSettle
  ShutdownSettles
  ClaimsReturn
