SPECIFICATION Spec
CONSTANTS
  i1 = i1
  s1 = s1
  s2 = s2
  None = None
  Item <- MCItem
  Session <- MCSession
  RetryLimit = 2
  MaxCopies = 2
  MaxCrashes = 1
INVARIANTS RegistryOwner InflightWatched
PROPERTIES SettledForGood Delivered
CHECK_DEADLOCK FALSE
