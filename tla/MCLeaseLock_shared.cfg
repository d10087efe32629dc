\* Jobs of one instance share the lock.
SPECIFICATION Spec
CONSTANTS
  a = a
  b = b
  r1 = r1
  r2 = r2
  r3 = r3
  NoInstance = NoInstance
  NoRun = NoRun
  Instance = {a, b}
  Run = {r1, r2, r3}
  Home <- MCTwoAndOne
  Skew <- MCSkew
  Lease = 3
  Interval = 1
  Margin = 1
  Shared = TRUE
  AlwaysReleases = FALSE
  Punctual = FALSE
  MaxTime = 6
PROPERTIES
  ReleaseFreesOwnLock
CHECK_DEADLOCK FALSE
