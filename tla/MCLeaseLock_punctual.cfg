\* One instance uses the lock again, and nothing is late.
SPECIFICATION Spec
CONSTANTS
  a = a
  b = b
  r1 = r1
  r2 = r2
  r3 = r3
  NoInstance = NoInstance
  NoRun = NoRun
  Instance = {a, b}
  Run = {r1, r2, r3}
  Home <- MCTwoAndOne
  Skew <- MCSkew
  Lease = 3
  Interval = 1
  Margin = 1
  Shared = FALSE
  AlwaysReleases = FALSE
  Punctual = TRUE
  MaxTime = 6
CONSTRAINT InOrder
VIEW Remembered
INVARIANTS
  JobHoldsLock
CHECK_DEADLOCK FALSE
