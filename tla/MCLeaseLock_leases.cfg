\* Anything may be late; the clocks are apart by the margin.
SPECIFICATION Spec
CONSTANTS
  a = a
  b = b
  r1 = r1
  r2 = r2
  r3 = r3
  NoInstance = NoInstance
  NoRun = NoRun
  Instance = {a, b}
  Run = {r1, r2, r3}
  Home <- MCTwoAndOne
  Skew <- MCSkew
  Lease = 3
  Interval = 1
  Margin = 1
  Shared = FALSE
  AlwaysReleases = TRUE
  Punctual = FALSE
  MaxTime = 4
CONSTRAINT InOrder
VIEW Remembered
INVARIANTS
  LeaseInvariant
  LeaseIsExclusive
CHECK_DEADLOCK FALSE
