\* Crashes, cancellations, failed statements and late keepalives.
SPECIFICATION MCFairSpec
CONSTANTS
  x1 = x1
  x2 = x2
  i1 = i1
  i2 = i2
  Item = {x1, x2}
  StageOf <- MCStageOf
  Comparison = {}
  Needs <- MCNeeds
  Instance = {i1, i2}
  Reliable = {i2}
  MaxMigrationRetries = 1
  FailureLimit = 1
INVARIANTS
  MigrationInvariant
  RebuiltOnce
  StagesDoNotOverlap
  SettledHasNoBuilds
  NothingIsForgotten
  NothingIsLeftBehind
PROPERTIES
  SettledStaysSettled
  EveryMigrationEnds
CHECK_DEADLOCK FALSE
