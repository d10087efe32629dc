\* A client build with an empty result, and a migration build that waits for it.
SPECIFICATION Spec
CONSTANTS
  b1 = b1
  b2 = b2
  n1 = n1
  n2 = n2
  c1 = c1
  NoBuild = NoBuild
  NoBuilder = NoBuilder
  NoHandler = NoHandler
  Build = {b1, b2}
  NodeBuilder = {n1}
  Client = {c1}
  Handler = {h1}
  ClientBuild = {b1}
  MigrationBuild = {b2}
  EmptyBuild = {b1}
  Depends <- MCChain
  Priority <- MCMixedPriority
  RetryCount = 0
  FaultLimit = 1
  Minio = TRUE
INVARIANTS
  IInv
  DependenciesFinishFirst
CHECK_DEADLOCK FALSE
