\* Every build finishes though builders, handlers and responses are lost.
SPECIFICATION FairSpec
CONSTANTS
  b1 = b1
  b2 = b2
  n1 = n1
  n2 = n2
  c1 = c1
  NoBuild = NoBuild
  NoBuilder = NoBuilder
  NoHandler = NoHandler
  Build = {b1}
  NodeBuilder = {n1, n2}
  Client = {}
  Handler = {h1}
  ClientBuild = {}
  MigrationBuild = {}
  EmptyBuild = {b1}
  Depends <- MCAlone
  Priority <- MCEqualPriority
  RetryCount = 0
  FaultLimit = 3
  Minio = FALSE
PROPERTIES
  EveryBuildFinishes
CHECK_DEADLOCK FALSE
