\* One build, two node builders, repeated and lost posts, crashes; cleanup runs and
\* a cancelled migration race with the build, and BuildLifecycle is implemented.
SPECIFICATION Spec
CONSTANTS
  b1 = b1
  b2 = b2
  n1 = n1
  n2 = n2
  c1 = c1
  NoBuild = NoBuild
  NoBuilder = NoBuilder
  NoHandler = NoHandler
  Build = {b1}
  NodeBuilder = {n1, n2}
  Client = {}
  Handler = {h1, h2}
  ClientBuild = {}
  MigrationBuild = {b1}
  EmptyBuild = {}
  Depends <- MCAlone
  Priority <- MCEqualPriority
  RetryCount = 1
  FaultLimit = 1
  Minio = TRUE
SYMMETRY Symmetry
INVARIANTS
  PublishedOnceIffComplete
  UnfinishedBuildHasSources
PROPERTIES
  PublicationIsIsolated
  FinishedIsFinal
  RefinesLifecycle
CHECK_DEADLOCK FALSE
