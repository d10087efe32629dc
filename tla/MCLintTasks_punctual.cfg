\* No step takes 30 seconds; a replica crashes, two queries fail or documents are opened again.
SPECIFICATION FairSpec
CONSTANTS
  t1 = t1
  v1 = v1
  e1 = e1
  e2 = e2
  h1 = h1
  h2 = h2
  w1 = w1
  w2 = w2
  NoExecutor = NoExecutor
  NoTask = NoTask
  VersionTask = {t1}
  Document = {d1, d2}
  Selection <- MCSelection
  Unusable = {{d2}}
  Optional = {}
  Version = {v1}
  VersionOf <- MCVersionOf
  Executor = {e1, e2}
  Thread = {h1, h2}
  Worker = {w1, w2}
  ExecutorOf <- MCOneEach
  Outcome = {"success"}
  MaxBatch = 3
  FailureLimit = 2
  Reliable = {e2}
  Punctual = TRUE
INVARIANTS
  PunctualInvariant
  SuccessMeansLinted
PROPERTIES
  EveryVersionTaskFinishes
  InProgressEnds
CHECK_DEADLOCK FALSE
