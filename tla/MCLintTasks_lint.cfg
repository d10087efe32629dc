\* Any delay: two replicas overtake each other on one version task.
SPECIFICATION Spec
CONSTANTS
  t1 = t1
  v1 = v1
  e1 = e1
  e2 = e2
  h1 = h1
  h2 = h2
  w1 = w1
  w2 = w2
  NoExecutor = NoExecutor
  NoTask = NoTask
  VersionTask = {t1}
  Document = {d1}
  Selection <- MCSelection
  Unusable = {{}, {d1}}
  Optional = {}
  Version = {v1}
  VersionOf <- MCVersionOf
  Executor = {e1, e2}
  Thread = {h1, h2}
  Worker = {w1}
  ExecutorOf <- MCOneWorker
  Outcome = {"success", "error"}
  MaxBatch = 1
  FailureLimit = 2
  Reliable = {e1, e2}
  Punctual = FALSE
INVARIANTS
  LintInvariant
  SuccessIsJustified
CHECK_DEADLOCK FALSE
