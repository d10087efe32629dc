# APIHUB in TLA+

APIHUB stores versions of API specifications, computes what changed between
them, and shows them.  This directory holds TLA+ models of the parts whose
correctness depends on order, concurrency and failure, the TLC configurations
that check them on small instances, and TLAPS proofs about them.

## Inventory

| part | source (`src/`) | state | operations | hard behaviour |
|---|---|---|---|---|
| build queue | `backend/portal-backend`: `repository/BuildRepository.go`, `service/BuildProcessor.go`, `service/BuildService.go`, `controller/PublishController.go` | tables `build`, `build_src`, `build_depends` | publish, poll, keepalive, report error, report result | every operation is a request of its own; polls race; builders die; posts are repeated |
| publication | `service/BuildResultService.go`, `service/PublishedService.go`, `repository/PublishedRepositoryPG.go`, `repository/ExportResultRepository.go` | version tables, `build` | save result, save comparisons, save export | long transaction under the row lock of its build; checks made before it |
| build cleanup | `service/BuildCleanupService.go`, `repository/BuildCleanupRepository.go` | `build_src`, `build_result`, `error_build_notification`, object storage | remove data of old builds | ids selected in one step, deleted in another |
| node builder | `frontend/build-task-consumer` | one job, an interval timer | poll, build, keepalive, post | retries of an HTTP client, lost answers, restarts under a new id |
| Java builder | `backend/java-task-consumer` | one job, a heartbeat | the same protocol | heartbeat may overtake the result |
| lock service | `service/LockService.go`, `repository/LockRepository.go` | table `locks`, a heartbeat per lock | acquire, refresh, release | leases against clocks, optimistic versions, heartbeats of an earlier acquisition |
| cleanup jobs | `service/cleanup/` | cleanup runs, deleted data | revisions, comparisons, unreferenced and soft-deleted data | a job must stop when its lock is lost |
| version publishing | `service/PublishedService.go`, `service/VersionService.go`, `repository/PublishedRepositoryPG.go` | versions, revisions, references | choose revision, check previous version, change status, delete, start changelog builds | checks outside of the transaction they protect, minutes before it |
| migration | `backend/portal-backend/migration/`: `stages/`, `service/Restart.go`, `service/OperationsMigration.go` | the row of `migration_run`, temporary tables, builds, a goroutine and its keepalive | start, walk through the stages, take over, cancel | an instance stops in the middle of a stage; cancellation is noticed at any moment; statements are repeated |
| package transition | `service/TransitionService.go` | transition record, packages | move packages | long job with several transactions |
| API linter queues | `backend/api-linter-service`: `repository/*_lint_task.go`, `service/*_task_processor.go` | version and document lint tasks | take, finish, wait for documents | two coupled queues, stale executors |
| agents backend, agent | `backend/agents-backend`, `backend/agent` | snapshots, discovery caches | discovery, snapshot, publication | fan-out over HTTP |
| AI chat | `service/AiChat*.go` | chats and messages | start, stream, cancel, clean up | a turn outlives its request; events are lost |
| AI assistant panel | `frontend/ui/packages/portal/src/components/AiAssistant` | turn state, refs, messages cache | submit, read chunks, stop, leave, open, load | callbacks of an old turn after the next one has begun; chunks of any size; a load beside a stream |
| libraries | `frontend/api-processor`, `api-unifier`, `api-diff`, `json-crawl`, ... | none | document transformations | none that is concurrent |
| portal | `frontend/ui` and the viewers | browser state | presentation, client builds | a client build is the same protocol as the node builder's |

How they interact: the portal and command line tools publish by a request that
inserts a build; builders poll the backend for builds, and post keepalives,
errors and results to it; the transaction that stores a result completes the
build and inserts changelog builds for dependent versions; the cleanup and the
migration change the same rows from background jobs; the linter learns of
published versions from events and keeps queues of its own.

What makes each part correct:

- build queue: a build is published at most once, after its dependencies, by a
  builder that was given it; it is attempted at most three times; it is finished
  at last; a finished build does not run again; its sources exist while needed;
- lock service: at most one instance believes it holds a lock while its lease is
  valid; a lost lock is noticed by its job;
- version publishing: no two publications of a version take the same revision; a
  version with errors is neither a release nor the baseline of another; a release
  follows a release; the previous versions form no cycle and are not deleted;
- linter: a version's task completes only when its documents' tasks have, and each
  task ends although replicas die;
- AI chat: the panel can always stop what it shows, is never stuck, and keeps the text
  that it has shown;
- migration: each version is rebuilt once, after what it depends on, though instances
  die; a settled run leaves no build and stays settled; every run ends.

## Plan

1. `BuildQueue`, its abstract specification `BuildLifecycle`, and
   `BuildQueueProofs` (done).
2. `LeaseLock` and `LeaseLockProofs` (done).
3. `VersionPublishing`, `VersionPublishingProofs` and `VersionLinksProofs` (done):
   revisions, previous versions, status changes, deletions, the revisions cleanup,
   changelog builds.
4. `LintTasks` and `LintTasksProofs` (done): the two task tables of the linter and
   their executors.
5. `AiChatTurn` and `AiChatTurnProofs` (done): a turn between the panel and the backend.
6. `MigrationRun`, `MigrationRunProofs` and `MigrationItemsProofs` (done): one migration, its
   goroutines, its keepalives and the instances that take it over.
7. Next: the transition of packages, the snapshots of the agents backend, and reference
   resolution as an operator checked against a reference definition; an abstract
   specification of a lease that `LeaseLock` implements.

The modules do not share variables.  `BuildQueue` carries the builds whose request and
result `VersionPublishing` describes (`PublishVersion` there is `StoreServerBuild` here,
`CreateVersionWithData` is `CommitPublication`); `LeaseLock` guards the jobs of which
`VersionPublishing` models one step of the revisions cleanup; a build of `MigrationRun` is
one of `BuildQueue`'s migration builds, and its `CancelBuilds` is `CancelMigration` there.  Each module assumes of the
other no more than any interleaving.

Proofs follow each module: its inductive invariant, then its refinement.

## BuildQueue

### State

| variable | code |
|---|---|
| `status`, `builderId`, `restarts`, `details`, `created` | the columns of `build` (`restart_count`, `created_at` as a rank, `details` as the set of reasons in the text) |
| `age` | `last_active` compared with now: within the keepalive timeout, beyond it, or beyond the retention of finished builds |
| `hasSrc`, `notified` | rows of `build_src`, `error_build_notification` (and `hasNotifications` in the metadata) |
| `call` | for each request being processed: where it is, for whom and about which build |
| `builder` | for each builder: what its loop does, the interval timer, the tries of the result post, the request it awaits |
| `candidates` | ids a cleanup run with object storage has selected |
| `faults` | how many faults have happened, to bound them |
| `owners`, `commits`, `publisher` | history, read by properties only |

A request is a *handler*.  One transaction, or one query outside of a
transaction, is one step of a handler; the publication transaction is two, since
it holds its row lock from the check of the status (`LockForPublication`) to the
commit (`CommitPublication`).  `FOR NO KEY UPDATE` makes every other writer wait
(`RowLocked` in the guards), and `SKIP LOCKED` makes a poll pass over the row
(`Eligible`, and `Contended` for rows that a short transaction may hold).

### Actions

| action | code |
|---|---|
| `StoreServerBuild`, `StoreClientBuild` | `PublishVersion`, `CreateChangelogBuild`, `addBuild`, `StoreBuild` |
| `Poll`, `FailExhaustedBuild`, `TakeBuild`, `NothingToTake` | `GetFreeBuild` and the loop of `FindAndTakeFreeBuild` |
| `HandOver`, `FindUnbuildable`, `RejectUnbuildable` | `findFreeBuild` after a build was taken |
| `ValidateBuildOwnership`, `ApplyRunning`, `FailBuild` | `SetPublishStatus` with running and error |
| `RefreshBeforePublication`, `AcceptResult`, `RefuseResult`, `LockForPublication`, `CommitPublication` | `SetPublishStatus` with complete: `SaveBuildResult`, then `CreateVersionWithData`, `SaveVersionChanges` or `SaveExportResult` |
| `SendKeepalive`, `SendResult`, `RepeatResult`, `SendFailure`, `GiveUpResult` | `startBuildJob` and `postBuildStatus` of the node builder |
| `LoseResponse`, `RepeatPost`, `HandlerDies`, `BuilderDies` | a broken connection, the retry of the HTTP client, a replica that stops, a builder that restarts under a new id |
| `KeepaliveTimeout`, `RetentionEnds` | time |
| `RemoveOldBuildEntities`, `GetRemoveCandidates`, `RemoveOldBuildDataByIds` | the build cleanup without and with object storage |
| `CancelMigration` | `StageCancelling` |

### Runs (`MCBuildQueue`)

| run | instance | question |
|---|---|---|
| `one` | 1 migration build, 2 builders, 2 requests, 1 retry, 1 fault, object storage, cleanup, cancellation | published once, in isolation; finished is final; sources of unfinished builds; implements `BuildLifecycle` |
| `chain` | client build with an empty result, migration build depending on it, 1 node builder, 1 browser | dependencies first; the invariant of the proofs |
| `crashes` | 2 builders, 1 request at a time, 3 faults, empty result | every build finishes |

Why the bounds are enough.  A hazard of the queue needs two requests about one
build, from two builders at most: the one that was given the build before and the
one that has it now.  Two restarts are the code's own limit, so all three attempts
happen.  One retry already gives a repeated post beside the first; one fault loses an
answer, a handler or a builder at any moment, and three (`crashes`) follow each other.
A dependency needs two builds.
`RetryCount`, `FaultLimit` and the number of handlers are the only bounds the
model adds.  Symmetry is used in `one`, whose temporal properties are
all about single steps, and not in the run with liveness.
Deadlock is not checked: when everything is finished, or every builder is dead,
nothing has to happen.

### Fairness

`FairSpec` assumes of the code: a request that has started goes on (weak fairness
of `HandlerStep`); the interval of a living builder fires, and a build it started
ends one way or another and is reported (strong fairness of `Poll` and `Report`:
in the model, but not in the backend, which starts a goroutine per request, a
builder may have to wait for a free handler); time passes (weak fairness of
`KeepaliveTimeout`).  No fault is fair, and nothing is assumed of publish requests,
cleanup or keepalives.  A post that must be sent before a timeout is not assumed:
builds may time out while they are built.  Liveness holds while one node builder
lives.

### Where the code and its documentation differ

Three things that the model shows and that no run refutes on its own; the properties
above hold in spite of them.

- `FindAndTakeFreeBuild` keeps `result` over the iterations of its loop
  (BuildRepository.go:311): it returns a build that it has just failed when no other
  candidate follows (`NothingToTake`), and the builder builds it in vain.
- The guard of the publication reads the restart count and not the reason of the failure
  (PublishedRepositoryPG.go:1581, against its comment): a build that failed in its third
  attempt can be published by a result still under way.  `FinishedIsFinal` states what the
  code does.
- The owner is checked in a query of its own (PublishController.go:483): the result of a
  builder that lost the build in between is stored.

### Proofs (`BuildQueueProofs`)

For every value of the constants that `BuildQueueAssumption` allows (any finite set
of builds, any sets of builders, clients and handlers, any dependencies, retries
and faults):

| theorem | says |
|---|---|
| `TypeCorrect` | `Spec => []TypeOK` |
| `PublishedOnce` | a build is complete exactly when one publication of it has committed |
| `DependenciesFirst` | a server-side build runs only after its dependencies finished |
| `SourcesKept` | cleanup keeps the sources of unfinished builds |
| `PublicationIsolated` | nobody changes a row between the check and the commit of its publication |
| `FinishedFinal` | complete is final; error becomes complete only after both restarts |
| `Invariance` | the inductive invariant `IInv` |
| `Refinement` | `Spec => RefinesLifecycle` |

The argument.  None of these is inductive alone.  `PublishedOnceIffComplete` needs
`PublishingIsAllowed`: what the status check saw is still true at the commit.  That
needs the row lock (no other writer) and `OnePublicationAtATime`; and the guard
itself lets a queued build pass, so it needs `QueuedBuildIsUntouched`: no request and
no builder knows a build that was never taken.  That rests on `CallsAreBound` (a
request past the ownership check acts for a former owner), on `BoundIsOwner` and on
`BuildersHaveJobs`.  `DependenciesFinishFirst` needs `TakenAfterDependencies`, which
survives because finished builds stay finished, which needs `PublishingIsAllowed`
again.  `UnfinishedBuildHasSources` needs `CandidatesAreFinished` for the gap in the
cleanup.  `RunningWasTaken` ties restarts to attempts for the refinement.

The proof abstracts every action twice: `RowStep` says what a step can do to the
rows (nothing, store, bind, take, fail some, publish), `CallStep` and `BuilderStep`
what it can do to a request and a builder.  Each invariant is preserved by those few
shapes; `LifecycleStep` maps each row shape to an action of `BuildLifecycle`.

Only model-checked: `EveryBuildFinishes`.  Liveness under fairness and ENABLED are out
of the prover's reach, as are induction over data and recursive operators; no module
here uses recursion.

### Abstractions

Texts, sizes, package ids and permissions are left out; a request without permission
changes nothing.  The result itself is valid or not, and empty or not.  The order of
candidates within one priority is the rank of `created_at`.  What the publication
writes to the version tables, and when it orders changelog builds, is in
`VersionPublishing`: those are ordinary builds of the queue.  The isolation is PostgreSQL's READ
COMMITTED with row locks.

## LeaseLock

One lock: a row of the table `locks`, and the `LockService` of every instance of the
backend that uses it.

| variable | code |
|---|---|
| `holder`, `expires`, `version` | `instance_id`, `expires_at`, `version` of the row (version 0: no row) |
| `pc`, `stamp`, `seen` | where a run is in `AcquireLock`, its job or `ReleaseLock`; the time and the version it has read for its next statement |
| `ctx` | the context of the job: live, cancelled because the lock was lost, or past its deadline |
| `beat`, `beatStamp`, `beatSeen`, `due`, `stopped` | the heartbeat goroutine of the run, its ticker and its cancelled context |
| `canceler`, `channel` | the maps `heartbeatCancelers` and `lockLostChannels` of an instance |
| `told` | a `LockLostEvent` was sent to the run |
| `lease` | the end of the lease as far as the run was told; read by properties and by nothing else |
| `now` | real time; an instance reads `now` plus its `Skew` |

| action | code |
|---|---|
| `FindExistingLock`, `CreateNewLock`, `TakeOverExpiredLock` | the queries of `TryAcquireLock`; the answer of a write may be lost |
| `StartHeartbeat` | the rest of `AcquireLock`, under the mutex |
| `LookUp`, `RefreshLock`, `HeartbeatFails`, `NoticeHalt`, `EndHeartbeat` | `runHeartbeat` with `performHeartbeat` and its deferred function; `SendLockLost` is `sendLockLostNotification` |
| `CancelJob`, `JobTimeout`, `FinishJob` | `JobRunner`, or (`AlwaysReleases`) `withAiChatLock` and `withEphemeralFileCleanupLock`, which release a lost lock too and cancel only the body of the job |
| `CleanupLockResources`, `GetLockInfo`, `ReleaseLock`, `ReleaseFails` | `LockService.ReleaseLock` |
| `Crash` | an instance ends; a new one has a new id, so it is another member of `Instance` |
| `Tick` | time; without `Punctual` any number of ticks may pass between two steps |

`Shared` says whether jobs of one instance may use the lock at once.  The five jobs of
`JobRunner` share `cleanup_job_lock`; the other services have a lock of their own, and
cron skips a run while the former one lasts.

| run | instance | question |
|---|---|---|
| `leases` | 2 runs of one instance beside one of another, anything late, clocks a margin apart, 4 ticks | `LeaseIsExclusive`, `LeaseInvariant` |
| `punctual` | 2 runs of one instance beside one of another, of one job of `JobRunner`, nothing late but the ends of heartbeats, 6 ticks | `JobHoldsLock` |
| `shared` | two jobs of one instance share the lock, anything late | `ReleaseFreesOwnLock` is violated |

A lease of 3 ticks, an interval of 1 and a margin of 1 are the smallest with which a
lease can be refreshed (it must outlast the margin), lost by a missed heartbeat, and taken
over from an instance whose clock is a margin ahead.  A first lease can be taken over at
tick 4, so that 4 ticks let every take-over race with its former holder, a release, the
next run and the heartbeat of the former one.  `InOrder` starts the two runs of the first
instance in one order, which loses nothing since they are alike, and `Remembered` leaves
out of the compared state what a run that has returned remembers, which nothing reads.
`MaxTime` and the set of runs are the only bounds.  Deadlock is not
checked: at `MaxTime`, with all runs done, nothing is left to do.

`Punctual` is not something the code enforces.  `JobHoldsLock` needs it: a lease protects
whoever looks at its end, and the jobs do not; they rely on being told in time.  The run
shows that the heartbeat, its notification and the margins are enough then, with one
exception that the property spells out (`Orphaned`): the deferred function of a heartbeat
(LockService.go:226) cancels whatever heartbeat is registered under the name of the lock.
One that ends after the next run of the instance has registered its own stops that one, and
nobody is told; such a job keeps the lock no longer than the lease it was granted last, and
another instance then takes the lock over under a live job.  TLC reaches that state (it
refutes the property without the exception), in six ticks with two runs of one instance.
The end of a heartbeat is the one step that the run allows to be late; the property covers
every other way to lose the lock.

What the run `shared` refutes.

- `ReleaseFreesOwnLock` (`shared`): `ReleaseLock` recognises the instance, not the run.  A
  release after the lease has ended frees the lock that another job of the instance has
  taken over, and stops its heartbeat.

### Proofs (`LeaseLockProofs`)

For any instances and runs, lease, interval and margin, and clocks that differ by at most
the margin, of a lock that one run of an instance uses at a time (`OneAtATime`: one job has it,
or each instance uses it once): `Invariance` (`Spec => []LeaseInvariant`), `ExclusiveLease`
(`Spec => []LeaseIsExclusive`) and `LeaseTypes`.  With a shared lock `LeaseIsExclusive` does not
hold, for the reason `shared` shows.

`LeaseIsExclusive` is not inductive.  A run that believes in its lease has it in the row
(`LeaseIsWritten`), so that two of them are of one instance.  A take-over keeps this
because the time it compares with was read in the past (`ReadEarlier`) by a clock at most
a margin ahead.  A refresh keeps it because it never shortens the lease of its own run
(`LeaseIsBounded`, `BeatIsOutdated`), and because the heartbeat of a former run of the
instance, which could, has read an older version (`BeatIsOutdated`), as only one run of an
instance is active (`OneActive`).

`PunctualInvariance` (`Spec => [](LeaseInvariant /\ KeptInvariant)`) and `JobKeepsLock`
(`Spec => []JobHoldsLock`) assume `PunctualAssumption`: no step but the end of a heartbeat is
delayed over a tick, the heartbeat interval is no longer than the lease, and one job uses the
lock, as often as it likes.  TLC refutes `JobHoldsLock` without the second (lease 1, interval
2), and the run `shared` shows why it needs the third.  The argument: the lease of a live job
that is not orphaned lasts until its next
heartbeat is due, which has never passed (`Beating`), so that no other instance finds it expired,
by a clock at most a margin ahead; and a heartbeat that gives up is registered still and finds the
channel of its run (`RegisteredAtHome`), so that the run is told within the tick.  What earlier
runs of the instance left behind can tell nobody and refresh nothing (`OneActive`,
`BeatIsOutdated`); an orphaned job has its lease by `LeaseIsWritten`.

Left out: the names of locks (each is independent), the schedule, the run bookkeeping and the
deletions of the jobs, and the check for running migrations before the lock.  `cron` and the
tickers are used as their documentation says.

## VersionPublishing

| variable | code |
|---|---|
| `published` | the rows of `published_version` of each version, by revision: status, previous version, `deleted_at`, whether the documents have errors, the builds whose content the revision holds, the comparisons it has and those of them with errors; and, as history, the other versions that were changed while it was being built |
| `build` | a publication from its request to its changelog builds: the build's config, what the builder compared with, the errors it found, and the revision that `PublishPackage` has computed; `changed`, the other versions changed since the request; `overtaken`, whether anything was changed since `PublishPackage` has checked |
| `admin` | a status change between its checks and its write, with `overtaken` |
| `changes` | status changes, deletions and cleanups so far, to bound them |
| `outdated` | history, read by properties only: a handler has written after its checks were overtaken |

| action | code |
|---|---|
| `PublishVersion` | `BuildService.PublishVersion`: the previous version, the cycle, drafts under releases |
| `BuildVersion` | the builder: it reads the previous version, and finds errors or none in the documents and in the comparison |
| `CheckResult`, `RefuseResult` | `PublishedService.PublishPackage` up to its transaction |
| `CreateVersionWithData` | the transaction: the revision's row is inserted, or updated when its key exists |
| `ReCalculateChangelogs` | changelog builds for the dependent versions, until one cannot be stored |
| `PublishChanges` | the result of a changelog build, ordered by a publication or asked for (`ComparisonController`): the comparison has errors or none |
| `CheckPatch`, `PatchVersion` | `VersionService.PatchVersion` and the transaction of the repository, which looks the version up again |
| `DeleteVersion`, `DeleteVersionRevisions` | deletion, and the revisions cleanup of one version |

Checks are made by queries of their own, and other changes may commit between them and the
change they were made for: publications, status changes, deletions and cleanups *overtake*
the checks of everything under way.  The code does nothing against that, and the model excludes none
of it.  Its history says what has happened, and each guarantee which of it it does not survive:

| property | what it excepts |
|---|---|
| `LiveVersionIsListed`, `RevisionHasOneBuild`, `PreviousVersionHasNoErrors`, `ReleaseHasNoErrors` | only `outdated`: a handler was overtaken between its own checks and its write, which takes milliseconds.  A build may be overtaken for hours |
| `PreviousVersionIsLive` | a link to a version that was changed while the revision was being built; `outdated` or not |
| `PreviousVersionsAcyclic` | a cycle one version of which was changed while another was being built; `outdated` or not |
| `ReleaseFollowsRelease` | `outdated`; two versions one of which was changed while the latest revision of the other was being built |
| `ChangelogsFollow` | `outdated`; a previous version that was changed while the version was being built; a publication of the previous version that has still to order its comparisons, or has failed to, as long as its revision is the latest |

The exceptions of the last four are there since `PublishPackage` does not repeat the checks of the
request, and each is needed: a previous version that becomes a draft while the next
release is being built is the shortest example, against `docs/api/APIHUB_API.yaml` of the
portal's backend ("A release version cannot reference a draft previous version").  What the
four say is that nothing else leads to such a link: a version changed *after* the revision was
stored, or one that is neither end of the link, breaks nothing, and a change of another version during
the build does not excuse it.  As to `outdated`, two publications of one version at
once get one revision, and the row holds the content of both.

| run | instance | question |
|---|---|---|
| `versions` | 2 versions of a package, 3 publications, 1 patch at a time, 2 other changes, a cleanup that keeps releases but may delete last revisions, any number of changelog builds | the eight properties and the two invariants of the proofs |
| `cycle` | 2 packages with a version each, 3 publications, nothing else | `PreviousVersionsAcyclic` is violated |

Why the bounds are enough.  A hazard needs a version, a dependent version, and one of them
published a second time: three publications.  Two other changes allow a deletion after a
cleanup, or a patch that a deletion overtakes.  The constraint `HandlersInTime` ends a
behaviour when a handler has relied on overtaken checks.  Six of the properties are vacuous from
there on; for `PreviousVersionIsLive` and `PreviousVersionsAcyclic` the proofs cover the rest.
`Remembered` leaves out what nobody reads any more of finished builds, of deleted and earlier
revisions and of comparisons with earlier revisions.  Builds are symmetric, and so are versions,
whose names are the versions themselves.
Deadlock is not checked: when all builds are done nothing has to happen.

What the run `cycle` refutes.  `CheckPreviousVersionDependencyCycle` does not use the package
of the previous version, and follows names within the publishing package.  P/first,
Q/second after P/first, and P/first again after Q/second are all accepted, and each is the
previous version of the other.  (For the same reason a previous version of the same name in
another package is refused as a cycle, although `PublishVersion` allows it a few lines above.)
The search is stated by what it reaches: it visits the names that every set has which has
the first name and is closed under previous names.

### Proofs (`VersionPublishingProofs`)

For any versions, packages, builds, requests, cleanup options and bounds that
`VersionAssumption` allows: `Invariance` (`Spec => []VersionInvariant`), and from it
`LiveVersionsAreListed`, `RevisionsHoldOneBuild`, `PreviousVersionsHaveNoErrors`,
`ReleasesHaveNoErrors` and `TypeCorrectness`.  Like their properties, the four guarantees are about
behaviours in which no handler has relied on overtaken checks.

None of the four is inductive alone.  `CheckedResultStaysValid` and `CheckedPatchStaysValid`
carry what a handler has checked to its write, as long as it is not overtaken.  Then:

- a commit in time appends its revision (`RevisionIsAppended`), so that it holds one build,
  is the latest, and is listed; a commit out of time makes the guarantees vacuous;
- deletions, cleanups and cleared previous versions only hide revisions or links
  (`Dependents`, `ErosionKeepsDependentsAway`, `ErosionKeepsGuarantees`), which spoils no
  guarantee but `LiveVersionIsListed`; that one needs that a cleanup which deletes the last
  revision has deleted all the earlier ones (`CandidatesSpareTheLast`);
- errors and previous versions meet from two sides: a result with errors is refused when a
  revision names its version, and a result is refused when its previous version has errors.
  Each is checked against the rows before the other is stored, and whichever commits first
  overtakes the other.

### Proofs (`VersionLinksProofs`)

The four guarantees about previous versions, each with the exceptions of the table above and with
`VersionInvariant` as a hypothesis of each step: `LinkInvariance` (`Spec => []LinkInvariant`),
and from it `PreviousVersionsAreLive`, `ReleasesFollowReleases` and `ChangelogsAlwaysFollow`.

What makes them inductive is what is remembered of the checks: `RequestStaysValid` (what a request
has checked is still true of the versions that were not changed since, and the builder has
compared with the latest revision), `PatchStaysValid` and `SearchStaysValid`.  They and the
guarantees are said of one build, one status change, one row or one pair of versions
(`RequestHolds`, `PatchHolds`, `SearchHolds`, `LinkIsLive`, `ReleaseFollows`,
`ChangelogFollows`), so that a step is proved for those that it touches.  Then:

- a change is one of one version: the rows of the others are kept, or lose their links to it
  (`KeptRows`, `LatestErodesInRows`), every build under way has the version in `changed`
  afterwards, and every checked status change is overtaken.  What was checked of the others
  still holds (`RequestStillHolds`, `SearchStillHolds`);
- a commit makes links of what its build remembers: either the other version is in `changed` of the new
  row, or the check still holds of it (`LatestAfterCreateVersionWithData`).  When the
  handler was overtaken, the row may be written over one that is there already
  (`RevisionIsStored`); the links that it makes then are to live versions all the same, and
  `PreviousVersionIsLive` and `PreviousVersionsAcyclic` need no more;
- a comparison is stored, or the publication of the latest revision of the previous version is
  still to order it or has failed to.  A new revision of the previous version brings a committed
  build of its own, and a new revision of the version itself has been compared by its builder.

`PreviousVersionsAreAcyclic` assumes that all versions are of one package, as in the run
`versions`; without that the property is violated, as the run `cycle` shows.  A cycle is a
set of listed versions that the previous versions of its members stay in.  `SearchStaysValid` says
that a version which is being built would close none, unless one of the other versions in it was
changed since, or one of them was changed while another was being built; the commit passes that
on to the new row's `changed`, and every other change only removes links.

### Abstractions

Errors are those of the documents and those of comparisons with the previous version, found by
the publication's own builder or by a changelog build later (`VersionHasAnyErrors`); the
references of dashboards, and comparisons of pairs that are no version and its previous one, are left
out.  `PreviousVersionHasNoErrors` and `ReleaseHasNoErrors` are about the errors of documents: a
changelog build is not asked for the status of its version, nor for the versions that depend on it, so
that a release or a baseline may get a comparison with errors at any time.  The status is draft or release (`archived` has no rule of its
own here), and `previousVersionStatusValidation` is on, as it is by default.  Deletion and
patch are atomic, although they read rows without a lock and write them back whole (a patch
may so undo a deletion).  The request's checks and the storing of its build are one step.
A refused request changes nothing.  A cleanup also stops at a revision that a dashboard
references, which makes a shorter prefix of the same revisions.  Dashboards and references,
publication of groups and from CSV, copies, migrations, name patterns, patches of labels,
pages and the final removal of deleted rows are not modelled.

## LintTasks

| variable | code |
|---|---|
| `version`, `doc` | the rows of `version_lint_task` and `document_lint_task`; `stale` says that `last_active` is more than 30 seconds ago |
| `batches` | how often the documents of a version task have been saved |
| `linted` | `linted_version.lint_status` |
| `thread`, `checker`, `worker` | what the goroutines of a replica remember between two queries: `processVersionLintTask`, `checkDocReady`, `processDocTask` |
| `retry` | a call of `IncRestartCount` between its read and its write |
| `beat` | a keepalive between its read and its update |
| `live` | the executors that run; a restarted replica has a new id and is another one |
| `selected` | the documents with their linters, which a published version keeps |
| `failures`, `everDone` | how many queries have failed and finished documents have been opened again; history: documents that were finished once |

| action | code |
|---|---|
| `ValidateVersion` | a task is created for a publication event; `event_id` is unique |
| `FindFreeVersionTask`, `FindFreeDocTask`, `ReturnLeftover` | the polling loops, one transaction a step |
| `GetTaskById`, `SaveDocTasksAndUpdVer`, `CompleteWithoutDocuments`, `ProcessingFails` | `processVersionLintTask` |
| `IncRestartCountRead`, `IncRestartCountWrite` | the retry of `handleProcessingFailed`, which writes back whole rows |
| `GetWaitingForDocTasks`, `GetDocTasksForVersionTasks`, `UpdateLastActive`, `CompleteWithDocuments`, `CheckerPanics`, `CheckerFails` | `checkDocReady`; its goroutine dies when there is no linted version |
| `SaveLintResult`, `SaveFails` | a document worker |
| `KeepaliveRead`, `KeepaliveWrite`, `KeepaliveFails` | its keepalive goroutine, which reads and updates beside the worker |
| `VersionTaskExpires`, `DocTaskExpires`, `Crash` | time, and the end of a replica, which loses what its goroutines remember |

| run | instance | question |
|---|---|---|
| `lint` | 1 task of 1 document, 2 replicas, 1 worker, 2 failed queries or reopened documents, any delay | `SuccessIsJustified`, the invariant of the proofs |
| `lint_punctual` | 1 task of 2 documents of which one has no ruleset, 2 replicas with a worker each, one of them may crash, up to 3 batches, 2 failed queries or reopened documents, nothing late | `SuccessMeansLinted`, the invariant of its proof, `EveryVersionTaskFinishes`, `InProgressEnds` |

`Punctual` means that no step of a live goroutine takes 30 seconds: a row does not expire
while a live goroutine has it in hand.  The code relies on it, with a keepalive every five
seconds.  It orders nothing within the 30 seconds; a keepalive in particular may read before
its worker saves and update after it.  Without it the code promises little: two replicas may
hold one task, finished rows are written back, and `SuccessIsJustified` is what remains.
`SuccessMeansLinted` and the liveness properties need it.

The bounds: two replicas are the fewest that overtake each other, and the second one is what
remains after a crash.  Two restarts are the code's own limit, so that every attempt of both
tables happens; three batches are what a task can save within them.  A crash and two failed
queries are the fewest faults that exhaust a document task, after which the goroutine that
completes versions finds no result and dies.  `MaxBatch` and `FailureLimit` are the bounds
that the model adds; `FailureLimit` counts failed queries and finished documents that a
keepalive opens again, two together, so that one document is opened twice or two once.
`lint_punctual` leaves the failing of a linter out (`Outcome`), as its other document fails
without a ruleset; `lint` has both.  Deadlock is not checked: finished tasks need nothing.

Fairness: tickers fire every five seconds on a living replica and its goroutines go on, one
weak fairness condition for each goroutine (a thread, a checker, a worker, a keepalive that
has read), whichever of its steps it can take; time passes.  Nothing is assumed of new tasks,
keepalive reads, failures and crashes.

What the model shows beside the properties.  `VersionLintFailed` looks for the linted version
of an empty package id and rolls back, so that a task that has failed three times is given up
only by its next timeout.  A waiting task whose replica has died becomes `processing`
without being processed, and its documents are saved again later.  A version all of whose
documents failed without a result kills the goroutine that completes versions, on every replica
in turn; `EveryVersionTaskFinishes` holds since the task is given up at last.

A keepalive that reads before `SaveLintResult` commits and updates after it makes a finished
document `processing` again, within milliseconds, since `SetDocTaskStatus` reads outside of
its transaction and its update asks for the executor only.  The worker has gone on by then and
sends no more keepalives, so the document expires and is linted once more.  If
`checkDocReady` has read it in between, its version task is already completed with the first
result: `SuccessMeansLinted` therefore says that each document *has been* finished, and not
that it is, which TLC refutes.  And the second `SaveLintResult` sets the completed version's
`lint_status` back to in progress, where it stays, because no version task is left to
complete: `InProgressEnds` fails in 16 steps if such reopenings are not counted among the
`failures` it excepts.

### Proofs (`LintTasksProofs`)

`Invariance` (`Spec => []LintInvariant`), `TypeCorrectness` and `CompletionIsJustified`
(`Spec => []SuccessIsJustified`), for any tasks, documents, replicas, goroutines, bounds and
delays.  `SuccessIsJustified` needs that a task which waits for documents has some, in the
table and in everyone's memory (`WaitingHasDocuments`), as otherwise an empty list of documents
would complete it; that a finished document stays remembered (`DocTasksAreSaved`); and that
verdicts and rows that will be written back are justified (`MemoryIsJustified`).  The lemma
`Stays` says that a step that saves no documents and forgets none keeps all of this; the
actions that save, judge and write back have proofs of their own.

`CompletedMeansLinted` (`Spec => []SuccessMeansLinted`) has the hypothesis `Punctual`, as the
run has: a delay is in the guards of `VersionTaskExpires` and `DocTaskExpires` alone, so that
the theorem is about every instance in which no live goroutine is later than the keepalive
timeout; crashes, failed queries, keepalives that open a finished document and repeated
batches are not restricted.  `PunctualInvariance` is its inductive invariant:

- nobody can take over a version task that a thread, a checker or a retry has in hand, and a
  row that `IncRestartCount` will write back is none that can be taken either
  (`InHandIsNotTaken`);
- a thread shares its task with nobody, so that a second batch of documents is saved only
  while no verdict on the task and no copy of its row is in anyone's memory
  (`ThreadsAreAlone`);
- a worker holds what it lints until that is finished; its keepalive updates a row that it
  holds or has just finished and that nobody lints, so that no document is ever opened under
  another worker (`WorkersHoldOn`);
- a crashed replica remembers nothing (`MemoryIsLive`); and the documents of completed
  tasks, of tasks with a verdict and of completed rows in memory have been finished
  (`LintedForGood`).

The lemmas `HandsStay`, `LiveStays` and `LintedStays` say of which steps each part survives,
and one lemma per action and part that it is such a step.

Only model-checked: the liveness properties.

Left out: which linter and ruleset a document gets (`Selection` and `Unusable` stand for any
outcome), how workers are restricted to linters, the linters, scores, and rulesets; a second
keepalive of a worker while its last one, five seconds old by then, is still under way.

## AiChatTurn

| variable | code |
|---|---|
| `state`, `bootstrap`, `turnLock`, `createdChat`, `controller` | the refs of the panel: `stateRef`, `turnBootstrapRef`, `turnLockRef`, `createdChatThisTurnRef`, `abortControllerRef` |
| `aborted`, `active`, `submission` | the signal of the controller; `activeChatId`; where the run of `submit` is |
| `cache`, `load` | the messages query of each chat, and its request |
| `chats`, `messages`, `server` | the tables, and the goroutine of each turn |
| `wire`, `connection` | the events that the panel has not read, and the state of the response |

| action | code |
|---|---|
| `SubmitToChat`, `SubmitFromWelcome`, `ChatCreated`, `CreateChatFails` | `useStreamingTurnSubmit` |
| `ProcessStreamBatch` | a chunk of the response with any number of events: `processStreamBatch` and the reducer |
| `StreamEnds`, `StreamFails`, `ChatNotFound`, `StreamAborted` | the ends of `runStreamTurn`, with its `finally` |
| `Stop`, `StartNewChat`, `OpenChat`, `ReadMessages`, `LoadMessages` | the user, and the messages query |
| `ReceiveMessage`, `RejectMessage`, `FailBeforeAnswer`, `StreamDelta`, `StoreAnswer`, `FailTurn`, `CompleteTurn` | `SendMessageStream`, `runTurn` and `runLLMTurn`, a database call a step |
| `LoseConnection`, `DeleteChat` | the network; another tab |

JavaScript runs to its next `await`, so that a callback is one action; what the order of
callbacks is, nobody fixes.

The run `chat` has a chat of the history and a new one, two turns, an answer of one delta and
one fault: enough for an old turn beside a new one, a chunk that holds every kind of event,
and a turn that is lost, stopped, left or whose chat is deleted at any moment.
`PanelInvariant` has the type invariant and `BusyPanelCanStop`; `TurnInvariant` is what the
guarantees rest on, below.  Deadlock is not checked: with all turns sent nothing has to happen.

Fairness (`FairSpec`): a callback runs when its promise is settled, a request is answered or
fails, and a turn on the server ends within `AiChatTurnTimeout`.  The user and faults are free.
Each of those steps is taken finitely often, so that weak fairness of their disjunction is
fairness of each.

`ShownTextIsKept` excepts `StartNewChat`: it aborts and then resets, so that the reset comes
before the flush of the abort, and the partial text is not saved
(`docs/dev/ai-assistant-streaming.md` of the portal says that it may be).  When only `done`
arrives, and not the completed answer before it, the text is not put into the list, which is
marked as stale instead.  The property then says where the text is, on the server unless the
chat has been deleted, and not that it is seen again: the mark reloads nothing
(`refetchType: 'none'`), nor does `ChatScreen` when it is mounted (`App.tsx:34`), so that the
list stays without the answer until it is dropped from the cache.  Two more things the
model shows and no property states: a load of the messages that is under way when the user
sends replaces the message just shown; and a message sent in the moment between the last
event and the end of the response is dropped by the lock although the composer is enabled.

### Proofs (`AiChatTurnProofs`)

For any chats, turns, deltas and faults: `Invariance` (`Spec => []TurnInvariant`), and from it
`BusyPanelIsStoppable` (`PanelInvariant`), `NoTurnResumes` (`SettledTurnStaysSettled`) and
`ShownTextStays` (`ShownTextIsKept`).  `TurnInvariant` relates what the panel, the wire and
the server know of a turn; its parts lean on each other:

- `SubmissionOwnsTurn`: the submission that holds the lock has the controller of the last
  turn, so that `BusyPanelCanStop` survives the end of an old one;
- `EventsInOrder`: a turn that the server has not received has no events, a 404 is the whole
  answer, and after a terminal event comes no delta and no error.  Otherwise the text before
  an error would not be all the deltas of its chunk;
- `DeltasAreSent`: the buffer and the deltas on their way are at most what the server has sent.
  A message whose id is in the list already is not added, whatever its text, and this makes
  the one in the list at least as long;
- `AnswersAreStored`: an answer on the server has its turn's text, also in a list that is being
  loaded; so has one that the panel shows of the turn that it streams; and a turn that says
  `done` has stored its answer, unless the chat has been deleted.

A chunk of any length is reduced by a recursive function of its prefixes (`SseBatchStates`).
`SseBatchUnfolds` gives its equation, and `BatchKeepsClaim`, by the shortest prefix for which
it fails, what is left of a state: nothing after a terminal event, every delta before.  `ReadBatch` says
the same of `ProcessStreamBatch`, for the actual chunk, and the other proofs cite only that.

Only model-checked: `EverySubmissionEnds`.

Left out: titles and their polling, renaming, pins,
compaction, tools, retries with the same `clientMessageId`, deletion from the panel itself,
garbage collection of queries, and pages.  The ids of the optimistic and the stored user
message are not distinguished.  Deltas that nobody receives any more are left out.

## MigrationRun

One migration, from the row that `StartMigrateOperations` inserts to its end.  The first
goroutine that processes it is 0; the n-th take-over starts goroutine n.

| variable | code |
|---|---|
| `run` | the row of `migration_run`; `stale` says that `updated_at` is more than 120 seconds ago, `begun` that `stages_execution` is not empty |
| `tables` | the temporary tables of the migration |
| `build` | the builds each goroutine has created, by item; a version or comparison that is due is an `Item` |
| `host`, `live` | the instance of each goroutine; the instances that run.  A restarted backend has a new id and is another instance |
| `fsm` | what the goroutine in `processStage` is about to do, for which stage, and where it goes from there; `check` says that a statement is about to be repeated, `cancelled` that `migrationCtx` is |
| `keepalive` | the goroutine of `keepaliveWhileRunning`, with `isCancelling` |
| `failures` | failed statements, lost answers and late keepalives so far, to bound them |
| `late` | history, read by properties only: a live instance's keepalive has been late or has stopped |

| action | code |
|---|---|
| `VerifyOwnership`, `Halt` | the beginning of `processStage` |
| `HandleStageStart`, `HandleStageFinish` | the functions of these names |
| `Work` | the stages that create no build: starting, cleanup before, text search, post check |
| `Recover`, `SelectItems`, `CreateBuild`, `WaitForBuilds`, `WaitTimesOut` | the other stages: `waitForBuilds`, the query, `createBuilds` and `createComparisonBuilds`, in rounds or in the two parts of the relaxed stage |
| `CancelBuilds` | `StageCancelling` |
| `DropTables`, `Settle` | `StageCleanupAfter`, and the last update of `handleComplete`, `handleCancel` and `handleError` |
| `AnswerLost`, `CreateUnanswered`, `StatementFails`, `DatabaseUnavailable`, `VerifyBeforeRetry`, `ContextCancelled` | `withDBRetry` around each statement; `AfterError` and `AfterLoss` say where an error leads |
| `KeepAlive`, `KeepAliveStops`, `BecomeStale` | a tick of the keepalive; 120 seconds without one |
| `RestartMigrations` | `restartMigrations` of another instance, every minute |
| `CancelRunningMigrations`, `FinishBuild`, `Crash` | the administrator, the builders, the end of an instance |

The stage's query (`Selected`) is modelled by what it returns: the items of the stage whose
`Needs` are complete, without those that have a build where the query says so.  Some stages
always leave out what has a build; the others do so only when they are the stage at which
the migration was taken over.  That difference, the builds that a former goroutine has
created, and answers that are lost are what the properties are about.

| property | says |
|---|---|
| `RebuiltOnce` | no item has builds of two goroutines |
| `StagesDoNotOverlap` | unfinished builds belong to the stage in the row |
| `SettledHasNoBuilds` | a complete or cancelled migration has no unfinished build |
| `NothingIsForgotten` | a complete migration has a build for each item whose needs were met in time |
| `NothingIsLeftBehind` | what the one before rests on, stage by stage: neither a goroutine nor the row is past an item that was ready and has no build |
| `SettledStaysSettled` | the row of a settled migration does not change, except that a goroutine that lost an answer may mark it as failed |
| `EveryMigrationEnds` | every migration is settled at last, or abandoned |

All but the last hold while no keepalive is late: 120 seconds are four ticks, and a former
owner that could not tick for so long learns of its loss only at its next stage or repeated
statement.  With a late keepalive two goroutines may create builds for the same items and
both may write the ending.  Nothing in the code prevents this, and the comments of `FSM.go`
call it an issue of several instances with an unavailable database.

The run `migration` has a version and one that names it as its previous version, in the
stages for independent and dependent versions: the fewest that have an order between stages,
rounds, and a stage that forgets its builds unless it was restarted.  Two instances, one of
which may stop, one take-over (three in the code) and one failure allow a crash at any
statement, followed or preceded by a failure, a cancellation or a late keepalive, and the
end by too many take-overs.  `FailureLimit` and `MaxMigrationRetries` are the only bounds.
`MCFairSpec` starts full migrations on
the instance that may stop and changelog-only ones on the other.  Deadlock is not checked: a settled
migration needs nothing.

Fairness (`FairSpec`): a goroutine whose instance is live goes on; tickers tick; builders
finish what is queued, which `EveryBuildFinishes` shows; time passes; a live instance looks
for stale migrations.  One formula for all goroutines is enough, as each is fair to a
disjunction whose steps are finitely many before the migration ends.  Failures and the
administrator are free, and one instance is assumed to stay (`Reliable`).

What the model shows beside the properties.

- A settled migration may be reported as failed.  `migrationCtx` is cancelled while a
  migration is being cancelled, so that `withDBRetry` does not repeat a statement whose answer
  is lost (`waitForRetry`, Utils.go:498-505).  When that is the last update of `handleCancel`,
  which is stored, or of `handleComplete` when the cancellation comes just before it,
  `processStage` calls `handleError` (FSM.go:213-230), whose update names neither owner nor
  status (FSM.go:293-298).  This is the second disjunct of `SettledStaysSettled`: TLC refutes
  the property without it, with one lost answer and no keepalive late.
- A goroutine that cannot even store that it has failed ends (`handleError` logs the error
  and returns), as does one that panics since `stages_execution` is empty when the
  migration is cancelled at once.  Its keepalive goes on, so that no instance takes the
  migration over, and new ones are refused until the instance stops.  This is the
  `"abandoned"` of `EveryMigrationEnds`.
- The post check and the first lines of `processStage` format a lost ownership into
  another error (PostCheck.go:48 and FSM.go:84, without `%w`), so that a former owner
  marks as failed what another instance is processing.
- The queries ask whether a build exists that has what the item needs; an item whose need is
  met only by a build of a later stage is not selected any more.  `WasReady` says so.
- `StartMigrateOperations` reads the running migrations and the last sequence number in two
  statements ("Allow only one migration.", OperationsMigration.go:33).  With READ COMMITTED,
  two of them both run when one commits between the two statements of the other.  The
  module begins after that.
- `restartMigrations` whose commit succeeds without an answer leaves an owner without a
  goroutine; another instance takes over two minutes later, if there is one.  This is not
  an action of the model.

### Proofs (`MigrationRunProofs`, `MigrationItemsProofs`)

For any items, stages, needs, instances, take-overs and failures that `MigrationAssumption`
allows: `Invariance` (`Spec => []MigrationInvariant`), and from it `ItemsAreRebuiltOnce`,
`StagesAreSeparate`, `NoBuildsAreLeft` and `SettledIsFinal`.

None of these is inductive alone.  While nothing is late, only the goroutine of the last
take-over works, and the migration is not settled while it does, unless the answer to
the update that settled it was lost (`Unheard`; `LastOneWorks`): a row
becomes stale only when its owner's keepalive has ended, and that ends only with its
instance or the migration.  So the properties are about one goroutine and the builds that
others have left.  `StagesInOrder` says how far these are: builds belong to stages up to the
one in the row, in the order of `Rank`; a goroutine before the query of its stage has seen
all builds done; a stage that does not leave out what has been built was not begun before,
unless it is the one at which the migration was taken over, and then its query does
(`InOrder`).  Each action is shown to keep the control (`Bookkeeping`, `LastOneWorks`) and
the builds (`StagesInOrder` and the three properties) in lemmas of their own.

`NothingIsForgotten` is about a complete migration and so about all the stages it went
through, of whichever goroutine.  `MigrationItemsProofs` carries it along them:
`StagesLeaveNothing` (`Spec => []NothingIsLeftBehind`) is inductive relative to
`MigrationInvariant`, and `NoItemIsForgotten` follows.  `NothingLeftBefore(s)` says that
each item of the stages before `s` that is due has a build if it was ready (`Remembered`);
the row promises it of its stage, which is where a take-over begins, and a goroutine of the
stage it begins or finishes to (`LeavesNothing`).  In between, the items that a query
returned are on the goroutine's list until their builds are stored, and a stage in rounds is
passed by a query that returns nothing.  Two facts carry the argument: between a stage and
the next one lie only stages off the migration's route (`NothingBetween`), and a build that
completes later makes no item ready whose turn is over, as its stage is not an earlier one
(`DoneTooLate`).  For the comparisons the second needs `NeedsAssumption`: their query asks for
builds of versions, never for one of another comparison (`build_type = 'build'`,
Comparisons.go:95-96).

Only model-checked: `EveryMigrationEnds`.

Left out: how the source of a build is assembled; items that appear or change while the
migration runs, comparisons that the rebuild of a version rebuilds with it, and versions
left out because their previous version has errors (they are not `Item`s); the scope of a
partial migration, which only makes the set of items smaller, and with which the cleanup
before does nothing; the result of the post check, which changes nothing else.  The
temporary tables are created in one step and dropped in one.  The wait for locks of a
restarted first stage ends or fails.

## Only model-checked

Every liveness property (`EveryBuildFinishes`, `EveryVersionTaskFinishes`, `InProgressEnds`,
`EverySubmissionEnds`, `EveryMigrationEnds`), which is out of the prover's reach with
ENABLED.  Every invariant and every action property of the passing runs is a theorem;
`JobHoldsLock`, `SuccessMeansLinted` and `PreviousVersionsAcyclic` have hypotheses, which
their sections name and the passing runs meet.

## Not modelled

The specification libraries transform documents without shared state, and their
inputs are far beyond what a model checker enumerates; they and the viewers are most of the
repository's lines.  The rest of the portal presents data.  Roles, tokens, users and packages are
single-transaction updates.  Search, activity, metrics and exports query and report.  The agent's only state is a
cache of what it discovers.  Test stand, deployment and tools hold no logic of the system.  The
Java builder follows the node builder's protocol; its own differences, the transition of packages, the agents backend and reference resolution are
planned above.
