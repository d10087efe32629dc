----------------------------- MODULE MigrationRun -----------------------------
(***************************************************************************)
(* One operations migration of the portal backend                          *)
(* (backend/portal-backend/migration): a goroutine of one instance walks   *)
(* through the stages of FSM.go, creates builds and waits for them, while  *)
(* a second goroutine keeps the row of the migration fresh.  When the row  *)
(* has not been updated for 120 seconds, another instance takes the        *)
(* migration over at the stage in the row.                                 *)
(*                                                                         *)
(* The first goroutine is 0, the n-th take-over starts goroutine n.  An    *)
(* instance is one start of the backend: its id is drawn at start-up.      *)
(* Each statement is one action; withDBRetry repeats a statement after the *)
(* database was unavailable.  Time is the flag `stale` of the row.         *)
(***************************************************************************)
EXTENDS Naturals, FiniteSets

CONSTANTS
  Item,                 \* the rebuilds of versions and comparisons that may be due
  StageOf,              \* the stage whose query selects each item
  Comparison,           \* the items that are comparisons
  Needs,                \* sets of items; of each set one must be complete first
  Instance,             \* starts of the backend
  Reliable,             \* the instances that do not crash
  MaxMigrationRetries,  \* take-overs of one migration, 3 in the code
  FailureLimit          \* bound: failed statements, lost answers and late keepalives

BuildStage == {"independent_versions_last", "dependent_versions_last",
               "independent_versions_old", "dependent_versions_old",
               "rebuild_relaxed_builds", "dashboard_versions",
               "comparisons_other", "comparisons_only"}

ASSUME MigrationAssumption ==
  /\ StageOf \in [Item -> BuildStage]
  /\ Comparison \subseteq Item
  /\ Needs \in [Item -> SUBSET SUBSET Item]
  /\ Reliable \subseteq Instance
  /\ MaxMigrationRetries \in Nat
  /\ FailureLimit \in Nat

\* The query of the comparisons asks for builds of versions.
ASSUME NeedsAssumption ==
  \A x, y \in Item :
    StageOf[x] = "comparisons_other" /\ StageOf[y] = "comparisons_other" =>
      \A s \in Needs[x] : y \notin s

\* The goroutines that process the migration, by the retry_count they run with.
Try == 0 .. MaxMigrationRetries

Stage == BuildStage \cup {"starting", "cleanup_before", "ts_recalculate", "post_check",
                          "cancelling"}
Settled == {"complete", "failed", "cancelled"}
Unfinished == {"running", "cancelling"}
BuildStatus == {"none", "queued", "complete", "error"}

VARIABLES
  run,        \* the row of migration_run
  tables,     \* the temporary tables of the migration exist
  build,      \* the builds of each goroutine for each item
  host,       \* the instance of each goroutine
  fsm,        \* the goroutine that processes the stages
  keepalive,  \* the keepalive goroutine: off, on, or on and cancelling
  live,       \* the instances that are running
  failures,   \* failed statements, lost answers and late keepalives so far
  late        \* history: the keepalive of a live instance has been late or has stopped

vars == <<run, tables, build, host, fsm, keepalive, live, failures, late>>

Run == [status: Unfinished \cup Settled,
        stage: Stage \cup {"done", "cancelled"},
        changelogOnly: BOOLEAN,   \* is_rebuild_changelog_only
        owner: Instance,          \* instance_id
        retries: Try,             \* retry_count
        begun: BOOLEAN,           \* stages_execution is not empty
        stale: BOOLEAN]           \* updated_at is more than 120 seconds ago

Pc == {"none", "verify", "halt", "start", "work", "recover", "select", "create", "wait",
       "cancel", "finish", "drop", "settle", "end", "abandoned"}

Fsm == [pc: Pc,
        stage: Stage,                                    \* the stage being processed
        goal: Stage \cup {"done", "cancelled", "failed"},\* nextStage, or how it ends
        restartStage: Stage \cup {"none"},
        comparisons: BOOLEAN,                            \* second part of the relaxed stage
        todo: SUBSET Item,                               \* selected, build not created yet
        check: BOOLEAN,                                  \* ownership is verified next
        cancelled: BOOLEAN,                              \* migrationCtx is cancelled
        begun: BOOLEAN]                                  \* ent.StagesExecution is not empty

Idle == [pc |-> "none", stage |-> "starting", goal |-> "done", restartStage |-> "none",
         comparisons |-> FALSE, todo |-> {}, check |-> FALSE, cancelled |-> FALSE,
         begun |-> FALSE]
Ended == [Idle EXCEPT !.pc = "end"]
Abandoned == [Idle EXCEPT !.pc = "abandoned"]
\* NewOpsMigration and Start: the first goroutine, and one that takes over at stage s.
Started == [Idle EXCEPT !.pc = "verify"]
Restarted(s, begun) == [Started EXCEPT !.stage = s, !.restartStage = s, !.begun = begun]

\* StartMigrateOperations has inserted the row.
Init ==
  \E i \in Instance, only \in BOOLEAN :
    /\ run = [status |-> "running", stage |-> "starting", changelogOnly |-> only,
              owner |-> i, retries |-> 0, begun |-> FALSE, stale |-> FALSE]
    /\ tables = FALSE
    /\ build = [g \in Try |-> [x \in Item |-> "none"]]
    /\ host = [g \in Try |-> i]
    /\ fsm = [g \in Try |-> IF g = 0 THEN Started ELSE Idle]
    /\ keepalive = [g \in Try |-> IF g = 0 THEN "on" ELSE "off"]
    /\ live = Instance
    /\ failures = 0
    /\ late = FALSE

Working(g) == fsm[g].pc \notin {"none", "end", "abandoned"}
Owns(g) == run.owner = host[g]
Built(x) == \E g \in Try : build[g][x] # "none"
Complete(x) == \E g \in Try : build[g][x] = "complete"
Ready(x) == \A s \in Needs[x] : \E y \in s : Complete(y)
Queued == {b \in Try \X Item : build[b[1]][b[2]] = "queued"}

(***************************************************************************)
(* The order of the stages, and what a stage begins with.                  *)
(***************************************************************************)
Following ==
  [starting |-> "cleanup_before",
   cleanup_before |-> "independent_versions_last",
   independent_versions_last |-> "dependent_versions_last",
   dependent_versions_last |-> "independent_versions_old",
   independent_versions_old |-> "dependent_versions_old",
   dependent_versions_old |-> "rebuild_relaxed_builds",
   rebuild_relaxed_builds |-> "dashboard_versions",
   dashboard_versions |-> "comparisons_other",
   comparisons_other |-> "ts_recalculate",
   ts_recalculate |-> "post_check",
   comparisons_only |-> "post_check",
   post_check |-> "done",
   cancelling |-> "cancelled"]

NextStage(s) == IF s = "starting" /\ run.changelogOnly THEN "comparisons_only" ELSE Following[s]

Entry(s) == IF s \in BuildStage THEN "recover"
            ELSE IF s = "cancelling" THEN "cancel" ELSE "work"

\* The stages whose query leaves out items for which a build exists, also when the
\* stage was not restarted; all of them but the relaxed stage run in rounds.
InRounds == {"dependent_versions_last", "dependent_versions_old", "dashboard_versions"}
LeavesOutBuilt == InRounds \cup {"rebuild_relaxed_builds"}
AsksForNeeds == InRounds \cup {"comparisons_other"}

\* Mutant: a restarted stage does not look for the builds it has created before.
SelectedM(f) ==
  {x \in Item : /\ StageOf[x] = f.stage
                /\ f.stage = "rebuild_relaxed_builds" => (f.comparisons <=> x \in Comparison)
                /\ f.stage \in AsksForNeeds => Ready(x)
                /\ f.stage \in LeavesOutBuilt => ~Built(x)}

\* Mutant: a restarted stage waits for the builds it finds and creates no others.
SelectedAnewM(f) == {x \in SelectedM(f) : f.restartStage # f.stage}

\* What the query of the stage returns.
Selected(f) ==
  {x \in Item : /\ StageOf[x] = f.stage
                /\ f.stage = "rebuild_relaxed_builds" => (f.comparisons <=> x \in Comparison)
                /\ f.stage \in AsksForNeeds => Ready(x)
                /\ f.stage \in LeavesOutBuilt \/ f.restartStage = f.stage => ~Built(x)}

(***************************************************************************)
(* Where an error of a statement leads.                                    *)
(***************************************************************************)
Body == {"work", "recover", "select", "create", "wait", "cancel"}
Statement == Body \cup {"halt", "start", "finish", "drop", "settle"}
\* The statements that are given migrationCtx fail once it is cancelled.
TakesContext == Body \ {"cancel"}

Failing(f) == [f EXCEPT !.pc = "drop", !.goal = "failed", !.check = FALSE, !.todo = {}]
Cancelling(f) == [f EXCEPT !.pc = "finish", !.goal = "cancelling", !.check = FALSE, !.todo = {}]
Settling(f) == [f EXCEPT !.pc = "settle", !.check = FALSE]
\* handleStageStart has failed, and the context is cancelled.
CancelNow(f) == [f EXCEPT !.pc = "cancel", !.stage = "cancelling", !.check = FALSE, !.begun = TRUE]

\* Any error but a lost ownership.
AfterError(f) ==
  CASE f.pc = "drop" -> Settling(f)
    [] f.pc = "settle" /\ f.goal = "failed" -> Abandoned
    [] f.pc = "start" /\ f.cancelled -> CancelNow(f)
    [] f.pc \in Body /\ f.cancelled -> Cancelling(f)
    [] OTHER -> Failing([f EXCEPT !.begun = TRUE])

\* errOwnershipLost; two places format it into another error, which hides it.
AfterLoss(f) ==
  CASE f.pc = "drop" -> Settling(f)
    [] f.pc = "start" /\ f.cancelled -> CancelNow(f)
    [] f.pc \in Body /\ f.cancelled -> Cancelling(f)
    [] f.pc = "halt" \/ (f.pc = "work" /\ f.stage = "post_check") -> Failing(f)
    [] OTHER -> Ended

(***************************************************************************)
(* processStage: each step of the goroutine g.                             *)
(***************************************************************************)
\* A statement of the goroutine is about to be executed.
At(g, pc) ==
  /\ fsm[g].pc = pc
  /\ ~fsm[g].check
  /\ pc \in TakesContext => ~fsm[g].cancelled

Move(g, f) == fsm' = [fsm EXCEPT ![g] = f]

\* verifyOwnership and the check of the context.  A verification that fails is
\* ignored; handleStageFinish panics when no stage has begun.
BeginStage(f) ==
  IF f.cancelled /\ f.stage # "cancelling"
  THEN IF f.begun THEN [f EXCEPT !.pc = "halt"] ELSE Abandoned
  ELSE [f EXCEPT !.pc = "start"]

VerifyOwnership(g) ==
  /\ At(g, "verify")
  /\ \/ /\ ~Owns(g)
        /\ Move(g, Ended)
        /\ UNCHANGED failures
     \/ /\ Owns(g)
        /\ Move(g, BeginStage(fsm[g]))
        /\ UNCHANGED failures
     \/ /\ failures < FailureLimit
        /\ failures' = failures + 1
        /\ Move(g, BeginStage(fsm[g]))
  /\ UNCHANGED <<run, tables, build, host, keepalive, live, late>>

\* handleStageFinish of the last stage of a cancelled migration.
Halt(g) ==
  /\ At(g, "halt")
  /\ run' = [run EXCEPT !.stale = FALSE]
  /\ Move(g, [fsm[g] EXCEPT !.pc = "start", !.stage = "cancelling"])
  /\ UNCHANGED <<tables, build, host, keepalive, live, failures, late>>

\* The row when goroutine f has begun its stage.
Begun(f) ==
  IF f.restartStage # f.stage
  THEN [run EXCEPT !.stage = f.stage, !.begun = TRUE, !.stale = FALSE]
  ELSE IF f.stage = "starting" /\ ~f.begun
       THEN [run EXCEPT !.begun = TRUE, !.stale = FALSE]
       ELSE run

HandleStageStart(g) ==
  LET f == fsm[g] IN
  /\ At(g, "start")
  /\ run' = Begun(f)
  /\ Move(g, [f EXCEPT !.pc = Entry(f.stage), !.begun = TRUE, !.comparisons = FALSE])
  /\ UNCHANGED <<tables, build, host, keepalive, live, failures, late>>

Finishing(f, next) == [f EXCEPT !.pc = "finish", !.goal = next]

\* The stages without builds: only the first creates the temporary tables, and only
\* the recalculation of the text search needs them.
Work(g) ==
  LET f == fsm[g] IN
  /\ At(g, "work")
  /\ tables' = (tables \/ f.stage = "starting")
  /\ Move(g, IF f.stage = "ts_recalculate" /\ ~tables
             THEN Failing(f)
             ELSE Finishing(f, NextStage(f.stage)))
  /\ UNCHANGED <<run, build, host, keepalive, live, failures, late>>

\* waitForBuilds before the query of a stage: builds of a former goroutine.
Recover(g) ==
  /\ At(g, "recover")
  /\ Queued = {}
  /\ Move(g, [fsm[g] EXCEPT !.pc = "select"])
  /\ UNCHANGED <<run, tables, build, host, keepalive, live, failures, late>>

\* Where the stage goes on when the builds of one query are done: the relaxed stage
\* rebuilds versions first and then comparisons, other stages go on in rounds until
\* a query returns nothing.
AfterBuilds(f, found) ==
  CASE f.stage = "rebuild_relaxed_builds" /\ ~f.comparisons ->
         [f EXCEPT !.pc = "select", !.comparisons = TRUE]
    [] f.stage \in InRounds /\ found -> [f EXCEPT !.pc = "select"]
    [] OTHER -> Finishing(f, NextStage(f.stage))

SelectItems(g) ==
  LET f == fsm[g]
      found == Selected(f)
  IN
  /\ At(g, "select")
  /\ Move(g, IF found = {} THEN AfterBuilds(f, FALSE)
             ELSE [f EXCEPT !.pc = "create", !.todo = found])
  /\ UNCHANGED <<run, tables, build, host, keepalive, live, failures, late>>

\* addTaskToRebuild and addCompTaskToRebuild.  A statement that is repeated finds
\* the build it has stored.
CreateBuild(g, x) ==
  LET rest == fsm[g].todo \ {x} IN
  /\ At(g, "create")
  /\ x \in fsm[g].todo
  /\ build' = [build EXCEPT ![g][x] = IF @ = "none" THEN "queued" ELSE @]
  /\ Move(g, [fsm[g] EXCEPT !.todo = rest, !.pc = IF rest = {} THEN "wait" ELSE "create"])
  /\ UNCHANGED <<run, tables, host, keepalive, live, failures, late>>

\* The build is stored but the answer is lost.
CreateUnanswered(g, x) ==
  /\ At(g, "create")
  /\ x \in fsm[g].todo
  /\ failures < FailureLimit
  /\ failures' = failures + 1
  /\ build' = [build EXCEPT ![g][x] = IF @ = "none" THEN "queued" ELSE @]
  /\ Move(g, [fsm[g] EXCEPT !.check = TRUE])
  /\ UNCHANGED <<run, tables, host, keepalive, live, late>>

\* Mutant: the stage goes on as soon as its builds have been created.
BuildsAreDoneM == TRUE
\* waitForBuilds counts the unfinished builds of all stages of the migration.
BuildsAreDone == Queued = {}

WaitForBuilds(g) ==
  /\ At(g, "wait")
  /\ BuildsAreDone
  /\ Move(g, AfterBuilds(fsm[g], TRUE))
  /\ UNCHANGED <<run, tables, build, host, keepalive, live, failures, late>>

\* The builds have not finished within half an hour each.
WaitTimesOut(g) ==
  /\ At(g, "recover") \/ At(g, "wait")
  /\ Queued # {}
  /\ failures < FailureLimit
  /\ failures' = failures + 1
  /\ Move(g, AfterError(fsm[g]))
  /\ UNCHANGED <<run, tables, build, host, keepalive, live, late>>

\* Mutant: the builds of a former goroutine are left to the builders.
CancelledBuildsM(g) == {b \in Queued : b[1] = g}
\* The builds are found by the id of the migration.
CancelledBuilds(g) == Queued

AfterCancel(g) ==
  [h \in Try |-> [x \in Item |->
     IF <<h, x>> \in CancelledBuilds(g) THEN "error" ELSE build[h][x]]]

\* StageCancelling.
CancelBuilds(g) ==
  /\ At(g, "cancel")
  /\ build' = AfterCancel(g)
  /\ Move(g, Finishing(fsm[g], "cancelled"))
  /\ UNCHANGED <<run, tables, host, keepalive, live, failures, late>>

\* handleStageFinish.
HandleStageFinish(g) ==
  LET f == fsm[g] IN
  /\ At(g, "finish")
  /\ run' = [run EXCEPT !.stale = FALSE]
  /\ Move(g, IF f.goal \in {"done", "cancelled"}
             THEN [f EXCEPT !.pc = "drop"]
             ELSE [f EXCEPT !.pc = "verify", !.stage = f.goal, !.goal = "done"])
  /\ UNCHANGED <<tables, build, host, keepalive, live, failures, late>>

\* StageCleanupAfter, the first statements of handleComplete, handleCancel and handleError.
DropTables(g) ==
  /\ At(g, "drop")
  /\ tables' = FALSE
  /\ Move(g, Settling(fsm[g]))
  /\ UNCHANGED <<run, build, host, keepalive, live, failures, late>>

\* The row after the last statement of handleComplete, handleCancel and handleError,
\* which names the migration and neither its owner nor its status.
SettledAs(goal) ==
  CASE goal = "done" -> [run EXCEPT !.status = "complete", !.stage = "done"]
    [] goal = "cancelled" -> [run EXCEPT !.status = "cancelled", !.stage = "cancelled"]
    [] OTHER -> [run EXCEPT !.status = "failed"]

Settle(g) ==
  /\ At(g, "settle")
  /\ run' = SettledAs(fsm[g].goal)
  /\ Move(g, Ended)
  /\ UNCHANGED <<tables, build, host, keepalive, live, failures, late>>

(***************************************************************************)
(* Statements that do not go well.                                         *)
(***************************************************************************)
\* migrationCtx is cancelled.
ContextCancelled(g) ==
  /\ fsm[g].pc \in TakesContext
  /\ fsm[g].cancelled
  /\ ~fsm[g].check
  /\ Move(g, AfterError(fsm[g]))
  /\ UNCHANGED <<run, tables, build, host, keepalive, live, failures, late>>

\* A statement fails while the database is available.
StatementFails(g) ==
  /\ fsm[g].pc \in Statement
  /\ ~fsm[g].check
  /\ failures < FailureLimit
  /\ failures' = failures + 1
  /\ Move(g, AfterError(fsm[g]))
  /\ UNCHANGED <<run, tables, build, host, keepalive, live, late>>

\* The database is unavailable; without a cancelled context the statement is
\* repeated after 30 seconds.
DatabaseUnavailable(g) ==
  /\ fsm[g].pc \in Statement
  /\ ~fsm[g].check
  /\ failures < FailureLimit
  /\ failures' = failures + 1
  /\ Move(g, IF fsm[g].cancelled THEN AfterError(fsm[g]) ELSE [fsm[g] EXCEPT !.check = TRUE])
  /\ UNCHANGED <<run, tables, build, host, keepalive, live, late>>

\* A statement is executed and its answer is lost: for withDBRetry the database is
\* unavailable.  (CreateUnanswered is the same of a statement of createBuilds.)
AnswerLost(g) ==
  LET f == fsm[g] IN
  /\ failures < FailureLimit
  /\ failures' = failures + 1
  /\ \/ /\ At(g, "start") \/ At(g, "halt") \/ At(g, "finish") \/ At(g, "settle")
        /\ run' = CASE f.pc = "start" -> Begun(f)
                    [] f.pc = "settle" -> SettledAs(f.goal)
                    [] OTHER -> [run EXCEPT !.stale = FALSE]
        /\ UNCHANGED <<tables, build>>
     \/ /\ At(g, "cancel")
        /\ build' = AfterCancel(g)
        /\ UNCHANGED <<run, tables>>
     \/ /\ At(g, "work") \/ At(g, "drop")
        /\ tables' = (f.pc = "work" /\ (tables \/ f.stage = "starting"))
        /\ UNCHANGED <<run, build>>
  /\ Move(g, IF f.cancelled THEN AfterError(f) ELSE [f EXCEPT !.check = TRUE])
  /\ UNCHANGED <<host, keepalive, live, late>>

\* verifyOwnershipWithRetry before the repeated statement; the context may have
\* been cancelled before it or after it.
VerifyBeforeRetry(g) ==
  /\ fsm[g].pc \in Statement
  /\ fsm[g].check
  /\ \/ fsm[g].cancelled /\ Move(g, AfterError(fsm[g]))
     \/ Owns(g) /\ Move(g, [fsm[g] EXCEPT !.check = FALSE])
     \/ ~Owns(g) /\ Move(g, AfterLoss(fsm[g]))
  /\ UNCHANGED <<run, tables, build, host, keepalive, live, failures, late>>

(***************************************************************************)
(* keepaliveWhileRunning.                                                  *)
(***************************************************************************)
Expected(k) == IF k = "cancelling" THEN "cancelling" ELSE "running"

\* Mutant: the keepalive ends when it has cancelled the context.
OnCancellationM == "off"
\* The keepalive goes on until the cancellation is done.
OnCancellation == "cancelling"

\* One tick.  The row is updated, or read when the update has found nothing.
KeepAlive(g) ==
  /\ keepalive[g] # "off"
  /\ IF run.status = Expected(keepalive[g]) /\ Owns(g)
     THEN /\ run' = [run EXCEPT !.stale = FALSE]
          /\ UNCHANGED <<fsm, keepalive>>
     ELSE /\ IF Owns(g) /\ run.status = "cancelling"
             THEN /\ keepalive' = [keepalive EXCEPT ![g] = OnCancellation]
                  /\ fsm' = IF Working(g) THEN [fsm EXCEPT ![g].cancelled = TRUE] ELSE fsm
             ELSE /\ keepalive' = [keepalive EXCEPT ![g] = "off"]
                  /\ UNCHANGED fsm
          /\ UNCHANGED run
  /\ UNCHANGED <<tables, build, host, live, failures, late>>

\* The update has found nothing and the read of the row fails.
KeepAliveStops(g) ==
  /\ keepalive[g] # "off"
  /\ ~(run.status = Expected(keepalive[g]) /\ Owns(g))
  /\ failures < FailureLimit
  /\ failures' = failures + 1
  /\ late' = TRUE
  /\ keepalive' = [keepalive EXCEPT ![g] = "off"]
  /\ UNCHANGED <<run, tables, build, host, fsm, live>>

\* 120 seconds pass without an update of the row: nobody keeps it fresh, or the
\* keepalive is late; it is when its instance cannot reach the database.
BecomeStale ==
  /\ run.status \in Unfinished
  /\ ~run.stale
  /\ run' = [run EXCEPT !.stale = TRUE]
  /\ IF \A g \in Try : Owns(g) => keepalive[g] = "off"
     THEN UNCHANGED <<failures, late>>
     ELSE /\ late' = TRUE
          /\ IF \E g \in Try : Owns(g) /\ fsm[g].check
             THEN UNCHANGED failures
             ELSE failures < FailureLimit /\ failures' = failures + 1
  /\ UNCHANGED <<tables, build, host, fsm, keepalive, live>>

(***************************************************************************)
(* The other instances, the builders and the administrator.                *)
(***************************************************************************)
\* Mutant: a migration that was being cancelled is left alone.
StaleForM(i) == run.status = "running" /\ run.stale /\ run.owner # i
\* The row is selected by restartMigrations of instance i.
StaleFor(i) == run.status \in Unfinished /\ run.stale /\ run.owner # i

\* Mutant: one take-over too many.
RetriesExhaustedM == run.retries > MaxMigrationRetries
RetriesExhausted == run.retries >= MaxMigrationRetries

\* restartMigrations of instance i, every minute.
RestartMigrations(i) ==
  /\ i \in live
  /\ StaleFor(i)
  /\ IF RetriesExhausted
     THEN /\ run' = [run EXCEPT !.status = "failed"]
          /\ UNCHANGED <<host, fsm, keepalive>>
     ELSE LET g == run.retries + 1 IN
          /\ run' = [run EXCEPT !.owner = i, !.retries = g, !.stale = FALSE]
          /\ host' = [host EXCEPT ![g] = i]
          /\ Move(g, Restarted(run.stage, run.begun))
          /\ keepalive' = [keepalive EXCEPT ![g] = "on"]
  /\ UNCHANGED <<tables, build, live, failures, late>>

CancelRunningMigrations ==
  /\ run.status = "running"
  /\ run' = [run EXCEPT !.status = "cancelling"]
  /\ UNCHANGED <<tables, build, host, fsm, keepalive, live, failures, late>>

\* A builder has published the result of a build, or the build has failed.
FinishBuild(g, x) ==
  /\ build[g][x] = "queued"
  /\ \E s \in {"complete", "error"} : build' = [build EXCEPT ![g][x] = s]
  /\ UNCHANGED <<run, tables, host, fsm, keepalive, live, failures, late>>

Crash(i) ==
  /\ i \in live \ Reliable
  /\ live' = live \ {i}
  /\ fsm' = [g \in Try |-> IF fsm[g].pc # "none" /\ host[g] = i THEN Ended ELSE fsm[g]]
  /\ keepalive' = [g \in Try |-> IF host[g] = i THEN "off" ELSE keepalive[g]]
  /\ UNCHANGED <<run, tables, build, host, failures, late>>

-------------------------------------------------------------------------------
\* What a goroutine does unless a statement fails.
Step(g) ==
  \/ VerifyOwnership(g)
  \/ Halt(g)
  \/ HandleStageStart(g)
  \/ Work(g)
  \/ Recover(g)
  \/ SelectItems(g)
  \/ \E x \in Item : CreateBuild(g, x)
  \/ WaitForBuilds(g)
  \/ CancelBuilds(g)
  \/ HandleStageFinish(g)
  \/ DropTables(g)
  \/ Settle(g)
  \/ ContextCancelled(g)
  \/ VerifyBeforeRetry(g)

Failure(g) ==
  \/ \E x \in Item : CreateUnanswered(g, x)
  \/ AnswerLost(g)
  \/ WaitTimesOut(g)
  \/ StatementFails(g)
  \/ DatabaseUnavailable(g)
  \/ KeepAliveStops(g)

Next ==
  \/ \E g \in Try : Step(g) \/ Failure(g) \/ KeepAlive(g)
  \/ \E g \in Try, x \in Item : FinishBuild(g, x)
  \/ \E i \in Instance : RestartMigrations(i) \/ Crash(i)
  \/ BecomeStale
  \/ CancelRunningMigrations

Spec == Init /\ [][Next]_vars

\* Live goroutines go on, tickers tick and time passes; builders finish what is
\* queued; live instances look for stale migrations.
Fairness ==
  /\ WF_vars(\E g \in Try : Step(g))
  /\ WF_vars(\E g \in Try : KeepAlive(g))
  /\ WF_vars(\E g \in Try, x \in Item : FinishBuild(g, x))
  /\ WF_vars(\E i \in Instance : RestartMigrations(i))
  /\ WF_vars(BecomeStale)

FairSpec == Spec /\ Fairness

(***************************************************************************)
(* Properties.                                                             *)
(***************************************************************************)
TypeOK ==
  /\ run \in Run
  /\ tables \in BOOLEAN
  /\ build \in [Try -> [Item -> BuildStatus]]
  /\ host \in [Try -> Instance]
  /\ fsm \in [Try -> Fsm]
  /\ keepalive \in [Try -> {"off", "on", "cancelling"}]
  /\ live \subseteq Instance
  /\ failures \in 0 .. FailureLimit
  /\ late \in BOOLEAN

\* What no failure disturbs: the last goroutine runs on the owner's instance, and an
\* unfinished migration is at a stage where it can be taken over.
Bookkeeping ==
  /\ run.status \in Unfinished => run.stage \in Stage
  /\ host[run.retries] = run.owner
  /\ \A g \in Try :
       /\ g > run.retries => fsm[g].pc = "none" /\ keepalive[g] = "off"
       /\ fsm[g].pc = "finish" => fsm[g].goal # "failed"
       /\ keepalive[g] = "cancelling" => run.status # "running"

\* The answer to the last statement of goroutine g has been lost: the migration is
\* settled, and g repeats the statement, or reports the failure of it.
Unheard(g) ==
  LET f == fsm[g] IN
  /\ failures > 0 /\ g = run.retries /\ run.status \in Settled
  /\ \/ f.pc = "abandoned"
     \/ f.pc \in {"drop", "settle"} /\ f.goal \notin {"done", "cancelled"}
     \/ f.pc = "settle" /\ f.goal = "done" /\ run.status = "complete" /\ run.stage = "done"
     \/ /\ f.pc = "settle" /\ f.goal = "cancelled"
        /\ run.status = "cancelled" /\ run.stage = "cancelled"

\* While nothing is late, only the last goroutine works, its keepalive runs, and the
\* migration is not settled as far as it has heard; so a stale row that is not settled
\* has nobody who works on it.
LastOneWorks ==
  ~late =>
    /\ run.stale => keepalive[run.retries] = "off"
    /\ \A g \in Try :
         /\ keepalive[g] # "off" => g = run.retries
         /\ fsm[g].pc \notin {"none", "end"} =>
              (keepalive[g] # "off" /\ run.status \in Unfinished) \/ Unheard(g)

\* The stages in their order; the two sequences of stages need not be told apart.
Rank == [starting |-> 0, cleanup_before |-> 1,
         independent_versions_last |-> 2, dependent_versions_last |-> 3,
         independent_versions_old |-> 4, dependent_versions_old |-> 5,
         rebuild_relaxed_builds |-> 6, dashboard_versions |-> 7,
         comparisons_other |-> 8, comparisons_only |-> 8,
         ts_recalculate |-> 9, post_check |-> 10, cancelling |-> 11]

BuiltBefore(s) == \A x \in Item : Built(x) => Rank[StageOf[x]] < Rank[s]

\* How far the builds are when goroutine g is at a statement of a stage: those of
\* the stages before are done, and those of the stage itself are left out when its
\* query does not do so.
InOrder(g) ==
  LET f == fsm[g] IN
  /\ f.pc \in {"work", "recover", "select", "create", "wait"} => run.stage = f.stage
  /\ f.pc = "work" => f.stage \notin BuildStage \cup {"cancelling"}
  /\ f.pc \in {"verify", "start"} =>
       IF f.restartStage = f.stage THEN run.stage = f.stage
       ELSE BuiltBefore(f.stage) /\ (f.stage # "cancelling" => Queued = {})
  /\ f.restartStage # "none" => Rank[f.restartStage] <= Rank[f.stage]
  /\ f.restartStage = "cancelling" =>
       f.stage = "cancelling" /\ (f.pc \notin {"drop", "settle"} => run.stage = "cancelling")
  /\ f.pc \in {"recover", "select"} /\ f.restartStage # f.stage /\ f.stage \notin LeavesOutBuilt =>
       \A x \in Item : StageOf[x] = f.stage => ~Built(x)
  /\ f.pc = "select" => Queued = {}
  /\ f.pc = "create" => \A x \in f.todo :
       StageOf[x] = f.stage /\ \A h \in Try : h # g => build[h][x] = "none"
  /\ f.pc = "finish" /\ f.goal # "cancelling" => Queued = {}
  /\ f.pc = "finish" /\ f.goal \in Stage =>
       /\ BuiltBefore(f.goal) /\ Rank[f.stage] <= Rank[f.goal]
       /\ f.restartStage \in {f.goal, "cancelling"} => f.goal = "cancelling"
  /\ f.pc \in {"drop", "settle"} /\ f.goal # "failed" => Queued = {}

StagesInOrder ==
  ~late =>
    /\ run.status \in Unfinished =>
         \A x \in Item : Built(x) => Rank[StageOf[x]] <= Rank[run.stage]
    /\ \A g \in Try : Working(g) => InOrder(g)

\* Each version and comparison is rebuilt once, though the goroutine that created
\* its build crashed in the middle of a stage or lost an answer.
RebuiltOnce ==
  ~late => \A x \in Item, g, h \in Try :
    build[g][x] # "none" /\ build[h][x] # "none" => g = h

\* No stage begins before the builds of the stages before it are done, those of a
\* former goroutine included: dependent versions rely on what they depend on.
StagesDoNotOverlap ==
  ~late /\ run.status \in Unfinished =>
    \A b \in Queued : run.stage \in {StageOf[b[2]], "cancelling"}

\* A migration that is complete or cancelled leaves no build in the queue, where it
\* would go on changing versions without the temporary tables.
SettledHasNoBuilds ==
  ~late /\ run.status \in {"complete", "cancelled"} => Queued = {}

\* The inductive invariant of the proofs: the three properties above with what the
\* control of the goroutines, the row and the builds promise to each other.
MigrationInvariant ==
  /\ TypeOK
  /\ Bookkeeping
  /\ LastOneWorks
  /\ StagesInOrder
  /\ RebuiltOnce
  /\ StagesDoNotOverlap
  /\ SettledHasNoBuilds

\* What had to be complete for x was so in the stage of x or before it.
Position == [independent_versions_last |-> 1, dependent_versions_last |-> 2,
             independent_versions_old |-> 3, dependent_versions_old |-> 4,
             rebuild_relaxed_builds |-> 5, dashboard_versions |-> 6,
             comparisons_other |-> 7, comparisons_only |-> 1]
WasReady(x) == StageOf[x] \in AsksForNeeds =>
  \A s \in Needs[x] : \E y \in s :
    Complete(y) /\ Position[StageOf[y]] <= Position[StageOf[x]]

\* A complete migration has a build for each item whose turn has come, whatever
\* crash fell between the query of a stage and its last build.
NothingIsForgotten ==
  ~late /\ run.status = "complete" =>
    \A x \in Item :
      ((run.changelogOnly <=> StageOf[x] = "comparisons_only") /\ WasReady(x)) => Built(x)

\* What NothingIsForgotten rests on: an item that is due is not left behind.
Due(x) == run.changelogOnly <=> StageOf[x] = "comparisons_only"
Remembered(x) == Due(x) /\ WasReady(x) => Built(x)

OnRoute(s) ==
  IF run.changelogOnly
    THEN s \in {"starting", "comparisons_only", "post_check", "done", "cancelling", "cancelled"}
    ELSE s # "comparisons_only"

NothingLeftBefore(s) ==
  \A x \in Item : s = "done" \/ Rank[StageOf[x]] < Rank[s] => Remembered(x)

\* The items of a stage that the relaxed stage rebuilds first, or that it has come to.
Part(f) == {x \in Item : /\ StageOf[x] = f.stage
                         /\ f.stage = "rebuild_relaxed_builds" /\ ~f.comparisons =>
                              x \notin Comparison}

\* A goroutine passes a stage when all that was ready in it is built; a stage in
\* rounds asks again.
LeavesNothing(g) ==
  LET f == fsm[g] IN
  /\ OnRoute(f.stage)
  /\ f.pc \in {"verify", "start"} /\ f.stage # "cancelling" => NothingLeftBefore(f.stage)
  /\ f.pc \in {"recover", "select", "create", "wait"} /\ f.comparisons =>
       \A x \in Item \ Comparison : StageOf[x] = "rebuild_relaxed_builds" => Remembered(x)
  /\ f.pc \in {"create", "wait"} /\ f.stage \notin InRounds =>
       \A x \in Part(f) : Remembered(x) \/ (f.pc = "create" /\ x \in f.todo)
  /\ f.pc = "finish" => OnRoute(f.goal)
  /\ f.pc = "finish" /\ f.goal \notin {"cancelling", "cancelled"} => NothingLeftBefore(f.goal)
  /\ f.pc \in {"drop", "settle"} /\ f.goal = "done" => NothingLeftBefore("done")

NothingIsLeftBehind ==
  ~late =>
    /\ run.status \in Unfinished =>
         /\ OnRoute(run.stage)
         /\ run.stage # "cancelling" => NothingLeftBefore(run.stage)
    /\ \A g \in Try : Working(g) => LeavesNothing(g)
    /\ NothingIsForgotten

\* Once a migration is settled nobody takes it over, begins a stage of it or settles it
\* otherwise, but for one thing: a goroutine that has lost the answer to its last
\* update may report that as the failure of the migration (handleError).
SettledStaysSettled ==
  [][~late /\ run.status \in Settled =>
       \/ run' = run
       \/ failures > 0 /\ run' = [run EXCEPT !.status = "failed"]]_vars

\* Every migration ends; a goroutine that cannot even store its failure leaves a
\* migration that its keepalive keeps from being taken over.
EveryMigrationEnds ==
  run.status \in Unfinished ~>
    \/ run.status \in Settled
    \/ \E g \in Try : fsm[g].pc = "abandoned"
===============================================================================
