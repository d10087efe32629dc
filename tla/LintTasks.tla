------------------------------ MODULE LintTasks ------------------------------
(***************************************************************************)
(* The two task queues of the API linter (backend/api-linter-service): a   *)
(* version task is split into one document task per document and linter,   *)
(* and is completed when all of these have finished.  Both queues are      *)
(* tables that every replica polls; a row whose last_active is older than  *)
(* 30 seconds may be taken over.                                           *)
(*                                                                         *)
(* An executor is one start of one replica: its id is drawn at start-up,   *)
(* so a restarted replica is another executor.  Each transaction is one    *)
(* action; statements that run outside of a transaction are actions of     *)
(* their own, with what they read kept in the state of the goroutine.      *)
(* Time is the flag `stale` of a row: last_active is too old.              *)
(***************************************************************************)
EXTENDS Naturals, FiniteSets

CONSTANTS
  VersionTask,   \* the version lint tasks that may be created
  Document,      \* pairs of a document and a linter
  Selection,     \* the sets of pairs the linter selection may yield for a version
  Unusable,      \* the sets of pairs that may have no suitable ruleset
  Optional,      \* the pairs whose linter is optional
  Version,       \* the published versions (package, version and revision)
  VersionOf,     \* the version of each task
  Executor,      \* starts of linter replicas
  Thread,        \* goroutines that process version tasks
  Worker,        \* goroutines that process document tasks
  ExecutorOf,    \* the executor of each thread and worker
  NoExecutor,    \* the empty executor id
  NoTask,        \* no task
  Outcome,       \* what linting a document ends with
  MaxBatch,      \* bound: how often the documents of one task are saved
  FailureLimit,  \* bound: failed queries and requests, reopened document tasks
  Reliable,      \* the executors that do not crash
  Punctual       \* no step of a live goroutine takes 30 seconds

ASSUME LintAssumption ==
  /\ Optional \subseteq Document
  /\ Unusable \subseteq SUBSET Document
  /\ Selection \subseteq SUBSET Document
  /\ VersionOf \in [VersionTask -> Version]
  /\ ExecutorOf \in [Thread \cup Worker -> Executor]
  /\ Thread \cap Executor = {}
  /\ NoExecutor \notin Executor \cup Worker
  /\ NoTask \notin VersionTask
  /\ Outcome \subseteq {"success", "error"}
  /\ MaxBatch \in Nat
  /\ FailureLimit \in Nat
  /\ Reliable \subseteq Executor
  /\ Punctual \in BOOLEAN

\* RestartCount >= 2 gives a task up.
MaxRestarts == 2

\* The rows of document_lint_task: the documents of each batch a version task
\* has saved.
DocTask == VersionTask \X (1 .. MaxBatch) \X Document

VARIABLES
  version,    \* version_lint_task
  doc,        \* document_lint_task
  batches,    \* how many batches of document tasks each version task has
  linted,     \* linted_version.lint_status of each version
  thread,     \* the threads that run processVersionLintTask
  checker,    \* the checkDocReady goroutine of each executor
  retry,      \* the IncRestartCount calls of threads and checkers
  worker,     \* the workers that run processDocTask
  beat,       \* the keepalive of each worker, between its read and its write
  live,       \* the executors that are running
  selected,   \* the documents and linters of each task, which do not change
  failures,   \* failed queries and requests, and document tasks opened again, so far
  everDone    \* history: document tasks that have been finished at some time

rows == <<version, doc, batches, linted>>
vars == <<rows, thread, checker, retry, worker, beat, live, failures, selected, everDone>>

Finished == {"success", "error"}
DocStatus == {"none", "not_started", "processing"} \cup Finished
VersionStatus == DocStatus \cup {"waiting_for_docs"}

VersionRow == [status: VersionStatus, executor: Executor \cup {NoExecutor},
               restarts: Nat, stale: BOOLEAN]
DocRow == [status: DocStatus, executor: Worker \cup {NoExecutor},
           restarts: Nat, stale: BOOLEAN]

DocsOf(t) == {d \in DocTask : d[1] = t /\ doc[d].status # "none"}

\* What a thread remembers: its task, and the restart count it has read.
Idle == [pc |-> "idle", task |-> NoTask, restarts |-> 0]
\* What a checker remembers: the waiting tasks it has read and has not dealt
\* with yet, and its verdict on each.
Verdict == {"unknown", "not_ready", "success", "error"}
Resting == [pc |-> "rest", tasks |-> {}, verdict |-> [t \in VersionTask |-> "unknown"],
            restarts |-> [t \in VersionTask |-> 0]]
NoRow == [status |-> "none", executor |-> NoExecutor, restarts |-> 0, stale |-> FALSE]
NoRetry == [pc |-> "none", task |-> NoTask, row |-> NoRow]
\* What a worker remembers: the document task it has been given, and the
\* executor id in it.
Waiting == [pc |-> "idle", task |-> NoTask, executor |-> NoExecutor]
NoBeat == [task |-> NoTask, executor |-> NoExecutor]

Caller == Thread \cup Executor
CallerIsLive(p) == IF p \in Thread THEN ExecutorOf[p] \in live ELSE p \in live

Init ==
  /\ version = [t \in VersionTask |-> NoRow]
  /\ doc = [d \in DocTask |-> NoRow]
  /\ batches = [t \in VersionTask |-> 0]
  /\ linted = [v \in Version |-> "none"]
  /\ thread = [h \in Thread |-> Idle]
  /\ checker = [e \in Executor |-> Resting]
  /\ retry = [p \in Caller |-> NoRetry]
  /\ worker = [w \in Worker |-> Waiting]
  /\ beat = [w \in Worker |-> NoBeat]
  /\ live = Executor
  /\ failures = 0
  /\ selected \in [VersionTask -> Selection]
  /\ everDone = {}

(***************************************************************************)
(* Creation.  The unique event_id keeps a second replica that receives the *)
(* same publication event from inserting a second task.                    *)
(***************************************************************************)
ValidateVersion(t) ==
  /\ live # {}
  /\ version[t].status = "none"
  /\ version' = [version EXCEPT ![t] = [@ EXCEPT !.status = "not_started"]]
  /\ UNCHANGED <<doc, batches, linted, thread, checker, retry, worker, beat, live,
                 failures, selected, everDone>>

(***************************************************************************)
(* acquireFreeTasks and processVersionLintTask.                            *)
(***************************************************************************)
\* Mutant: the tasks of a crashed replica are not taken over.
FreeVersionTaskM(t) == version[t].status = "not_started"

FreeVersionTask(t) ==
  \/ version[t].status = "not_started"
  \/ version[t].status \in {"processing", "waiting_for_docs"} /\ version[t].stale

\* One transaction of the loop of FindFreeVersionTask that finds a candidate.  A
\* task that waits for documents is bound to this executor and marked as
\* processing, but not processed: the loop goes on.
FindFreeVersionTask(h, t) ==
  LET row == version[t]
      waits == row.status = "waiting_for_docs"
      exhausted == ~waits /\ row.restarts >= MaxRestarts
      taken == ~waits /\ ~exhausted
  IN
  /\ ExecutorOf[h] \in live
  /\ thread[h].pc = "idle" /\ retry[h].pc = "none"
  /\ FreeVersionTask(t)
  /\ version' = [version EXCEPT ![t] =
       [status   |-> IF exhausted THEN "error" ELSE "processing",
        executor |-> IF exhausted THEN @.executor ELSE ExecutorOf[h],
        restarts |-> IF taken /\ row.status = "processing" THEN @.restarts + 1
                                                           ELSE @.restarts,
        stale    |-> FALSE]]
  /\ thread' = IF taken
               THEN [thread EXCEPT ![h] = [pc |-> "taken", task |-> t, restarts |-> 0]]
               ELSE thread
  /\ UNCHANGED <<doc, batches, linted, checker, retry, worker, beat, live, failures, selected, everDone>>

\* The task is read again, and dropped when it is bound to another executor by now.
GetTaskById(h) ==
  LET row == version[thread[h].task] IN
  /\ ExecutorOf[h] \in live
  /\ thread[h].pc = "taken"
  /\ thread' = [thread EXCEPT ![h] =
       IF row.executor = ExecutorOf[h]
       THEN [pc |-> "documents", task |-> thread[h].task, restarts |-> row.restarts]
       ELSE Idle]
  /\ UNCHANGED <<rows, checker, retry, worker, beat, live, failures, selected, everDone>>

\* The documents are saved as tasks, those without a usable ruleset as failed ones;
\* the version task waits for them, or is failed when all of them are.
SaveDocTasksAndUpdVer(h, unusable) ==
  LET t == thread[h].task
      batch == batches[t] + 1
      saved == {t} \X {batch} \X selected[t]
  IN
  /\ ExecutorOf[h] \in live
  /\ thread[h].pc = "documents"
  /\ selected[t] # {}
  /\ batches[t] < MaxBatch
  /\ batches' = [batches EXCEPT ![t] = batch]
  /\ doc' = [d \in DocTask |->
       IF d \notin saved THEN doc[d]
       ELSE [NoRow EXCEPT !.status = IF d[3] \in unusable THEN "error" ELSE "not_started"]]
  /\ version' = [version EXCEPT ![t] = [@ EXCEPT
       !.status = IF selected[t] \subseteq unusable THEN "error" ELSE "waiting_for_docs",
       !.stale = FALSE]]
  /\ everDone' = everDone \cup {d \in saved : d[3] \in unusable}
  /\ thread' = [thread EXCEPT ![h] = Idle]
  /\ UNCHANGED <<linted, checker, retry, worker, beat, live, failures, selected>>

\* VersionLintCompleted: by id only, whatever the row says by now.
Complete(t, status) ==
  /\ version' = [version EXCEPT ![t] = [@ EXCEPT !.status = "success", !.stale = FALSE]]
  /\ linted' = [linted EXCEPT ![VersionOf[t]] = status]

\* Mutant: a version is complete when no document has a usable ruleset.
CompleteWithoutDocumentsM(h) ==
  /\ ExecutorOf[h] \in live
  /\ thread[h].pc = "documents"
  /\ \E unusable \in Unusable : selected[thread[h].task] \subseteq unusable
  /\ Complete(thread[h].task, "success")
  /\ thread' = [thread EXCEPT ![h] = Idle]
  /\ UNCHANGED <<doc, batches, checker, retry, worker, beat, live, failures, selected, everDone>>

\* No document has a linter.
CompleteWithoutDocuments(h) ==
  /\ ExecutorOf[h] \in live
  /\ thread[h].pc = "documents"
  /\ selected[thread[h].task] = {}
  /\ Complete(thread[h].task, "success")
  /\ thread' = [thread EXCEPT ![h] = Idle]
  /\ UNCHANGED <<doc, batches, checker, retry, worker, beat, live, failures, selected, everDone>>

\* handleProcessingFailed.  With no restart left, VersionLintFailed updates the task,
\* looks for the linted version of an empty package id, finds none, and returns that
\* error to its transaction, which is rolled back: nothing changes.
HandleProcessingFailed(p, t, restarts) ==
  retry' = IF restarts >= MaxRestarts
           THEN retry
           ELSE [retry EXCEPT ![p] = [pc |-> "read", task |-> t, row |-> NoRow]]

\* The task cannot be read, or its documents, their linters or the transaction
\* fail, or its documents cannot be had.
ProcessingFails(h) ==
  /\ ExecutorOf[h] \in live
  /\ thread[h].pc # "idle"
  /\ failures < FailureLimit
  /\ failures' = failures + 1
  /\ IF thread[h].pc = "taken"
     THEN UNCHANGED retry
     ELSE HandleProcessingFailed(h, thread[h].task, thread[h].restarts)
  /\ thread' = [thread EXCEPT ![h] = Idle]
  /\ UNCHANGED <<rows, checker, worker, beat, live, selected, everDone>>

\* IncRestartCount reads the row and writes all of its columns back, in a
\* transaction that does not lock it in between.
IncRestartCountRead(p) ==
  /\ CallerIsLive(p)
  /\ retry[p].pc = "read"
  /\ retry' = [retry EXCEPT ![p] =
                 [pc |-> "write", task |-> retry[p].task, row |-> version[retry[p].task]]]
  /\ UNCHANGED <<rows, thread, checker, worker, beat, live, failures, selected, everDone>>

IncRestartCountWrite(p) ==
  /\ CallerIsLive(p)
  /\ retry[p].pc = "write"
  /\ version' = [version EXCEPT ![retry[p].task] =
                   [retry[p].row EXCEPT !.restarts = @ + 1]]
  /\ retry' = [retry EXCEPT ![p] = NoRetry]
  /\ UNCHANGED <<doc, batches, linted, thread, checker, worker, beat, live, failures, selected, everDone>>

(***************************************************************************)
(* checkDocReady: the waiting tasks are read, whoever they are bound to,   *)
(* then their document tasks, and then each of them is dealt with.         *)
(***************************************************************************)
\* Mutant: the tasks that are being processed are read as well.
GetWaitingForDocTasksM(e) ==
  LET waiting == {t \in VersionTask : version[t].status \in {"processing", "waiting_for_docs"}} IN
  /\ e \in live
  /\ checker[e].pc = "rest" /\ retry[e].pc = "none"
  /\ waiting # {}
  /\ checker' = [checker EXCEPT ![e] =
       [pc |-> "documents", tasks |-> waiting, verdict |-> Resting.verdict,
        restarts |-> [t \in VersionTask |->
                        IF t \in waiting THEN version[t].restarts ELSE 0]]]
  /\ UNCHANGED <<rows, thread, retry, worker, beat, live, failures, selected, everDone>>

GetWaitingForDocTasks(e) ==
  LET waiting == {t \in VersionTask : version[t].status = "waiting_for_docs"} IN
  /\ e \in live
  /\ checker[e].pc = "rest" /\ retry[e].pc = "none"
  /\ waiting # {}
  /\ checker' = [checker EXCEPT ![e] =
       [pc |-> "documents", tasks |-> waiting, verdict |-> Resting.verdict,
        restarts |-> [t \in VersionTask |->
                        IF t \in waiting THEN version[t].restarts ELSE 0]]]
  /\ UNCHANGED <<rows, thread, retry, worker, beat, live, failures, selected, everDone>>

\* Mutant: a document that is being linted does not hold its version back.
DocVerdictM(t) ==
  LET failed == {d \in DocsOf(t) : doc[d].status = "error" /\ d[3] \notin Optional} IN
  IF \E d \in DocsOf(t) : doc[d].status = "not_started" THEN "not_ready"
  ELSE IF failed = {} THEN "success"
  ELSE "error"

DocVerdict(t) ==
  LET failed == {d \in DocsOf(t) : doc[d].status = "error" /\ d[3] \notin Optional} IN
  IF \E d \in DocsOf(t) : doc[d].status \notin Finished THEN "not_ready"
  ELSE IF failed = {} THEN "success"
  ELSE "error"

GetDocTasksForVersionTasks(e) ==
  /\ e \in live
  /\ checker[e].pc = "documents"
  /\ checker' = [checker EXCEPT ![e] = [@ EXCEPT !.pc = "verdicts",
       !.verdict = [t \in VersionTask |->
                      IF t \in checker[e].tasks THEN DocVerdict(t) ELSE "unknown"]]]
  /\ UNCHANGED <<rows, thread, retry, worker, beat, live, failures, selected, everDone>>

\* The checker has dealt with a task; after the last one it rests until the next tick.
Dealt(e, t) ==
  checker' = [checker EXCEPT ![e] =
    IF @.tasks = {t} THEN Resting
    ELSE [pc |-> @.pc, tasks |-> @.tasks \ {t},
          verdict |-> [@.verdict EXCEPT ![t] = "unknown"],
          restarts |-> [@.restarts EXCEPT ![t] = 0]]]

DealsWith(e, t) ==
  /\ e \in live
  /\ checker[e].pc = "verdicts" /\ retry[e].pc = "none"
  /\ t \in checker[e].tasks

\* UpdateLastActive refreshes the task if it is bound to this executor.
UpdateLastActive(e, t) ==
  /\ DealsWith(e, t)
  /\ checker[e].verdict[t] = "not_ready"
  /\ version' = [version EXCEPT ![t] = [@ EXCEPT !.stale = version[t].stale /\ version[t].executor # e]]
  /\ Dealt(e, t)
  /\ UNCHANGED <<doc, batches, linted, thread, retry, worker, beat, live, failures, selected, everDone>>

CompleteWithDocuments(e, t) ==
  /\ DealsWith(e, t)
  /\ checker[e].verdict[t] \in Finished
  /\ linted[VersionOf[t]] # "none"
  /\ Complete(t, checker[e].verdict[t])
  /\ Dealt(e, t)
  /\ UNCHANGED <<doc, batches, thread, retry, worker, beat, live, failures, selected, everDone>>

\* No document has stored a result, so that there is no linted version: the
\* goroutine ends with a nil dereference.
CheckerPanics(e, t) ==
  /\ DealsWith(e, t)
  /\ checker[e].verdict[t] \in Finished
  /\ linted[VersionOf[t]] = "none"
  /\ checker' = [checker EXCEPT ![e] = [Resting EXCEPT !.pc = "dead"]]
  /\ UNCHANGED <<rows, thread, retry, worker, beat, live, failures, selected, everDone>>

\* A query of the checker fails.  When it is the one of the linted version, which
\* answers "no row" to any error, the goroutine ends as well.
CheckerFails(e) ==
  /\ e \in live
  /\ failures < FailureLimit
  /\ failures' = failures + 1
  /\ \/ /\ checker[e].pc = "documents"
        /\ checker' = [checker EXCEPT ![e] = Resting]
        /\ UNCHANGED retry
     \/ \E t \in VersionTask :
          /\ DealsWith(e, t)
          /\ \/ /\ checker[e].verdict[t] = "not_ready"
                /\ Dealt(e, t)
                /\ UNCHANGED retry
             \/ /\ checker[e].verdict[t] \in Finished
                /\ checker' = [checker EXCEPT ![e] = [Resting EXCEPT !.pc = "dead"]]
                /\ UNCHANGED retry
             \/ /\ checker[e].verdict[t] \in Finished
                /\ linted[VersionOf[t]] # "none"
                /\ Dealt(e, t)
                /\ HandleProcessingFailed(e, t, checker[e].restarts[t])
  /\ UNCHANGED <<rows, thread, worker, beat, live, selected, everDone>>

(***************************************************************************)
(* The document workers.                                                   *)
(***************************************************************************)
\* Mutant: the documents of a crashed replica are not taken over.
FreeDocTaskM(d) == doc[d].status = "not_started"

\* Mutant: a document task is taken over without waiting for the keepalive timeout.
FreeDocTaskAtOnceM(d) == doc[d].status \in {"not_started", "processing"}

FreeDocTask(d) ==
  \/ doc[d].status = "not_started"
  \/ doc[d].status = "processing" /\ doc[d].stale

\* One transaction of the loop of FindFreeDocTask that finds a candidate.  An
\* exhausted one is failed and the loop goes on, but `result` still points at it.
FindFreeDocTask(w, d) ==
  LET exhausted == doc[d].restarts >= MaxRestarts IN
  /\ ExecutorOf[w] \in live
  /\ worker[w].pc \in {"idle", "leftover"}
  /\ FreeDocTask(d)
  /\ doc' = [doc EXCEPT ![d] =
       [status   |-> IF exhausted THEN "error" ELSE "processing",
        executor |-> IF exhausted THEN @.executor ELSE w,
        restarts |-> IF ~exhausted /\ @.status = "processing" THEN @.restarts + 1
                                                              ELSE @.restarts,
        stale    |-> FALSE]]
  /\ worker' = [worker EXCEPT ![w] =
       [pc |-> IF exhausted THEN "leftover" ELSE "linting",
        task |-> d, executor |-> IF exhausted THEN doc[d].executor ELSE w]]
  /\ everDone' = IF exhausted THEN everDone \cup {d} ELSE everDone
  /\ UNCHANGED <<version, batches, linted, thread, checker, retry, beat, live, failures, selected>>

\* The loop finds no candidate any more: it returns the task it has failed last, and
\* the worker lints it under the executor id that is in it.
ReturnLeftover(w) ==
  /\ ExecutorOf[w] \in live
  /\ worker[w].pc = "leftover"
  /\ ~ \E d \in DocTask : FreeDocTask(d)
  /\ worker' = [worker EXCEPT ![w] = [@ EXCEPT !.pc = "linting"]]
  /\ UNCHANGED <<rows, thread, checker, retry, beat, live, failures, selected, everDone>>

\* SetDocTaskStatus, every five seconds while the worker lints: it reads the row
\* outside of its transaction,
KeepaliveRead(w) ==
  LET d == worker[w].task IN
  /\ ExecutorOf[w] \in live
  /\ worker[w].pc = "linting" /\ beat[w] = NoBeat
  /\ doc[d].status \notin Finished /\ doc[d].executor = worker[w].executor
  /\ beat' = [beat EXCEPT ![w] = [task |-> d, executor |-> worker[w].executor]]
  /\ UNCHANGED <<rows, thread, checker, retry, worker, live, failures, selected, everDone>>

\* and then updates it if the executor is still the same: a row that has been finished
\* in between is opened again.
KeepaliveWrite(w) ==
  LET d == beat[w].task
      owned == doc[d].executor = beat[w].executor
      reopens == owned /\ doc[d].status \in Finished
  IN
  /\ ExecutorOf[w] \in live
  /\ beat[w] # NoBeat
  /\ reopens => failures < FailureLimit
  /\ failures' = IF reopens THEN failures + 1 ELSE failures
  /\ doc' = IF owned THEN [doc EXCEPT ![d] = [@ EXCEPT !.status = "processing", !.stale = FALSE]]
                     ELSE doc
  /\ beat' = [beat EXCEPT ![w] = NoBeat]
  /\ UNCHANGED <<version, batches, linted, thread, checker, retry, worker, live, selected, everDone>>

\* The update fails, which is logged and nothing else.
KeepaliveFails(w) ==
  /\ ExecutorOf[w] \in live
  /\ beat[w] # NoBeat
  /\ beat' = [beat EXCEPT ![w] = NoBeat]
  /\ UNCHANGED <<rows, thread, checker, retry, worker, live, failures, selected, everDone>>

\* SaveLintResult: the executor must be the one the worker has, the status is not
\* looked at.  When it is another one, handleError tries once more to no avail.
SaveLintResult(w, status) ==
  LET d == worker[w].task
      owned == doc[d].executor = worker[w].executor
  IN
  /\ ExecutorOf[w] \in live
  /\ worker[w].pc = "linting"
  /\ doc' = IF owned THEN [doc EXCEPT ![d] = [@ EXCEPT !.status = status, !.stale = FALSE]] ELSE doc
  /\ linted' = IF owned THEN [linted EXCEPT ![VersionOf[d[1]]] = "in_progress"] ELSE linted
  /\ everDone' = IF owned THEN everDone \cup {d} ELSE everDone
  /\ worker' = [worker EXCEPT ![w] = Waiting]
  /\ UNCHANGED <<version, batches, thread, checker, retry, beat, live, failures, selected>>

\* Both SaveLintResult and that of handleError fail.
SaveFails(w) ==
  /\ ExecutorOf[w] \in live
  /\ worker[w].pc = "linting"
  /\ failures < FailureLimit
  /\ failures' = failures + 1
  /\ worker' = [worker EXCEPT ![w] = Waiting]
  /\ UNCHANGED <<rows, thread, checker, retry, beat, live, selected, everDone>>

(***************************************************************************)
(* Time and crashes.                                                       *)
(***************************************************************************)
\* Someone deals with the version task, or refreshes it while it waits.
Attended(t) ==
  \/ \E h \in Thread : ExecutorOf[h] \in live /\ thread[h].task = t
  \/ \E p \in Caller : CallerIsLive(p) /\ retry[p].task = t
  \/ \E e \in live : t \in checker[e].tasks
  \/ /\ version[t].status = "waiting_for_docs"
     /\ version[t].executor \in live
     /\ checker[version[t].executor].pc # "dead"

VersionTaskExpires(t) ==
  /\ version[t].status \in {"processing", "waiting_for_docs"} /\ ~version[t].stale
  /\ Punctual => ~Attended(t)
  /\ version' = [version EXCEPT ![t] = [@ EXCEPT !.stale = TRUE]]
  /\ UNCHANGED <<doc, batches, linted, thread, checker, retry, worker, beat, live, failures,
                 selected, everDone>>

DocTaskExpires(d) ==
  /\ doc[d].status = "processing" /\ ~doc[d].stale
  /\ Punctual => ~ \E w \in Worker :
       ExecutorOf[w] \in live /\ d \in {worker[w].task, beat[w].task}
  /\ doc' = [doc EXCEPT ![d] = [@ EXCEPT !.stale = TRUE]]
  /\ UNCHANGED <<version, batches, linted, thread, checker, retry, worker, beat, live, failures,
                 selected, everDone>>

\* The replica ends, and what its goroutines remember is lost.
Crash(e) ==
  /\ e \in live \ Reliable
  /\ live' = live \ {e}
  /\ thread' = [h \in Thread |-> IF ExecutorOf[h] = e THEN Idle ELSE thread[h]]
  /\ checker' = [checker EXCEPT ![e] = Resting]
  /\ retry' = [p \in Caller |-> IF p = e \/ (p \in Thread /\ ExecutorOf[p] = e)
                               THEN NoRetry ELSE retry[p]]
  /\ worker' = [w \in Worker |-> IF ExecutorOf[w] = e THEN Waiting ELSE worker[w]]
  /\ beat' = [w \in Worker |-> IF ExecutorOf[w] = e THEN NoBeat ELSE beat[w]]
  /\ UNCHANGED <<rows, failures, selected, everDone>>

ThreadStep(h) ==
  \/ GetTaskById(h)
  \/ \E unusable \in Unusable : SaveDocTasksAndUpdVer(h, unusable)
  \/ CompleteWithoutDocuments(h)

CheckerStep(e) ==
  \/ GetWaitingForDocTasks(e)
  \/ GetDocTasksForVersionTasks(e)
  \/ \E t \in VersionTask :
       UpdateLastActive(e, t) \/ CompleteWithDocuments(e, t) \/ CheckerPanics(e, t)

RetryStep(p) == IncRestartCountRead(p) \/ IncRestartCountWrite(p)

KeepaliveEnds(w) == KeepaliveWrite(w) \/ KeepaliveFails(w)

SaveStep(w) == ReturnLeftover(w) \/ \E status \in Outcome : SaveLintResult(w, status)

Fault ==
  \/ \E h \in Thread : ProcessingFails(h)
  \/ \E e \in Executor : CheckerFails(e)
  \/ \E w \in Worker : SaveFails(w)
  \/ \E e \in Executor : Crash(e)

Next ==
  \/ \E t \in VersionTask : ValidateVersion(t) \/ VersionTaskExpires(t)
  \/ \E h \in Thread, t \in VersionTask : FindFreeVersionTask(h, t)
  \/ \E h \in Thread : ThreadStep(h)
  \/ \E p \in Caller : RetryStep(p)
  \/ \E e \in Executor : CheckerStep(e)
  \/ \E d \in DocTask : DocTaskExpires(d)
  \/ \E w \in Worker, d \in DocTask : FindFreeDocTask(w, d)
  \/ \E w \in Worker : SaveStep(w) \/ KeepaliveRead(w) \/ KeepaliveEnds(w)
  \/ Fault

Spec == Init /\ [][Next]_vars

(***************************************************************************)
(* Fairness: the tickers of a live executor fire every five seconds, its   *)
(* goroutines run on, and time passes.  Creation, keepalives, failures and *)
(* crashes need not happen.                                                *)
(***************************************************************************)
Fairness ==
  /\ \A t \in VersionTask : WF_vars(VersionTaskExpires(t))
  /\ \A d \in DocTask : WF_vars(DocTaskExpires(d))
  /\ \A h \in Thread :
       WF_vars(ThreadStep(h) \/ RetryStep(h) \/ \E t \in VersionTask : FindFreeVersionTask(h, t))
  /\ \A e \in Executor : WF_vars(CheckerStep(e) \/ RetryStep(e))
  /\ \A w \in Worker :
       /\ WF_vars(SaveStep(w) \/ \E d \in DocTask : FindFreeDocTask(w, d))
       /\ WF_vars(KeepaliveEnds(w))

FairSpec == Spec /\ Fairness

-----------------------------------------------------------------------------
ThreadType ==
  [Thread -> [pc: {"idle", "taken", "documents"}, task: VersionTask \cup {NoTask},
              restarts: Nat]]
CheckerType ==
  [Executor -> [pc: {"rest", "documents", "verdicts", "dead"}, tasks: SUBSET VersionTask,
                verdict: [VersionTask -> Verdict], restarts: [VersionTask -> Nat]]]
RetryType ==
  [Caller -> [pc: {"none", "read", "write"}, task: VersionTask \cup {NoTask},
              row: VersionRow]]
WorkerType ==
  [Worker -> [pc: {"idle", "leftover", "linting"}, task: DocTask \cup {NoTask},
              executor: Worker \cup {NoExecutor}]]
BeatType == [Worker -> [task: DocTask \cup {NoTask}, executor: Worker \cup {NoExecutor}]]

\* Type correctness.
TypeOK ==
  /\ version \in [VersionTask -> VersionRow]
  /\ doc \in [DocTask -> DocRow]
  /\ batches \in [VersionTask -> 0 .. MaxBatch]
  /\ linted \in [Version -> {"none", "in_progress"} \cup Finished]
  /\ thread \in ThreadType
  /\ checker \in CheckerType
  /\ retry \in RetryType
  /\ worker \in WorkerType
  /\ beat \in BeatType
  /\ live \in SUBSET Executor
  /\ selected \in [VersionTask -> Selection]
  /\ failures \in 0 .. FailureLimit
  /\ everDone \in SUBSET DocTask

\* Every document task of the first batch of t has been finished at some time.
FirstBatchDone(t) ==
  /\ batches[t] > 0
  /\ \A d \in DocsOf(t) : d[2] = 1 => d \in everDone

Justified(t) == selected[t] = {} \/ FirstBatchDone(t)

\* A version task is never reported as completed before its documents have been
\* linted: whatever is overtaken, delayed or written back late, each document task of
\* its first batch has been finished before (VersionLintCompleted goes by the id only,
\* and relies on the order in which checkDocReady reads tasks and documents).
SuccessIsJustified ==
  \A t \in VersionTask : version[t].status = "success" => Justified(t)

(***************************************************************************)
(* What makes SuccessIsJustified inductive.                                *)
(***************************************************************************)
\* Who is at work knows at what.
WorkIsKnown ==
  /\ \A h \in Thread : thread[h].pc # "idle" => thread[h].task \in VersionTask
  /\ \A p \in Caller : retry[p].pc # "none" => retry[p].task \in VersionTask
  /\ \A w \in Worker : worker[w].pc # "idle" =>
       worker[w].task \in DocTask /\ doc[worker[w].task].status # "none"
  /\ \A w \in Worker : beat[w] # NoBeat =>
       beat[w].task \in DocTask /\ doc[beat[w].task].status # "none"

\* Document tasks belong to a batch that has been saved, and a finished one is remembered.
DocTasksAreSaved ==
  \A d \in DocTask :
    /\ doc[d].status # "none" => d[2] <= batches[d[1]]
    /\ doc[d].status \in Finished => d \in everDone

\* A task that waits for documents, in the table or in someone's memory, has some.
WaitingHasDocuments ==
  /\ \A t \in VersionTask : version[t].status = "waiting_for_docs" => batches[t] > 0
  /\ \A p \in Caller :
       retry[p].pc = "write" /\ retry[p].row.status = "waiting_for_docs"
         => batches[retry[p].task] > 0
  /\ \A e \in Executor : \A t \in checker[e].tasks : batches[t] > 0

\* A verdict, and a completed row that IncRestartCount will write back, are justified.
MemoryIsJustified ==
  /\ \A e \in Executor, t \in VersionTask :
       checker[e].verdict[t] \in Finished => FirstBatchDone(t)
  /\ \A p \in Caller :
       retry[p].pc = "write" /\ retry[p].row.status = "success" => Justified(retry[p].task)

\* The inductive invariant.
LintInvariant ==
  /\ TypeOK
  /\ WorkIsKnown
  /\ DocTasksAreSaved
  /\ WaitingHasDocuments
  /\ MemoryIsJustified
  /\ SuccessIsJustified

(***************************************************************************)
(* When nothing is late.                                                   *)
(***************************************************************************)
\* Every document task of t, of whatever batch, has been finished at some time.
DocsLinted(t) == DocsOf(t) \subseteq everDone

\* A goroutine has the version task in hand.
InHand(t) ==
  \/ \E h \in Thread : thread[h].task = t
  \/ \E p \in Caller : retry[p].task = t
  \/ \E e \in Executor : t \in checker[e].tasks

\* A replica that has crashed remembers nothing.
MemoryIsLive ==
  /\ \A h \in Thread : thread[h].task # NoTask => ExecutorOf[h] \in live
  /\ \A p \in Caller : retry[p].task # NoTask => CallerIsLive(p)
  /\ \A e \in Executor : checker[e].tasks # {} => e \in live
  /\ \A w \in Worker : worker[w].pc # "idle" \/ beat[w] # NoBeat => ExecutorOf[w] \in live

\* Nobody else may take over a version task that someone has in hand, be it for the
\* row that IncRestartCount writes back.
NotToBeTaken(row) ==
  /\ row.status \notin {"none", "not_started"}
  /\ row.status = "processing" => ~row.stale

InHandIsNotTaken ==
  /\ \A t \in VersionTask : InHand(t) => NotToBeTaken(version[t])
  /\ \A p \in Caller : retry[p].pc = "write" => NotToBeTaken(retry[p].row)

\* A thread shares its version task with nobody.
ThreadsAreAlone ==
  \A h \in Thread, t \in VersionTask : thread[h].task = t =>
    /\ version[t].status = "processing"
    /\ \A g \in Thread \ {h} : thread[g].task # t
    /\ \A p \in Caller : retry[p].task # t
    /\ \A e \in Executor : t \notin checker[e].tasks

\* The document task is that of a live worker.
HeldBy(d, w) ==
  doc[d].status = "processing" /\ doc[d].executor = w /\ ~doc[d].stale

\* A worker holds the document task it lints, unless that is finished; and the one
\* its keepalive is about to refresh, unless it has just finished that, and then nobody
\* lints it.
WorkersHoldOn ==
  /\ \A w \in Worker : worker[w].pc # "idle" =>
       \/ doc[worker[w].task].status \in Finished
       \/ worker[w].pc = "linting" /\ worker[w].executor = w /\ HeldBy(worker[w].task, w)
  /\ \A w \in Worker : beat[w] # NoBeat =>
       LET d == beat[w].task IN
       /\ beat[w].executor = w
       /\ \/ HeldBy(d, w)
          \/ /\ doc[d].status \in Finished /\ doc[d].executor = w
             /\ \A u \in Worker : worker[u].pc # "idle" => worker[u].task # d

\* The documents of a completed task, of one with a verdict, and of one that will be
\* written back as completed have been finished.
LintedForGood ==
  /\ \A d \in DocTask : doc[d].status # "none" => d[3] \in selected[d[1]]
  /\ \A e \in Executor, t \in VersionTask :
       checker[e].verdict[t] # "unknown" => t \in checker[e].tasks
  /\ \A e \in Executor, t \in VersionTask :
       checker[e].verdict[t] \in Finished => DocsLinted(t)
  /\ \A p \in Caller :
       retry[p].pc = "write" /\ retry[p].row.status = "success" => DocsLinted(retry[p].task)
  /\ \A t \in VersionTask : version[t].status = "success" => DocsLinted(t)

\* With every live goroutine faster than the keepalive timeout: what keeps version and
\* document tasks with whoever works on them, and SuccessMeansLinted inductive.
PunctualInvariant ==
  MemoryIsLive /\ InHandIsNotTaken /\ ThreadsAreAlone /\ WorkersHoldOn /\ LintedForGood

\* With every live goroutine faster than the keepalive timeout, a version task is
\* completed only when each of its document tasks has been finished, although crashed
\* replicas, failed queries and repeated batches leave several generations of them
\* behind.  One that is unfinished afterwards has been opened again by the keepalive of
\* the worker that finished it (SetDocTaskStatus).
SuccessMeansLinted ==
  \A t \in VersionTask : version[t].status = "success" => DocsOf(t) \subseteq everDone

\* Each version task is completed or given up for good, although a replica crashes, a
\* query fails, or the goroutine that checks for finished documents dies.
EveryVersionTaskFinishes ==
  \A t \in VersionTask : <>[](version[t].status \in Finished \cup {"none"})

\* Unless a query fails or a keepalive opens a finished document task again, a version
\* that is shown as being linted gets its result: no crash of a replica leaves it in
\* progress.
InProgressEnds ==
  \A v \in Version :
    (failures = 0 /\ linted[v] = "in_progress") ~> (failures > 0 \/ linted[v] \in Finished)
=============================================================================
