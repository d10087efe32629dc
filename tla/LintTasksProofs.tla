-------------------------- MODULE LintTasksProofs --------------------------
(***************************************************************************)
(* Type correctness of LintTasks, and that a version task is completed     *)
(* only after its documents have been linted, for any number of tasks,     *)
(* documents, replicas and workers, and without any assumption on delays.  *)
(***************************************************************************)
EXTENDS LintTasks, TLAPS

-----------------------------------------------------------------------------
(***************************************************************************)
(* Type correctness, one lemma per action.                                 *)
(***************************************************************************)
LEMMA TypeInit == Init => TypeOK
<1> SUFFICES ASSUME Init PROVE TypeOK
  OBVIOUS
<1> QED
  BY LintAssumption DEF Init, TypeOK, ThreadType, CheckerType, RetryType, WorkerType, BeatType,
     VersionRow, DocRow, VersionStatus, DocStatus, Finished, Verdict, Idle, Resting, NoRow,
     NoRetry, Waiting, NoBeat

LEMMA StatusUpdate ==
  ASSUME NEW r \in VersionRow, NEW s \in VersionStatus, NEW b \in BOOLEAN
  PROVE  [r EXCEPT !.status = s, !.stale = b] \in VersionRow
BY DEF VersionRow

LEMMA StaleUpdate ==
  ASSUME NEW r \in VersionRow, NEW b \in BOOLEAN
  PROVE  [r EXCEPT !.stale = b] \in VersionRow
BY DEF VersionRow

LEMMA RestartsUpdate ==
  ASSUME NEW r \in VersionRow
  PROVE  [r EXCEPT !.restarts = @ + 1] \in VersionRow
BY DEF VersionRow

LEMMA DocRowUpdates ==
  ASSUME NEW r \in DocRow, NEW s \in DocStatus, NEW b \in BOOLEAN
  PROVE  [r EXCEPT !.status = s, !.stale = b] \in DocRow
BY DEF DocRow

LEMMA NoRowIsRow == NoRow \in VersionRow /\ NoRow \in DocRow
BY DEF NoRow, VersionRow, DocRow, VersionStatus, DocStatus

LEMMA RestingIsChecker ==
  Resting \in [pc: {"rest", "documents", "verdicts", "dead"}, tasks: SUBSET VersionTask,
               verdict: [VersionTask -> Verdict], restarts: [VersionTask -> Nat]]
BY DEF Resting, Verdict

LEMMA DealtType ==
  ASSUME TypeOK, NEW e \in Executor, NEW t \in VersionTask, Dealt(e, t)
  PROVE  checker' \in CheckerType
<1>1. [checker[e].verdict EXCEPT ![t] = "unknown"] \in [VersionTask -> Verdict]
  BY DEF TypeOK, CheckerType, Verdict
<1>2. [checker[e].restarts EXCEPT ![t] = 0] \in [VersionTask -> Nat]
  BY DEF TypeOK, CheckerType
<1> QED
  BY <1>1, <1>2, RestingIsChecker DEF Dealt, TypeOK, CheckerType

LEMMA TypeValidateVersion ==
  ASSUME TypeOK, WorkIsKnown, NEW t0 \in VersionTask, ValidateVersion(t0)
  PROVE  TypeOK'
<1>1. version' \in [VersionTask -> VersionRow]
  <2>1. version[t0] \in VersionRow
    BY DEF TypeOK
  <2>2. [version[t0] EXCEPT !.status = "not_started"] \in VersionRow
    BY <2>1 DEF VersionRow, VersionStatus, DocStatus
  <2> QED
    BY <2>2 DEF ValidateVersion, TypeOK
<1> QED
  BY <1>1 DEF ValidateVersion, TypeOK, rows

LEMMA TypeVersionTaskExpires ==
  ASSUME TypeOK, WorkIsKnown, NEW t0 \in VersionTask, VersionTaskExpires(t0)
  PROVE  TypeOK'
<1>1. version' \in [VersionTask -> VersionRow]
  <2>1. version[t0] \in VersionRow
    BY DEF TypeOK
  <2>2. [version[t0] EXCEPT !.stale = TRUE] \in VersionRow
    BY <2>1, StaleUpdate
  <2> QED
    BY <2>2 DEF VersionTaskExpires, TypeOK
<1> QED
  BY <1>1 DEF VersionTaskExpires, TypeOK, rows

LEMMA TypeFindFreeVersionTask ==
  ASSUME TypeOK, WorkIsKnown, NEW h \in Thread, NEW t0 \in VersionTask, FindFreeVersionTask(h, t0)
  PROVE  TypeOK'
<1>1. version' \in [VersionTask -> VersionRow]
  BY LintAssumption DEF FindFreeVersionTask, FreeVersionTask, TypeOK, WorkIsKnown, VersionRow, VersionStatus, DocStatus, Finished
<1>2. thread' \in ThreadType
  BY LintAssumption DEF FindFreeVersionTask, FreeVersionTask, TypeOK, WorkIsKnown, Idle, ThreadType
<1> QED
  BY <1>1, <1>2 DEF FindFreeVersionTask, TypeOK, rows

LEMMA TypeGetTaskById ==
  ASSUME TypeOK, WorkIsKnown, NEW h \in Thread, GetTaskById(h)
  PROVE  TypeOK'
<1>1. thread' \in ThreadType
  <2> DEFINE t == thread[h].task
  <2>1. thread[h].task \in VersionTask
    BY DEF GetTaskById, WorkIsKnown
  <2>2. version[thread[h].task].restarts \in Nat
    BY <2>1 DEF TypeOK, VersionRow
  <2> QED
    BY <2>1, <2>2 DEF GetTaskById, TypeOK, ThreadType, Idle
<1> QED
  BY <1>1 DEF GetTaskById, TypeOK, rows

LEMMA TypeSaveDocTasksAndUpdVer ==
  ASSUME TypeOK, WorkIsKnown, NEW h \in Thread, NEW u \in Unusable, SaveDocTasksAndUpdVer(h, u)
  PROVE  TypeOK'
<1>1. doc' \in [DocTask -> DocRow]
  BY LintAssumption DEF SaveDocTasksAndUpdVer, NoRow, TypeOK, WorkIsKnown, DocRow, DocStatus, Finished
<1>2. batches' \in [VersionTask -> 0 .. MaxBatch]
  BY LintAssumption DEF SaveDocTasksAndUpdVer, NoRow, TypeOK, WorkIsKnown
<1>3. version' \in [VersionTask -> VersionRow]
  <2> DEFINE t == thread[h].task
             s == IF selected[t] \subseteq u THEN "error" ELSE "waiting_for_docs"
  <2>1. t \in VersionTask
    BY DEF SaveDocTasksAndUpdVer, WorkIsKnown
  <2>2. version[t] \in VersionRow /\ s \in VersionStatus
    BY <2>1 DEF TypeOK, VersionStatus, DocStatus, Finished
  <2>3. version' = [version EXCEPT ![t] = [@ EXCEPT !.status = s, !.stale = FALSE]]
    BY DEF SaveDocTasksAndUpdVer
  <2> HIDE DEF t, s
  <2>4. [version[t] EXCEPT !.status = s, !.stale = FALSE] \in VersionRow
    BY <2>2, StatusUpdate
  <2> QED
    BY <2>1, <2>3, <2>4 DEF TypeOK
<1>4. everDone' \in SUBSET DocTask
  <2>1. thread[h].task \in VersionTask /\ batches[thread[h].task] \in 0 .. MaxBatch
    BY DEF SaveDocTasksAndUpdVer, WorkIsKnown, TypeOK
  <2>2. batches[thread[h].task] + 1 \in 1 .. MaxBatch
    BY <2>1, LintAssumption DEF SaveDocTasksAndUpdVer
  <2>3. selected[thread[h].task] \subseteq Document
    BY <2>1, LintAssumption DEF TypeOK
  <2>4. {thread[h].task} \X {batches[thread[h].task] + 1} \X selected[thread[h].task]
          \subseteq DocTask
    BY <2>1, <2>2, <2>3 DEF DocTask
  <2> QED
    BY <2>4 DEF SaveDocTasksAndUpdVer, TypeOK
<1>5. thread' \in ThreadType
  BY LintAssumption DEF SaveDocTasksAndUpdVer, NoRow, TypeOK, WorkIsKnown, Idle, ThreadType
<1> QED
  BY <1>1, <1>2, <1>3, <1>4, <1>5 DEF SaveDocTasksAndUpdVer, TypeOK, rows

LEMMA TypeCompleteWithoutDocuments ==
  ASSUME TypeOK, WorkIsKnown, NEW h \in Thread, CompleteWithoutDocuments(h)
  PROVE  TypeOK'
<1>1. version' \in [VersionTask -> VersionRow]
  <2> DEFINE t == thread[h].task
  <2>1. t \in VersionTask
    BY DEF CompleteWithoutDocuments, WorkIsKnown
  <2>2. version[t] \in VersionRow
    BY <2>1 DEF TypeOK
  <2>3. [version[t] EXCEPT !.status = "success", !.stale = FALSE] \in VersionRow
    BY <2>2, StatusUpdate DEF VersionStatus, DocStatus, Finished
  <2> QED
    BY <2>1, <2>3 DEF CompleteWithoutDocuments, Complete, TypeOK
<1>2. linted' \in [Version -> {"none", "in_progress"} \cup Finished]
  BY LintAssumption DEF CompleteWithoutDocuments, Complete, TypeOK, WorkIsKnown, Finished
<1>3. thread' \in ThreadType
  BY LintAssumption DEF CompleteWithoutDocuments, Complete, TypeOK, WorkIsKnown, Idle, ThreadType
<1> QED
  BY <1>1, <1>2, <1>3 DEF CompleteWithoutDocuments, TypeOK, rows

LEMMA TypeProcessingFails ==
  ASSUME TypeOK, WorkIsKnown, NEW h \in Thread, ProcessingFails(h)
  PROVE  TypeOK'
<1>1. failures' \in 0 .. FailureLimit
  BY LintAssumption DEF ProcessingFails, HandleProcessingFailed, TypeOK, WorkIsKnown
<1>2. retry' \in RetryType
  <2>1. thread[h].task \in VersionTask
    BY DEF ProcessingFails, WorkIsKnown
  <2>2. NoRow \in VersionRow
    BY NoRowIsRow
  <2>3. [pc |-> "read", task |-> thread[h].task, row |-> NoRow]
          \in [pc: {"none", "read", "write"}, task: VersionTask \cup {NoTask}, row: VersionRow]
    BY <2>1, <2>2
  <2> QED
    BY <2>3 DEF ProcessingFails, HandleProcessingFailed, TypeOK, RetryType, Caller
<1>3. thread' \in ThreadType
  BY LintAssumption DEF ProcessingFails, HandleProcessingFailed, TypeOK, WorkIsKnown, Idle, ThreadType
<1> QED
  BY <1>1, <1>2, <1>3 DEF ProcessingFails, TypeOK, rows

LEMMA TypeIncRestartCountRead ==
  ASSUME TypeOK, WorkIsKnown, NEW p0 \in Caller, IncRestartCountRead(p0)
  PROVE  TypeOK'
<1>1. retry' \in RetryType
  BY LintAssumption DEF IncRestartCountRead, TypeOK, WorkIsKnown, VersionRow, VersionStatus, DocStatus, Finished, NoRow, NoRetry, Caller, RetryType
<1> QED
  BY <1>1 DEF IncRestartCountRead, TypeOK, rows

LEMMA TypeIncRestartCountWrite ==
  ASSUME TypeOK, WorkIsKnown, NEW p0 \in Caller, IncRestartCountWrite(p0)
  PROVE  TypeOK'
<1>1. version' \in [VersionTask -> VersionRow]
  <2>1. retry[p0].task \in VersionTask /\ retry[p0].row \in VersionRow
    BY DEF IncRestartCountWrite, WorkIsKnown, TypeOK, RetryType
  <2>2. [retry[p0].row EXCEPT !.restarts = @ + 1] \in VersionRow
    BY <2>1, RestartsUpdate
  <2> QED
    BY <2>1, <2>2 DEF IncRestartCountWrite, TypeOK
<1>2. retry' \in RetryType
  BY LintAssumption DEF IncRestartCountWrite, TypeOK, WorkIsKnown, VersionRow, VersionStatus, DocStatus, Finished, NoRow, NoRetry, Caller, RetryType
<1> QED
  BY <1>1, <1>2 DEF IncRestartCountWrite, TypeOK, rows

LEMMA TypeGetWaitingForDocTasks ==
  ASSUME TypeOK, WorkIsKnown, NEW e0 \in Executor, GetWaitingForDocTasks(e0)
  PROVE  TypeOK'
<1>1. checker' \in CheckerType
  <2> DEFINE waiting == {t \in VersionTask : version[t].status = "waiting_for_docs"}
             counts == [t \in VersionTask |->
                          IF t \in waiting THEN version[t].restarts ELSE 0]
             verdicts == Resting.verdict
  <2>1. counts \in [VersionTask -> Nat]
    BY DEF TypeOK, VersionRow
  <2>2. waiting \in SUBSET VersionTask /\ verdicts \in [VersionTask -> Verdict]
    BY RestingIsChecker
  <2>3. checker' = [checker EXCEPT ![e0] =
          [pc |-> "documents", tasks |-> waiting, verdict |-> verdicts, restarts |-> counts]]
    BY DEF GetWaitingForDocTasks
  <2> HIDE DEF waiting, counts, verdicts
  <2> QED
    BY <2>1, <2>2, <2>3 DEF TypeOK, CheckerType
<1> QED
  BY <1>1 DEF GetWaitingForDocTasks, TypeOK, rows

LEMMA TypeGetDocTasksForVersionTasks ==
  ASSUME TypeOK, WorkIsKnown, NEW e0 \in Executor, GetDocTasksForVersionTasks(e0)
  PROVE  TypeOK'
<1>1. checker' \in CheckerType
  <2> DEFINE verdicts == [t \in VersionTask |->
                            IF t \in checker[e0].tasks THEN DocVerdict(t) ELSE "unknown"]
  <2>1. verdicts \in [VersionTask -> Verdict]
    BY DEF DocVerdict, Verdict
  <2> DEFINE new == [checker[e0] EXCEPT !.pc = "verdicts", !.verdict = verdicts]
  <2>2. checker' = [checker EXCEPT ![e0] = new]
    BY DEF GetDocTasksForVersionTasks
  <2> HIDE DEF verdicts
  <2>3. new \in [pc: {"rest", "documents", "verdicts", "dead"}, tasks: SUBSET VersionTask,
                 verdict: [VersionTask -> Verdict], restarts: [VersionTask -> Nat]]
    BY <2>1 DEF TypeOK, CheckerType
  <2> HIDE DEF new
  <2> QED
    BY <2>2, <2>3 DEF TypeOK, CheckerType
<1> QED
  BY <1>1 DEF GetDocTasksForVersionTasks, TypeOK, rows

LEMMA TypeUpdateLastActive ==
  ASSUME TypeOK, WorkIsKnown, NEW e0 \in Executor, NEW t0 \in VersionTask, UpdateLastActive(e0, t0)
  PROVE  TypeOK'
<1>1. version' \in [VersionTask -> VersionRow]
  <2> DEFINE late == version[t0].stale /\ version[t0].executor # e0
  <2>1. version[t0] \in VersionRow
    BY DEF TypeOK
  <2>2. late \in BOOLEAN
    BY <2>1 DEF VersionRow
  <2>3. [version[t0] EXCEPT !.stale = late] \in VersionRow
    BY <2>1, <2>2, StaleUpdate
  <2>4. version' = [version EXCEPT ![t0] = [version[t0] EXCEPT !.stale = late]]
    BY DEF UpdateLastActive
  <2> HIDE DEF late
  <2> QED
    BY <2>3, <2>4 DEF TypeOK
<1>2. checker' \in CheckerType
  BY DealtType DEF UpdateLastActive
<1> QED
  BY <1>1, <1>2 DEF UpdateLastActive, TypeOK, rows

LEMMA TypeCompleteWithDocuments ==
  ASSUME TypeOK, WorkIsKnown, NEW e0 \in Executor, NEW t0 \in VersionTask, CompleteWithDocuments(e0, t0)
  PROVE  TypeOK'
<1>1. version' \in [VersionTask -> VersionRow]
  <2>1. version[t0] \in VersionRow
    BY DEF TypeOK
  <2>2. [version[t0] EXCEPT !.status = "success", !.stale = FALSE] \in VersionRow
    BY <2>1, StatusUpdate DEF VersionStatus, DocStatus, Finished
  <2> QED
    BY <2>2 DEF CompleteWithDocuments, Complete, TypeOK
<1>2. linted' \in [Version -> {"none", "in_progress"} \cup Finished]
  BY LintAssumption DEF CompleteWithDocuments, Complete, Dealt, DealsWith, TypeOK, WorkIsKnown, Finished
<1>3. checker' \in CheckerType
  BY DealtType DEF CompleteWithDocuments
<1> QED
  BY <1>1, <1>2, <1>3 DEF CompleteWithDocuments, TypeOK, rows

LEMMA TypeCheckerPanics ==
  ASSUME TypeOK, WorkIsKnown, NEW e0 \in Executor, NEW t0 \in VersionTask, CheckerPanics(e0, t0)
  PROVE  TypeOK'
<1>1. checker' \in CheckerType
  BY LintAssumption DEF CheckerPanics, DealsWith, TypeOK, WorkIsKnown, Verdict, Finished, Resting, CheckerType
<1> QED
  BY <1>1 DEF CheckerPanics, TypeOK, rows

LEMMA TypeCheckerFails ==
  ASSUME TypeOK, WorkIsKnown, NEW e0 \in Executor, CheckerFails(e0)
  PROVE  TypeOK'
<1>1. failures' \in 0 .. FailureLimit
  <2>1. failures' = failures + 1 /\ failures < FailureLimit
    BY DEF CheckerFails
  <2> QED
    BY <2>1, LintAssumption DEF TypeOK
<1>2. checker' \in CheckerType
  <2>1. \/ checker' = [checker EXCEPT ![e0] = Resting]
        \/ checker' = [checker EXCEPT ![e0] = [Resting EXCEPT !.pc = "dead"]]
        \/ \E t \in VersionTask : Dealt(e0, t)
    BY DEF CheckerFails
  <2>2. [Resting EXCEPT !.pc = "dead"]
          \in [pc: {"rest", "documents", "verdicts", "dead"}, tasks: SUBSET VersionTask,
              verdict: [VersionTask -> Verdict], restarts: [VersionTask -> Nat]]
    BY RestingIsChecker
  <2> QED
    BY <2>1, <2>2, DealtType, RestingIsChecker DEF TypeOK, CheckerType
<1>3. retry' \in RetryType
  <2>1. \/ UNCHANGED retry
        \/ \E t \in VersionTask :
             retry' = [retry EXCEPT ![e0] = [pc |-> "read", task |-> t, row |-> NoRow]]
    BY DEF CheckerFails, HandleProcessingFailed
  <2> QED
    BY <2>1, NoRowIsRow DEF TypeOK, RetryType, Caller
<1> QED
  BY <1>1, <1>2, <1>3 DEF CheckerFails, TypeOK, rows

LEMMA TypeDocTaskExpires ==
  ASSUME TypeOK, WorkIsKnown, NEW d0 \in DocTask, DocTaskExpires(d0)
  PROVE  TypeOK'
<1>1. doc' \in [DocTask -> DocRow]
  <2>1. doc[d0] \in DocRow
    BY DEF TypeOK
  <2>2. [doc[d0] EXCEPT !.stale = TRUE] \in DocRow
    BY <2>1 DEF DocRow
  <2> QED
    BY <2>2 DEF DocTaskExpires, TypeOK
<1> QED
  BY <1>1 DEF DocTaskExpires, TypeOK, rows

LEMMA TypeFindFreeDocTask ==
  ASSUME TypeOK, WorkIsKnown, NEW w0 \in Worker, NEW d0 \in DocTask, FindFreeDocTask(w0, d0)
  PROVE  TypeOK'
<1>1. doc' \in [DocTask -> DocRow]
  BY LintAssumption DEF FindFreeDocTask, FreeDocTask, TypeOK, WorkIsKnown, DocRow, DocStatus, Finished
<1>2. worker' \in WorkerType
  <2>1. doc[d0].executor \in Worker \cup {NoExecutor}
    BY DEF TypeOK, DocRow
  <2> QED
    BY <2>1 DEF FindFreeDocTask, TypeOK, WorkerType
<1>3. everDone' \in SUBSET DocTask
  BY LintAssumption DEF FindFreeDocTask, FreeDocTask, TypeOK, WorkIsKnown
<1> QED
  BY <1>1, <1>2, <1>3 DEF FindFreeDocTask, TypeOK, rows

LEMMA TypeReturnLeftover ==
  ASSUME TypeOK, WorkIsKnown, NEW w0 \in Worker, ReturnLeftover(w0)
  PROVE  TypeOK'
<1>1. worker' \in WorkerType
  BY LintAssumption DEF ReturnLeftover, TypeOK, WorkIsKnown, Waiting, WorkerType
<1> QED
  BY <1>1 DEF ReturnLeftover, TypeOK, rows

LEMMA TypeSaveLintResult ==
  ASSUME TypeOK, WorkIsKnown, NEW w0 \in Worker, NEW st \in Finished, SaveLintResult(w0, st)
  PROVE  TypeOK'
<1>1. doc' \in [DocTask -> DocRow]
  <2>1. worker[w0].task \in DocTask
    BY DEF SaveLintResult, WorkIsKnown
  <2>2. [doc[worker[w0].task] EXCEPT !.status = st, !.stale = FALSE] \in DocRow
    BY <2>1, DocRowUpdates DEF TypeOK, DocStatus
  <2> QED
    BY <2>1, <2>2 DEF SaveLintResult, TypeOK
<1>2. linted' \in [Version -> {"none", "in_progress"} \cup Finished]
  BY LintAssumption DEF SaveLintResult, TypeOK, WorkIsKnown, Finished
<1>3. everDone' \in SUBSET DocTask
  BY LintAssumption DEF SaveLintResult, TypeOK, WorkIsKnown
<1>4. worker' \in WorkerType
  BY LintAssumption DEF SaveLintResult, TypeOK, WorkIsKnown, Waiting, WorkerType
<1> QED
  BY <1>1, <1>2, <1>3, <1>4 DEF SaveLintResult, TypeOK, rows

LEMMA TypeSaveFails ==
  ASSUME TypeOK, WorkIsKnown, NEW w0 \in Worker, SaveFails(w0)
  PROVE  TypeOK'
<1>1. failures' \in 0 .. FailureLimit
  BY LintAssumption DEF SaveFails, TypeOK, WorkIsKnown
<1>2. worker' \in WorkerType
  BY LintAssumption DEF SaveFails, TypeOK, WorkIsKnown, Waiting, WorkerType
<1> QED
  BY <1>1, <1>2 DEF SaveFails, TypeOK, rows

LEMMA TypeKeepaliveRead ==
  ASSUME TypeOK, WorkIsKnown, NEW w0 \in Worker, KeepaliveRead(w0)
  PROVE  TypeOK'
<1>1. beat' \in BeatType
  <2>1. worker[w0].task \in DocTask /\ worker[w0].executor \in Worker \cup {NoExecutor}
    BY DEF KeepaliveRead, WorkIsKnown, TypeOK, WorkerType
  <2> QED
    BY <2>1 DEF KeepaliveRead, TypeOK, BeatType
<1> QED
  BY <1>1 DEF KeepaliveRead, TypeOK, rows

LEMMA TypeKeepaliveWrite ==
  ASSUME TypeOK, WorkIsKnown, NEW w0 \in Worker, KeepaliveWrite(w0)
  PROVE  TypeOK'
<1>1. doc' \in [DocTask -> DocRow]
  <2>1. beat[w0].task \in DocTask
    BY DEF KeepaliveWrite, WorkIsKnown
  <2>2. [doc[beat[w0].task] EXCEPT !.status = "processing", !.stale = FALSE] \in DocRow
    BY <2>1, DocRowUpdates DEF TypeOK, DocStatus
  <2> QED
    BY <2>1, <2>2 DEF KeepaliveWrite, TypeOK
<1>2. beat' \in BeatType
  BY LintAssumption DEF KeepaliveWrite, TypeOK, WorkIsKnown, NoBeat, BeatType
<1>3. failures' \in 0 .. FailureLimit
  <2>1. failures' = failures \/ (failures' = failures + 1 /\ failures < FailureLimit)
    BY DEF KeepaliveWrite
  <2> QED
    BY <2>1, LintAssumption DEF TypeOK
<1> QED
  BY <1>1, <1>2, <1>3 DEF KeepaliveWrite, TypeOK, rows

LEMMA TypeKeepaliveFails ==
  ASSUME TypeOK, NEW w0 \in Worker, KeepaliveFails(w0)
  PROVE  TypeOK'
<1>1. beat' \in BeatType
  BY DEF KeepaliveFails, TypeOK, NoBeat, BeatType
<1> QED
  BY <1>1 DEF KeepaliveFails, TypeOK, rows

LEMMA TypeCrash ==
  ASSUME TypeOK, WorkIsKnown, NEW e0 \in Executor, Crash(e0)
  PROVE  TypeOK'
<1>1. live' \in SUBSET Executor
  BY LintAssumption DEF Crash, TypeOK, WorkIsKnown
<1>2. thread' \in ThreadType
  BY DEF Crash, TypeOK, ThreadType, Idle
<1>3. checker' \in CheckerType
  BY DEF Crash, TypeOK, CheckerType, Resting, Verdict
<1>4. retry' \in RetryType
  BY DEF Crash, TypeOK, RetryType, NoRetry, NoRow, VersionRow, VersionStatus, DocStatus
<1>5. worker' \in WorkerType
  BY DEF Crash, TypeOK, WorkerType, Waiting
<1>6. beat' \in BeatType
  BY DEF Crash, TypeOK, BeatType, NoBeat
<1> QED
  BY <1>1, <1>2, <1>3, <1>4, <1>5, <1>6 DEF Crash, TypeOK, rows

-----------------------------------------------------------------------------
(***************************************************************************)
(* The invariant, one lemma per action.  What is justified stays so: the   *)
(* documents of a first batch are all saved at once, and are remembered    *)
(* when they are finished.                                                 *)
(***************************************************************************)
StaysJustified ==
  /\ \A t \in VersionTask : FirstBatchDone(t) => FirstBatchDone(t)'
  /\ \A t \in VersionTask : Justified(t) => Justified(t)'
  /\ \A t \in VersionTask : batches[t] > 0 => batches'[t] > 0

LEMMA Stays ==
  ASSUME TypeOK, UNCHANGED <<batches, selected>>,
         everDone \subseteq everDone',
         \A d \in DocTask : doc'[d].status # "none" => doc[d].status # "none"
  PROVE  StaysJustified
BY DEF StaysJustified, Justified, FirstBatchDone, DocsOf


\* A failing checker forgets tasks and verdicts, and learns none.
LEMMA CheckerForgets ==
  ASSUME LintInvariant, NEW e0 \in Executor, CheckerFails(e0)
  PROVE  \A e \in Executor :
           /\ checker'[e].tasks \subseteq checker[e].tasks
           /\ \A t \in VersionTask : checker'[e].verdict[t] \in Finished
                                       => checker'[e].verdict[t] = checker[e].verdict[t]
<1>1. \/ checker' = [checker EXCEPT ![e0] = Resting]
      \/ checker' = [checker EXCEPT ![e0] = [Resting EXCEPT !.pc = "dead"]]
      \/ \E t \in VersionTask : Dealt(e0, t)
  BY DEF CheckerFails
<1>2. /\ Resting.tasks = {} /\ [Resting EXCEPT !.pc = "dead"].tasks = {}
      /\ \A t \in VersionTask : /\ Resting.verdict[t] \notin Finished
                                /\ [Resting EXCEPT !.pc = "dead"].verdict[t] \notin Finished
  BY DEF Resting, Finished
<1>3. CASE \/ checker' = [checker EXCEPT ![e0] = Resting]
           \/ checker' = [checker EXCEPT ![e0] = [Resting EXCEPT !.pc = "dead"]]
  BY <1>2, <1>3 DEF LintInvariant, TypeOK, CheckerType
<1>4. ASSUME NEW t \in VersionTask, Dealt(e0, t)
      PROVE  \A e \in Executor :
               /\ checker'[e].tasks \subseteq checker[e].tasks
               /\ \A t2 \in VersionTask : checker'[e].verdict[t2] \in Finished
                                            => checker'[e].verdict[t2] = checker[e].verdict[t2]
  BY <1>2, <1>4 DEF LintInvariant, TypeOK, CheckerType, Dealt, Finished
<1> QED
  BY <1>1, <1>3, <1>4

LEMMA InvValidateVersion ==
  ASSUME LintInvariant, TypeOK', NEW t0 \in VersionTask, ValidateVersion(t0)
  PROVE  LintInvariant'
<1>1. StaysJustified
  BY Stays DEF LintInvariant, TypeOK, DocRow, rows, ValidateVersion
<1>2. WorkIsKnown'
  BY DEF ValidateVersion, LintInvariant, TypeOK, WorkIsKnown, rows
<1>3. DocTasksAreSaved'
  BY DEF ValidateVersion, LintInvariant, TypeOK, DocTasksAreSaved, rows, WorkIsKnown
<1>4. WaitingHasDocuments'
  BY <1>1 DEF ValidateVersion, LintInvariant, TypeOK, WaitingHasDocuments, rows, StaysJustified, VersionRow, Finished, WorkIsKnown
<1>5. MemoryIsJustified'
  BY <1>1 DEF ValidateVersion, LintInvariant, TypeOK, MemoryIsJustified, rows, StaysJustified, WorkIsKnown
<1>6. SuccessIsJustified'
  BY <1>1 DEF ValidateVersion, LintInvariant, TypeOK, SuccessIsJustified, rows, StaysJustified, VersionRow, Finished, WorkIsKnown
<1> QED
  BY <1>2, <1>3, <1>4, <1>5, <1>6 DEF LintInvariant

LEMMA InvVersionTaskExpires ==
  ASSUME LintInvariant, TypeOK', NEW t0 \in VersionTask, VersionTaskExpires(t0)
  PROVE  LintInvariant'
<1>1. StaysJustified
  BY Stays DEF LintInvariant, TypeOK, DocRow, rows, VersionTaskExpires
<1>2. WorkIsKnown'
  BY DEF VersionTaskExpires, LintInvariant, TypeOK, WorkIsKnown, rows
<1>3. DocTasksAreSaved'
  BY DEF VersionTaskExpires, LintInvariant, TypeOK, DocTasksAreSaved, rows, WorkIsKnown
<1>4. WaitingHasDocuments'
  BY <1>1 DEF VersionTaskExpires, LintInvariant, TypeOK, WaitingHasDocuments, rows, StaysJustified, VersionRow, Finished, WorkIsKnown
<1>5. MemoryIsJustified'
  BY <1>1 DEF VersionTaskExpires, LintInvariant, TypeOK, MemoryIsJustified, rows, StaysJustified, WorkIsKnown
<1>6. SuccessIsJustified'
  BY <1>1 DEF VersionTaskExpires, LintInvariant, TypeOK, SuccessIsJustified, rows, StaysJustified, VersionRow, Finished, WorkIsKnown
<1> QED
  BY <1>2, <1>3, <1>4, <1>5, <1>6 DEF LintInvariant

LEMMA InvFindFreeVersionTask ==
  ASSUME LintInvariant, TypeOK', NEW h \in Thread, NEW t0 \in VersionTask, FindFreeVersionTask(h, t0)
  PROVE  LintInvariant'
<1>1. StaysJustified
  BY Stays DEF LintInvariant, TypeOK, DocRow, rows, FindFreeVersionTask, FreeVersionTask
<1>2. WorkIsKnown'
  BY DEF FindFreeVersionTask, FreeVersionTask, LintInvariant, TypeOK, WorkIsKnown, rows, ThreadType, Idle
<1>3. DocTasksAreSaved'
  BY DEF FindFreeVersionTask, FreeVersionTask, LintInvariant, TypeOK, DocTasksAreSaved, rows, WorkIsKnown
<1>4. WaitingHasDocuments'
  BY <1>1 DEF FindFreeVersionTask, FreeVersionTask, LintInvariant, TypeOK, WaitingHasDocuments, rows, StaysJustified, VersionRow, Finished, WorkIsKnown
<1>5. MemoryIsJustified'
  BY <1>1 DEF FindFreeVersionTask, FreeVersionTask, LintInvariant, TypeOK, MemoryIsJustified, rows, StaysJustified, WorkIsKnown
<1>6. SuccessIsJustified'
  BY <1>1 DEF FindFreeVersionTask, FreeVersionTask, LintInvariant, TypeOK, SuccessIsJustified, rows, StaysJustified, VersionRow, Finished, WorkIsKnown
<1> QED
  BY <1>2, <1>3, <1>4, <1>5, <1>6 DEF LintInvariant

LEMMA InvGetTaskById ==
  ASSUME LintInvariant, TypeOK', NEW h \in Thread, GetTaskById(h)
  PROVE  LintInvariant'
<1>1. StaysJustified
  BY Stays DEF LintInvariant, TypeOK, DocRow, rows, GetTaskById
<1>2. WorkIsKnown'
  BY DEF GetTaskById, LintInvariant, TypeOK, WorkIsKnown, rows, ThreadType, Idle
<1>3. DocTasksAreSaved'
  BY DEF GetTaskById, LintInvariant, TypeOK, DocTasksAreSaved, rows, WorkIsKnown
<1>4. WaitingHasDocuments'
  BY <1>1 DEF GetTaskById, LintInvariant, TypeOK, WaitingHasDocuments, rows, StaysJustified, WorkIsKnown
<1>5. MemoryIsJustified'
  BY <1>1 DEF GetTaskById, LintInvariant, TypeOK, MemoryIsJustified, rows, StaysJustified, WorkIsKnown
<1>6. SuccessIsJustified'
  BY <1>1 DEF GetTaskById, LintInvariant, TypeOK, SuccessIsJustified, rows, StaysJustified, WorkIsKnown
<1> QED
  BY <1>2, <1>3, <1>4, <1>5, <1>6 DEF LintInvariant

\* A thread that saves documents saves the next batch of its task.
LEMMA BatchesGrow ==
  ASSUME LintInvariant, NEW h \in Thread, NEW u \in Unusable, SaveDocTasksAndUpdVer(h, u)
  PROVE  /\ thread[h].task \in VersionTask
         /\ batches'[thread[h].task] = batches[thread[h].task] + 1
         /\ \A t \in VersionTask : /\ batches[t] \in Nat /\ batches'[t] \in Nat
                                   /\ batches[t] <= batches'[t]
<1> DEFINE t0 == thread[h].task
<1>1. t0 \in VersionTask
  BY DEF SaveDocTasksAndUpdVer, LintInvariant, WorkIsKnown
<1>2. batches \in [VersionTask -> Nat]
  BY LintAssumption DEF LintInvariant, TypeOK
<1>3. batches' = [batches EXCEPT ![t0] = batches[t0] + 1]
  BY DEF SaveDocTasksAndUpdVer
<1> HIDE DEF t0
<1>4. /\ batches'[t0] = batches[t0] + 1
      /\ \A t \in VersionTask : t # t0 => batches'[t] = batches[t]
  BY <1>1, <1>2, <1>3
<1>5. \A t \in VersionTask : /\ batches[t] \in Nat /\ batches'[t] \in Nat
                             /\ batches[t] <= batches'[t]
  BY <1>1, <1>2, <1>4
<1> QED
  BY <1>1, <1>4, <1>5 DEF t0

LEMMA InvSaveDocTasksAndUpdVer ==
  ASSUME LintInvariant, TypeOK', NEW h \in Thread, NEW u \in Unusable, SaveDocTasksAndUpdVer(h, u)
  PROVE  LintInvariant'
<1>1. StaysJustified
  <2> DEFINE t == thread[h].task
             saved == {t} \X {batches[t] + 1} \X selected[t]
  <2>1. t \in VersionTask /\ batches[t] \in Nat /\ batches[t] + 1 # 0
    BY BatchesGrow
  <2>2. \A t2 \in VersionTask : batches[t2] > 0 => batches'[t2] > 0
    BY BatchesGrow
  <2>3. ASSUME NEW t2 \in VersionTask, FirstBatchDone(t2)
        PROVE  FirstBatchDone(t2)'
    <3>1. ASSUME NEW d \in DocTask, d[1] = t2, d[2] = 1 PROVE d \notin saved
      BY <2>1, <2>3, <3>1 DEF FirstBatchDone
    <3>2. ASSUME NEW d \in DocTask, d[1] = t2, d[2] = 1, doc'[d].status # "none"
          PROVE  d \in everDone'
      <4>1. doc'[d] = doc[d]
        BY <3>1, <3>2 DEF SaveDocTasksAndUpdVer
      <4>2. d \in DocsOf(t2)
        BY <3>2, <4>1 DEF DocsOf
      <4> QED
        BY <2>3, <3>2, <4>2 DEF FirstBatchDone, SaveDocTasksAndUpdVer
    <3> QED
      BY <2>2, <2>3, <3>2 DEF FirstBatchDone, DocsOf
  <2> QED
    BY <2>2, <2>3 DEF StaysJustified, Justified, SaveDocTasksAndUpdVer
<1>2. WorkIsKnown'
  BY DEF SaveDocTasksAndUpdVer, NoRow, LintInvariant, TypeOK, WorkIsKnown, rows, DocRow, Finished, ThreadType, Idle
<1>3. DocTasksAreSaved'
  <2> DEFINE t == thread[h].task
             batch == batches[t] + 1
             saved == {t} \X {batch} \X selected[t]
  <2>1. t \in VersionTask /\ batches[t] \in Nat /\ batches'[t] = batch
    BY BatchesGrow
  <2>2. ASSUME NEW d \in DocTask
        PROVE  /\ d[2] \in Nat /\ batches[d[1]] \in Nat /\ batches'[d[1]] \in Nat
               /\ batches[d[1]] <= batches'[d[1]]
    <3>1. d[1] \in VersionTask /\ d[2] \in Nat
      BY LintAssumption DEF DocTask
    <3> QED
      BY <3>1, BatchesGrow
  <2>3. everDone' = everDone \cup {d \in saved : d[3] \in u}
    BY DEF SaveDocTasksAndUpdVer
  <2>4. ASSUME NEW d \in DocTask, d \in saved
        PROVE  /\ d[2] <= batches'[d[1]]
               /\ doc'[d].status \in Finished => d \in everDone'
    <3>1. d[1] = t /\ d[2] = batch /\ d[2] \in Nat
      BY <2>1, <2>4
    <3>2. doc'[d].status = IF d[3] \in u THEN "error" ELSE "not_started"
      BY <2>4 DEF SaveDocTasksAndUpdVer, NoRow
    <3>3. doc'[d].status \in Finished => d \in everDone'
      BY <2>3, <2>4, <3>2 DEF Finished
    <3> QED
      BY <2>1, <3>1, <3>3
  <2>5. ASSUME NEW d \in DocTask, d \notin saved
        PROVE  /\ doc'[d].status # "none" => d[2] <= batches'[d[1]]
               /\ doc'[d].status \in Finished => d \in everDone'
    <3>1. doc'[d] = doc[d]
      BY <2>5 DEF SaveDocTasksAndUpdVer
    <3>2. /\ doc[d].status # "none" => d[2] <= batches[d[1]]
          /\ doc[d].status \in Finished => d \in everDone
      BY DEF LintInvariant, DocTasksAreSaved
    <3>3. doc[d].status \in Finished => d \in everDone'
      BY <2>3, <3>2
    <3> QED
      BY <2>2, <3>1, <3>2, <3>3
  <2> QED
    BY <2>4, <2>5 DEF DocTasksAreSaved
<1>4. WaitingHasDocuments'
  <2> DEFINE t == thread[h].task
  <2>1. t \in VersionTask /\ batches'[t] > 0
    BY BatchesGrow
  <2>2. \A t2 \in VersionTask : t2 # t => version'[t2] = version[t2]
    BY DEF SaveDocTasksAndUpdVer, LintInvariant, TypeOK
  <2>3. UNCHANGED <<retry, checker>> /\ \A p \in Caller : retry[p].pc # "none" => retry[p].task \in VersionTask
    BY DEF SaveDocTasksAndUpdVer, LintInvariant, WorkIsKnown
  <2>4. \A e \in Executor : checker[e].tasks \subseteq VersionTask
    BY DEF LintInvariant, TypeOK, CheckerType
  <2>5. \A t2 \in VersionTask : version'[t2].status = "waiting_for_docs" => batches'[t2] > 0
    BY <1>1, <2>1, <2>2 DEF LintInvariant, WaitingHasDocuments, StaysJustified
  <2> QED
    BY <1>1, <2>3, <2>4, <2>5 DEF LintInvariant, WaitingHasDocuments, StaysJustified
<1>5. MemoryIsJustified'
  BY <1>1 DEF SaveDocTasksAndUpdVer, NoRow, LintInvariant, TypeOK, MemoryIsJustified, rows, StaysJustified, DocRow, Finished, WorkIsKnown
<1>6. SuccessIsJustified'
  BY <1>1 DEF SaveDocTasksAndUpdVer, NoRow, LintInvariant, TypeOK, SuccessIsJustified, rows, StaysJustified, DocRow, Finished, VersionRow, WorkIsKnown
<1> QED
  BY <1>2, <1>3, <1>4, <1>5, <1>6 DEF LintInvariant

LEMMA InvCompleteWithoutDocuments ==
  ASSUME LintInvariant, TypeOK', NEW h \in Thread, CompleteWithoutDocuments(h)
  PROVE  LintInvariant'
<1>1. StaysJustified
  BY Stays DEF LintInvariant, TypeOK, DocRow, rows, CompleteWithoutDocuments, Complete
<1>2. WorkIsKnown'
  BY DEF CompleteWithoutDocuments, Complete, LintInvariant, TypeOK, WorkIsKnown, rows, ThreadType, Idle
<1>3. DocTasksAreSaved'
  BY DEF CompleteWithoutDocuments, Complete, LintInvariant, TypeOK, DocTasksAreSaved, rows, WorkIsKnown
<1>4. WaitingHasDocuments'
  BY <1>1 DEF CompleteWithoutDocuments, Complete, LintInvariant, TypeOK, WaitingHasDocuments, rows, StaysJustified, VersionRow, Finished, WorkIsKnown
<1>5. MemoryIsJustified'
  BY <1>1 DEF CompleteWithoutDocuments, Complete, LintInvariant, TypeOK, MemoryIsJustified, rows, StaysJustified, WorkIsKnown
<1>6. SuccessIsJustified'
  BY <1>1 DEF CompleteWithoutDocuments, Complete, LintInvariant, TypeOK, SuccessIsJustified, rows, StaysJustified, VersionRow, Finished, WorkIsKnown, Justified
<1> QED
  BY <1>2, <1>3, <1>4, <1>5, <1>6 DEF LintInvariant

LEMMA InvProcessingFails ==
  ASSUME LintInvariant, TypeOK', NEW h \in Thread, ProcessingFails(h)
  PROVE  LintInvariant'
<1>1. StaysJustified
  BY Stays DEF LintInvariant, TypeOK, DocRow, rows, ProcessingFails, HandleProcessingFailed
<1>2. WorkIsKnown'
  BY DEF ProcessingFails, HandleProcessingFailed, LintInvariant, TypeOK, WorkIsKnown, rows, RetryType, NoRetry, NoRow, Caller, ThreadType, Idle
<1>3. DocTasksAreSaved'
  BY DEF ProcessingFails, HandleProcessingFailed, LintInvariant, TypeOK, DocTasksAreSaved, rows, WorkIsKnown
<1>4. WaitingHasDocuments'
  BY <1>1 DEF ProcessingFails, HandleProcessingFailed, LintInvariant, TypeOK, WaitingHasDocuments, rows, StaysJustified, RetryType, NoRetry, NoRow, Caller, WorkIsKnown
<1>5. MemoryIsJustified'
  BY <1>1 DEF ProcessingFails, HandleProcessingFailed, LintInvariant, TypeOK, MemoryIsJustified, rows, StaysJustified, RetryType, NoRetry, NoRow, Caller, WorkIsKnown
<1>6. SuccessIsJustified'
  BY <1>1 DEF ProcessingFails, HandleProcessingFailed, LintInvariant, TypeOK, SuccessIsJustified, rows, StaysJustified, WorkIsKnown
<1> QED
  BY <1>2, <1>3, <1>4, <1>5, <1>6 DEF LintInvariant

LEMMA InvIncRestartCountRead ==
  ASSUME LintInvariant, TypeOK', NEW p0 \in Caller, IncRestartCountRead(p0)
  PROVE  LintInvariant'
<1>1. StaysJustified
  BY Stays DEF LintInvariant, TypeOK, DocRow, rows, IncRestartCountRead
<1>2. WorkIsKnown'
  BY DEF IncRestartCountRead, LintInvariant, TypeOK, WorkIsKnown, rows, RetryType, NoRetry, NoRow, Caller
<1>3. DocTasksAreSaved'
  BY DEF IncRestartCountRead, LintInvariant, TypeOK, DocTasksAreSaved, rows, WorkIsKnown
<1>4. WaitingHasDocuments'
  BY <1>1 DEF IncRestartCountRead, LintInvariant, TypeOK, WaitingHasDocuments, rows, StaysJustified, RetryType, NoRetry, NoRow, Caller, WorkIsKnown
<1>5. MemoryIsJustified'
  <2>1. \A e \in Executor, t \in VersionTask :
          checker'[e].verdict[t] \in Finished => FirstBatchDone(t)'
    BY <1>1 DEF IncRestartCountRead, LintInvariant, MemoryIsJustified, StaysJustified
  <2>2. ASSUME NEW p \in Caller, NEW t \in VersionTask, retry'[p].task = t,
               retry'[p].pc = "write", retry'[p].row.status = "success"
        PROVE  Justified(t)'
    <3>1. CASE p = p0
      <4>1. retry[p0].task = t /\ retry'[p0].row = version[t]
        BY <2>2, <3>1 DEF IncRestartCountRead, LintInvariant, TypeOK, RetryType
      <4> QED
        BY <1>1, <2>2, <3>1, <4>1 DEF LintInvariant, SuccessIsJustified, StaysJustified
    <3>2. CASE p # p0
      <4>1. retry'[p] = retry[p]
        BY <3>2 DEF IncRestartCountRead, LintInvariant, TypeOK, RetryType
      <4> QED
        BY <1>1, <2>2, <4>1 DEF LintInvariant, MemoryIsJustified, StaysJustified
    <3> QED
      BY <3>1, <3>2
  <2>3. \A p \in Caller : retry'[p].pc = "write" => retry'[p].task \in VersionTask
    BY <1>2 DEF WorkIsKnown
  <2>4. \A p \in Caller : retry'[p].pc = "write" /\ retry'[p].row.status = "success"
                            => Justified(retry[p].task)'
    BY <2>2, <2>3
  <2> QED
    BY <2>1, <2>4 DEF MemoryIsJustified
<1>6. SuccessIsJustified'
  BY <1>1 DEF IncRestartCountRead, LintInvariant, TypeOK, SuccessIsJustified, rows, StaysJustified, WorkIsKnown
<1> QED
  BY <1>2, <1>3, <1>4, <1>5, <1>6 DEF LintInvariant

LEMMA InvIncRestartCountWrite ==
  ASSUME LintInvariant, TypeOK', NEW p0 \in Caller, IncRestartCountWrite(p0)
  PROVE  LintInvariant'
<1>1. StaysJustified
  BY Stays DEF LintInvariant, TypeOK, DocRow, rows, IncRestartCountWrite
<1>2. WorkIsKnown'
  BY DEF IncRestartCountWrite, LintInvariant, TypeOK, WorkIsKnown, rows, RetryType, NoRetry, NoRow, Caller
<1>3. DocTasksAreSaved'
  BY DEF IncRestartCountWrite, LintInvariant, TypeOK, DocTasksAreSaved, rows, WorkIsKnown
<1>4. WaitingHasDocuments'
  BY <1>1 DEF IncRestartCountWrite, LintInvariant, TypeOK, WaitingHasDocuments, rows, StaysJustified, VersionRow, Finished, RetryType, NoRetry, NoRow, Caller, WorkIsKnown
<1>5. MemoryIsJustified'
  BY <1>1 DEF IncRestartCountWrite, LintInvariant, TypeOK, MemoryIsJustified, rows, StaysJustified, RetryType, NoRetry, NoRow, Caller, WorkIsKnown
<1>6. SuccessIsJustified'
  BY <1>1 DEF IncRestartCountWrite, LintInvariant, TypeOK, SuccessIsJustified, rows, StaysJustified, VersionRow, Finished, WorkIsKnown, MemoryIsJustified
<1> QED
  BY <1>2, <1>3, <1>4, <1>5, <1>6 DEF LintInvariant

LEMMA InvGetWaitingForDocTasks ==
  ASSUME LintInvariant, TypeOK', NEW e0 \in Executor, GetWaitingForDocTasks(e0)
  PROVE  LintInvariant'
<1>1. StaysJustified
  BY Stays DEF LintInvariant, TypeOK, DocRow, rows, GetWaitingForDocTasks
<1>2. WorkIsKnown'
  BY DEF GetWaitingForDocTasks, LintInvariant, TypeOK, WorkIsKnown, rows
<1>3. DocTasksAreSaved'
  BY DEF GetWaitingForDocTasks, LintInvariant, TypeOK, DocTasksAreSaved, rows, WorkIsKnown
<1>4. WaitingHasDocuments'
  BY <1>1 DEF GetWaitingForDocTasks, LintInvariant, TypeOK, WaitingHasDocuments, rows, StaysJustified, CheckerType, Resting, Finished, WorkIsKnown
<1>5. MemoryIsJustified'
  BY <1>1 DEF GetWaitingForDocTasks, LintInvariant, TypeOK, MemoryIsJustified, rows, StaysJustified, CheckerType, Resting, Finished, WorkIsKnown
<1>6. SuccessIsJustified'
  BY <1>1 DEF GetWaitingForDocTasks, LintInvariant, TypeOK, SuccessIsJustified, rows, StaysJustified, WorkIsKnown
<1> QED
  BY <1>2, <1>3, <1>4, <1>5, <1>6 DEF LintInvariant

LEMMA InvGetDocTasksForVersionTasks ==
  ASSUME LintInvariant, TypeOK', NEW e0 \in Executor, GetDocTasksForVersionTasks(e0)
  PROVE  LintInvariant'
<1>1. StaysJustified
  BY Stays DEF LintInvariant, TypeOK, DocRow, rows, GetDocTasksForVersionTasks, DocVerdict
<1>2. WorkIsKnown'
  BY DEF GetDocTasksForVersionTasks, DocVerdict, LintInvariant, TypeOK, WorkIsKnown, rows
<1>3. DocTasksAreSaved'
  BY DEF GetDocTasksForVersionTasks, DocVerdict, LintInvariant, TypeOK, DocTasksAreSaved, rows, WorkIsKnown
<1>4. WaitingHasDocuments'
  <2> DEFINE new == [t \in VersionTask |->
                       IF t \in checker[e0].tasks THEN DocVerdict(t) ELSE "unknown"]
  <2>1. /\ checker' = [checker EXCEPT ![e0] = [checker[e0] EXCEPT !.pc = "verdicts",
                                                                  !.verdict = new]]
        /\ checker \in CheckerType
    BY DEF GetDocTasksForVersionTasks, LintInvariant, TypeOK
  <2>2. \A e \in Executor : checker'[e].tasks = checker[e].tasks
    <3> HIDE DEF new
    <3> QED
      BY <2>1 DEF CheckerType
  <2> QED
    BY <2>2 DEF GetDocTasksForVersionTasks, LintInvariant, WaitingHasDocuments, rows
<1>5. MemoryIsJustified'
  <2>1. ASSUME NEW t \in checker[e0].tasks, DocVerdict(t) \in Finished
        PROVE  FirstBatchDone(t)
    <3>1. t \in VersionTask /\ batches[t] > 0
      BY <2>1 DEF LintInvariant, TypeOK, CheckerType, WaitingHasDocuments
    <3>2. \A d \in DocsOf(t) : doc[d].status \in Finished
      BY <2>1 DEF DocVerdict, Finished
    <3> QED
      BY <3>1, <3>2 DEF LintInvariant, DocTasksAreSaved, FirstBatchDone, DocsOf
  <2>2. \A e \in Executor, t \in VersionTask :
          \/ checker'[e].verdict[t] = checker[e].verdict[t]
          \/ e = e0 /\ t \in checker[e0].tasks /\ checker'[e].verdict[t] = DocVerdict(t)
          \/ checker'[e].verdict[t] = "unknown"
    <3> DEFINE new == [t \in VersionTask |->
                         IF t \in checker[e0].tasks THEN DocVerdict(t) ELSE "unknown"]
    <3>1. /\ checker' = [checker EXCEPT ![e0] = [checker[e0] EXCEPT !.pc = "verdicts",
                                                                    !.verdict = new]]
          /\ checker \in CheckerType
      BY DEF GetDocTasksForVersionTasks, LintInvariant, TypeOK
    <3>2. \A t \in VersionTask :
            new[t] = IF t \in checker[e0].tasks THEN DocVerdict(t) ELSE "unknown"
      OBVIOUS
    <3>3. checker'[e0].verdict = new
      <4> HIDE DEF new
      <4> QED
        BY <3>1 DEF CheckerType
    <3>4. \A e \in Executor : e # e0 => checker'[e] = checker[e]
      <4> HIDE DEF new
      <4> QED
        BY <3>1 DEF CheckerType
    <3> HIDE DEF new
    <3> QED
      BY <3>2, <3>3, <3>4
  <2>3. "unknown" \notin Finished
    BY DEF Finished
  <2>4. \A e \in Executor, t \in VersionTask :
          checker'[e].verdict[t] \in Finished => FirstBatchDone(t)
    BY <2>1, <2>2, <2>3 DEF LintInvariant, MemoryIsJustified
  <2> QED
    BY <1>1, <2>4
    DEF GetDocTasksForVersionTasks, LintInvariant, WorkIsKnown, MemoryIsJustified, StaysJustified
<1>6. SuccessIsJustified'
  BY <1>1 DEF GetDocTasksForVersionTasks, DocVerdict, LintInvariant, TypeOK, SuccessIsJustified, rows, StaysJustified, WorkIsKnown
<1> QED
  BY <1>2, <1>3, <1>4, <1>5, <1>6 DEF LintInvariant

LEMMA InvUpdateLastActive ==
  ASSUME LintInvariant, TypeOK', NEW e0 \in Executor, NEW t0 \in VersionTask, UpdateLastActive(e0, t0)
  PROVE  LintInvariant'
<1>1. StaysJustified
  BY Stays DEF LintInvariant, TypeOK, DocRow, rows, UpdateLastActive, Dealt, DealsWith
<1>2. WorkIsKnown'
  BY DEF UpdateLastActive, Dealt, DealsWith, LintInvariant, TypeOK, WorkIsKnown, rows
<1>3. DocTasksAreSaved'
  BY DEF UpdateLastActive, Dealt, DealsWith, LintInvariant, TypeOK, DocTasksAreSaved, rows, WorkIsKnown
<1>4. WaitingHasDocuments'
  BY <1>1 DEF UpdateLastActive, Dealt, DealsWith, LintInvariant, TypeOK, WaitingHasDocuments, rows, StaysJustified, VersionRow, Finished, CheckerType, Resting, WorkIsKnown
<1>5. MemoryIsJustified'
  BY <1>1 DEF UpdateLastActive, Dealt, DealsWith, LintInvariant, TypeOK, MemoryIsJustified, rows, StaysJustified, CheckerType, Resting, Finished, WorkIsKnown
<1>6. SuccessIsJustified'
  BY <1>1 DEF UpdateLastActive, Dealt, DealsWith, LintInvariant, TypeOK, SuccessIsJustified, rows, StaysJustified, VersionRow, Finished, WorkIsKnown
<1> QED
  BY <1>2, <1>3, <1>4, <1>5, <1>6 DEF LintInvariant

LEMMA InvCompleteWithDocuments ==
  ASSUME LintInvariant, TypeOK', NEW e0 \in Executor, NEW t0 \in VersionTask, CompleteWithDocuments(e0, t0)
  PROVE  LintInvariant'
<1>1. StaysJustified
  BY Stays DEF LintInvariant, TypeOK, DocRow, rows, CompleteWithDocuments, Complete, Dealt, DealsWith
<1>2. WorkIsKnown'
  BY DEF CompleteWithDocuments, Complete, Dealt, DealsWith, LintInvariant, TypeOK, WorkIsKnown, rows
<1>3. DocTasksAreSaved'
  BY DEF CompleteWithDocuments, Complete, Dealt, DealsWith, LintInvariant, TypeOK, DocTasksAreSaved, rows, WorkIsKnown
<1>4. WaitingHasDocuments'
  BY <1>1 DEF CompleteWithDocuments, Complete, Dealt, DealsWith, LintInvariant, TypeOK, WaitingHasDocuments, rows, StaysJustified, VersionRow, Finished, CheckerType, Resting, WorkIsKnown
<1>5. MemoryIsJustified'
  BY <1>1 DEF CompleteWithDocuments, Complete, Dealt, DealsWith, LintInvariant, TypeOK, MemoryIsJustified, rows, StaysJustified, CheckerType, Resting, Finished, WorkIsKnown
<1>6. SuccessIsJustified'
  BY <1>1 DEF CompleteWithDocuments, Complete, Dealt, DealsWith, LintInvariant, TypeOK, SuccessIsJustified, rows, StaysJustified, VersionRow, Finished, WorkIsKnown, MemoryIsJustified, Justified
<1> QED
  BY <1>2, <1>3, <1>4, <1>5, <1>6 DEF LintInvariant

LEMMA InvCheckerPanics ==
  ASSUME LintInvariant, TypeOK', NEW e0 \in Executor, NEW t0 \in VersionTask, CheckerPanics(e0, t0)
  PROVE  LintInvariant'
<1>1. StaysJustified
  BY Stays DEF LintInvariant, TypeOK, DocRow, rows, CheckerPanics, DealsWith
<1>2. WorkIsKnown'
  BY DEF CheckerPanics, DealsWith, LintInvariant, TypeOK, WorkIsKnown, rows
<1>3. DocTasksAreSaved'
  BY DEF CheckerPanics, DealsWith, LintInvariant, TypeOK, DocTasksAreSaved, rows, WorkIsKnown
<1>4. WaitingHasDocuments'
  BY <1>1 DEF CheckerPanics, DealsWith, LintInvariant, TypeOK, WaitingHasDocuments, rows, StaysJustified, CheckerType, Resting, Finished, WorkIsKnown
<1>5. MemoryIsJustified'
  BY <1>1 DEF CheckerPanics, DealsWith, LintInvariant, TypeOK, MemoryIsJustified, rows, StaysJustified, CheckerType, Resting, Finished, WorkIsKnown
<1>6. SuccessIsJustified'
  BY <1>1 DEF CheckerPanics, DealsWith, LintInvariant, TypeOK, SuccessIsJustified, rows, StaysJustified, WorkIsKnown
<1> QED
  BY <1>2, <1>3, <1>4, <1>5, <1>6 DEF LintInvariant

LEMMA InvCheckerFails ==
  ASSUME LintInvariant, TypeOK', NEW e0 \in Executor, CheckerFails(e0)
  PROVE  LintInvariant'
<1>1. StaysJustified
  BY Stays DEF LintInvariant, TypeOK, DocRow, rows, CheckerFails, Dealt, DealsWith, HandleProcessingFailed
<1>2. WorkIsKnown'
  <2>1. \/ UNCHANGED retry
        \/ \E t \in VersionTask :
             retry' = [retry EXCEPT ![e0] = [pc |-> "read", task |-> t, row |-> NoRow]]
    BY DEF CheckerFails, HandleProcessingFailed
  <2>2. \A p \in Caller : retry'[p].pc # "none" => retry'[p].task \in VersionTask
    BY <2>1 DEF LintInvariant, TypeOK, WorkIsKnown, RetryType
  <2>3. UNCHANGED <<thread, doc, worker, beat>>
    BY DEF CheckerFails, rows
  <2> QED
    BY <2>2, <2>3 DEF LintInvariant, WorkIsKnown
<1>3. DocTasksAreSaved'
  BY DEF CheckerFails, Dealt, DealsWith, HandleProcessingFailed, LintInvariant, TypeOK, DocTasksAreSaved, rows, WorkIsKnown
<1>4. WaitingHasDocuments'
  <2>1. /\ UNCHANGED <<version, batches>>
        /\ \/ UNCHANGED retry
           \/ \E t \in VersionTask :
                retry' = [retry EXCEPT ![e0] = [pc |-> "read", task |-> t, row |-> NoRow]]
    BY DEF CheckerFails, HandleProcessingFailed, rows
  <2>2. \A e \in Executor : checker'[e].tasks \subseteq checker[e].tasks
    BY CheckerForgets
  <2>3. \A p \in Caller : retry'[p].pc = "write" => retry'[p] = retry[p]
    BY <2>1 DEF LintInvariant, TypeOK, RetryType
  <2> QED
    BY <2>1, <2>2, <2>3 DEF LintInvariant, WaitingHasDocuments
<1>5. MemoryIsJustified'
  <2>1. \/ UNCHANGED retry
        \/ \E t \in VersionTask :
             retry' = [retry EXCEPT ![e0] = [pc |-> "read", task |-> t, row |-> NoRow]]
    BY DEF CheckerFails, HandleProcessingFailed
  <2>2. \A p \in Caller : retry'[p].pc = "write" => retry'[p] = retry[p]
    BY <2>1 DEF LintInvariant, TypeOK, RetryType
  <2>3. \A e \in Executor, t \in VersionTask :
          checker'[e].verdict[t] \in Finished => checker'[e].verdict[t] = checker[e].verdict[t]
    BY CheckerForgets
  <2> QED
    BY <1>1, <2>2, <2>3 DEF LintInvariant, WorkIsKnown, MemoryIsJustified, StaysJustified
<1>6. SuccessIsJustified'
  BY <1>1 DEF CheckerFails, Dealt, DealsWith, HandleProcessingFailed, LintInvariant, TypeOK, SuccessIsJustified, rows, StaysJustified, WorkIsKnown
<1> QED
  BY <1>2, <1>3, <1>4, <1>5, <1>6 DEF LintInvariant

LEMMA InvDocTaskExpires ==
  ASSUME LintInvariant, TypeOK', NEW d0 \in DocTask, DocTaskExpires(d0)
  PROVE  LintInvariant'
<1>1. StaysJustified
  BY Stays DEF LintInvariant, TypeOK, DocRow, rows, DocTaskExpires
<1>2. WorkIsKnown'
  BY DEF DocTaskExpires, LintInvariant, TypeOK, WorkIsKnown, rows, DocRow, Finished
<1>3. DocTasksAreSaved'
  BY DEF DocTaskExpires, LintInvariant, TypeOK, DocTasksAreSaved, rows, DocRow, Finished, WorkIsKnown
<1>4. WaitingHasDocuments'
  BY <1>1 DEF DocTaskExpires, LintInvariant, TypeOK, WaitingHasDocuments, rows, StaysJustified, WorkIsKnown
<1>5. MemoryIsJustified'
  BY <1>1 DEF DocTaskExpires, LintInvariant, TypeOK, MemoryIsJustified, rows, StaysJustified, DocRow, Finished, WorkIsKnown
<1>6. SuccessIsJustified'
  BY <1>1 DEF DocTaskExpires, LintInvariant, TypeOK, SuccessIsJustified, rows, StaysJustified, DocRow, Finished, WorkIsKnown
<1> QED
  BY <1>2, <1>3, <1>4, <1>5, <1>6 DEF LintInvariant

LEMMA InvFindFreeDocTask ==
  ASSUME LintInvariant, TypeOK', NEW w0 \in Worker, NEW d0 \in DocTask, FindFreeDocTask(w0, d0)
  PROVE  LintInvariant'
<1>1. StaysJustified
  BY Stays DEF LintInvariant, TypeOK, DocRow, rows, FindFreeDocTask, FreeDocTask
<1>2. WorkIsKnown'
  BY DEF FindFreeDocTask, FreeDocTask, LintInvariant, TypeOK, WorkIsKnown, rows, DocRow, Finished, WorkerType, Waiting
<1>3. DocTasksAreSaved'
  BY DEF FindFreeDocTask, FreeDocTask, LintInvariant, TypeOK, DocTasksAreSaved, rows, DocRow, Finished, WorkIsKnown
<1>4. WaitingHasDocuments'
  BY <1>1 DEF FindFreeDocTask, FreeDocTask, LintInvariant, TypeOK, WaitingHasDocuments, rows, StaysJustified, WorkIsKnown
<1>5. MemoryIsJustified'
  BY <1>1 DEF FindFreeDocTask, FreeDocTask, LintInvariant, TypeOK, MemoryIsJustified, rows, StaysJustified, DocRow, Finished, WorkIsKnown
<1>6. SuccessIsJustified'
  BY <1>1 DEF FindFreeDocTask, FreeDocTask, LintInvariant, TypeOK, SuccessIsJustified, rows, StaysJustified, DocRow, Finished, WorkIsKnown
<1> QED
  BY <1>2, <1>3, <1>4, <1>5, <1>6 DEF LintInvariant

LEMMA InvReturnLeftover ==
  ASSUME LintInvariant, TypeOK', NEW w0 \in Worker, ReturnLeftover(w0)
  PROVE  LintInvariant'
<1>1. StaysJustified
  BY Stays DEF LintInvariant, TypeOK, DocRow, rows, ReturnLeftover
<1>2. WorkIsKnown'
  BY DEF ReturnLeftover, LintInvariant, TypeOK, WorkIsKnown, rows, WorkerType, Waiting
<1>3. DocTasksAreSaved'
  BY DEF ReturnLeftover, LintInvariant, TypeOK, DocTasksAreSaved, rows, WorkIsKnown
<1>4. WaitingHasDocuments'
  BY <1>1 DEF ReturnLeftover, LintInvariant, TypeOK, WaitingHasDocuments, rows, StaysJustified, WorkIsKnown
<1>5. MemoryIsJustified'
  BY <1>1 DEF ReturnLeftover, LintInvariant, TypeOK, MemoryIsJustified, rows, StaysJustified, WorkIsKnown
<1>6. SuccessIsJustified'
  BY <1>1 DEF ReturnLeftover, LintInvariant, TypeOK, SuccessIsJustified, rows, StaysJustified, WorkIsKnown
<1> QED
  BY <1>2, <1>3, <1>4, <1>5, <1>6 DEF LintInvariant

LEMMA InvSaveLintResult ==
  ASSUME LintInvariant, TypeOK', NEW w0 \in Worker, NEW st \in Finished, SaveLintResult(w0, st)
  PROVE  LintInvariant'
<1>1. StaysJustified
  <2>1. \A d \in DocTask : doc'[d].status # "none" => doc[d].status # "none"
    BY DEF SaveLintResult, LintInvariant, WorkIsKnown, TypeOK
  <2> QED
    BY <2>1, Stays DEF LintInvariant, SaveLintResult
<1>2. WorkIsKnown'
  BY DEF SaveLintResult, LintInvariant, TypeOK, WorkIsKnown, rows, DocRow, Finished, WorkerType, Waiting
<1>3. DocTasksAreSaved'
  BY DEF SaveLintResult, LintInvariant, TypeOK, DocTasksAreSaved, rows, DocRow, Finished, WorkIsKnown
<1>4. WaitingHasDocuments'
  BY <1>1 DEF SaveLintResult, LintInvariant, TypeOK, WaitingHasDocuments, rows, StaysJustified, WorkIsKnown
<1>5. MemoryIsJustified'
  BY <1>1 DEF SaveLintResult, LintInvariant, TypeOK, MemoryIsJustified, rows, StaysJustified, DocRow, Finished, WorkIsKnown
<1>6. SuccessIsJustified'
  BY <1>1 DEF SaveLintResult, LintInvariant, TypeOK, SuccessIsJustified, rows, StaysJustified, DocRow, Finished, WorkIsKnown
<1> QED
  BY <1>2, <1>3, <1>4, <1>5, <1>6 DEF LintInvariant

LEMMA InvSaveFails ==
  ASSUME LintInvariant, TypeOK', NEW w0 \in Worker, SaveFails(w0)
  PROVE  LintInvariant'
<1>1. StaysJustified
  BY Stays DEF LintInvariant, TypeOK, DocRow, rows, SaveFails
<1>2. WorkIsKnown'
  BY DEF SaveFails, LintInvariant, TypeOK, WorkIsKnown, rows, WorkerType, Waiting
<1>3. DocTasksAreSaved'
  BY DEF SaveFails, LintInvariant, TypeOK, DocTasksAreSaved, rows, WorkIsKnown
<1>4. WaitingHasDocuments'
  BY <1>1 DEF SaveFails, LintInvariant, TypeOK, WaitingHasDocuments, rows, StaysJustified, WorkIsKnown
<1>5. MemoryIsJustified'
  BY <1>1 DEF SaveFails, LintInvariant, TypeOK, MemoryIsJustified, rows, StaysJustified, WorkIsKnown
<1>6. SuccessIsJustified'
  BY <1>1 DEF SaveFails, LintInvariant, TypeOK, SuccessIsJustified, rows, StaysJustified, WorkIsKnown
<1> QED
  BY <1>2, <1>3, <1>4, <1>5, <1>6 DEF LintInvariant

LEMMA InvKeepaliveRead ==
  ASSUME LintInvariant, TypeOK', NEW w0 \in Worker, KeepaliveRead(w0)
  PROVE  LintInvariant'
<1>1. StaysJustified
  BY Stays DEF LintInvariant, TypeOK, DocRow, rows, KeepaliveRead
<1>2. WorkIsKnown'
  BY DEF KeepaliveRead, LintInvariant, TypeOK, WorkIsKnown, rows, BeatType, NoBeat
<1>3. DocTasksAreSaved'
  BY DEF KeepaliveRead, LintInvariant, TypeOK, DocTasksAreSaved, rows, WorkIsKnown
<1>4. WaitingHasDocuments'
  BY <1>1 DEF KeepaliveRead, LintInvariant, TypeOK, WaitingHasDocuments, rows, StaysJustified, WorkIsKnown
<1>5. MemoryIsJustified'
  BY <1>1 DEF KeepaliveRead, LintInvariant, TypeOK, MemoryIsJustified, rows, StaysJustified, WorkIsKnown
<1>6. SuccessIsJustified'
  BY <1>1 DEF KeepaliveRead, LintInvariant, TypeOK, SuccessIsJustified, rows, StaysJustified, WorkIsKnown
<1> QED
  BY <1>2, <1>3, <1>4, <1>5, <1>6 DEF LintInvariant

LEMMA InvKeepaliveWrite ==
  ASSUME LintInvariant, TypeOK', NEW w0 \in Worker, KeepaliveWrite(w0)
  PROVE  LintInvariant'
<1>1. StaysJustified
  <2>1. \A d \in DocTask : doc'[d].status # "none" => doc[d].status # "none"
    BY DEF KeepaliveWrite, LintInvariant, WorkIsKnown, TypeOK
  <2> QED
    BY <2>1, Stays DEF LintInvariant, KeepaliveWrite
<1>2. WorkIsKnown'
  BY DEF KeepaliveWrite, LintInvariant, TypeOK, WorkIsKnown, rows, DocRow, Finished, BeatType, NoBeat
<1>3. DocTasksAreSaved'
  BY DEF KeepaliveWrite, LintInvariant, TypeOK, DocTasksAreSaved, rows, DocRow, Finished, WorkIsKnown
<1>4. WaitingHasDocuments'
  BY <1>1 DEF KeepaliveWrite, LintInvariant, TypeOK, WaitingHasDocuments, rows, StaysJustified, WorkIsKnown
<1>5. MemoryIsJustified'
  BY <1>1 DEF KeepaliveWrite, LintInvariant, TypeOK, MemoryIsJustified, rows, StaysJustified, DocRow, Finished, WorkIsKnown
<1>6. SuccessIsJustified'
  BY <1>1 DEF KeepaliveWrite, LintInvariant, TypeOK, SuccessIsJustified, rows, StaysJustified, DocRow, Finished, WorkIsKnown
<1> QED
  BY <1>2, <1>3, <1>4, <1>5, <1>6 DEF LintInvariant

LEMMA InvKeepaliveFails ==
  ASSUME LintInvariant, TypeOK', NEW w0 \in Worker, KeepaliveFails(w0)
  PROVE  LintInvariant'
<1>1. StaysJustified
  BY Stays DEF LintInvariant, TypeOK, DocRow, rows, KeepaliveFails
<1>2. WorkIsKnown'
  BY DEF KeepaliveFails, LintInvariant, TypeOK, WorkIsKnown, rows, BeatType, NoBeat
<1>3. DocTasksAreSaved'
  BY DEF KeepaliveFails, LintInvariant, TypeOK, DocTasksAreSaved, rows, WorkIsKnown
<1>4. WaitingHasDocuments'
  BY <1>1 DEF KeepaliveFails, LintInvariant, TypeOK, WaitingHasDocuments, rows, StaysJustified, WorkIsKnown
<1>5. MemoryIsJustified'
  BY <1>1 DEF KeepaliveFails, LintInvariant, TypeOK, MemoryIsJustified, rows, StaysJustified, WorkIsKnown
<1>6. SuccessIsJustified'
  BY <1>1 DEF KeepaliveFails, LintInvariant, TypeOK, SuccessIsJustified, rows, StaysJustified, WorkIsKnown
<1> QED
  BY <1>2, <1>3, <1>4, <1>5, <1>6 DEF LintInvariant

LEMMA InvCrash ==
  ASSUME LintInvariant, TypeOK', NEW e0 \in Executor, Crash(e0)
  PROVE  LintInvariant'
<1>1. StaysJustified
  BY Stays DEF LintInvariant, TypeOK, DocRow, rows, Crash
<1>2. WorkIsKnown'
  BY DEF Crash, LintInvariant, TypeOK, WorkIsKnown, rows, Idle, NoRetry, Waiting
<1>3. DocTasksAreSaved'
  BY DEF Crash, LintInvariant, TypeOK, DocTasksAreSaved, rows, WorkIsKnown
<1>4. WaitingHasDocuments'
  BY <1>1 DEF Crash, LintInvariant, TypeOK, WaitingHasDocuments, rows, StaysJustified,
               CheckerType, Resting, NoRetry
<1>5. MemoryIsJustified'
  <2>1. ASSUME NEW e \in Executor, NEW t \in VersionTask, checker'[e].verdict[t] \in Finished
        PROVE  FirstBatchDone(t)'
    <3>1. checker \in CheckerType
      BY DEF LintInvariant, TypeOK
    <3>2. checker'[e0].verdict[t] = "unknown"
      BY <3>1 DEF Crash, CheckerType, Resting
    <3>3. e # e0 /\ checker'[e] = checker[e]
      BY <2>1, <3>1, <3>2 DEF Crash, CheckerType, Finished
    <3>4. FirstBatchDone(t)
      BY <2>1, <3>3 DEF LintInvariant, MemoryIsJustified
    <3> QED
      BY <1>1, <3>4 DEF StaysJustified
  <2>2. ASSUME NEW p \in Caller, retry'[p].pc = "write", retry'[p].row.status = "success"
        PROVE  Justified(retry[p].task)' /\ retry'[p] = retry[p]
    <3>1. retry'[p] = retry[p]
      BY <2>2 DEF Crash, NoRetry
    <3>2. retry[p].task \in VersionTask /\ Justified(retry[p].task)
      BY <2>2, <3>1 DEF LintInvariant, MemoryIsJustified, WorkIsKnown
    <3> QED
      BY <1>1, <3>1, <3>2 DEF StaysJustified
  <2> QED
    BY <2>1, <2>2 DEF MemoryIsJustified
<1>6. SuccessIsJustified'
  BY <1>1 DEF Crash, LintInvariant, TypeOK, SuccessIsJustified, rows, StaysJustified, WorkIsKnown
<1> QED
  BY <1>2, <1>3, <1>4, <1>5, <1>6 DEF LintInvariant

-----------------------------------------------------------------------------
LEMMA InvInit == Init => LintInvariant
<1> SUFFICES ASSUME Init PROVE LintInvariant
  OBVIOUS
<1>1. TypeOK
  BY TypeInit
<1>2. WorkIsKnown
  BY DEF Init, WorkIsKnown, Idle, NoRetry, Waiting
<1>3. DocTasksAreSaved
  BY DEF Init, DocTasksAreSaved, NoRow, Finished
<1>4. WaitingHasDocuments
  BY DEF Init, WaitingHasDocuments, NoRow, NoRetry, Resting
<1>5. MemoryIsJustified
  BY DEF Init, MemoryIsJustified, NoRetry, Resting, Finished
<1>6. SuccessIsJustified
  BY DEF Init, SuccessIsJustified, NoRow
<1> QED
  BY <1>1, <1>2, <1>3, <1>4, <1>5, <1>6 DEF LintInvariant

LEMMA InvStutter == ASSUME LintInvariant, UNCHANGED vars PROVE LintInvariant'
BY DEF LintInvariant, TypeOK, WorkIsKnown, DocTasksAreSaved, WaitingHasDocuments,
   MemoryIsJustified, SuccessIsJustified, Justified, FirstBatchDone, DocsOf, vars, rows

LEMMA InvStep == ASSUME LintInvariant, Next PROVE LintInvariant'
<1>0. TypeOK /\ WorkIsKnown
  BY DEF LintInvariant
<1>1. ASSUME NEW t0 \in VersionTask, ValidateVersion(t0) PROVE LintInvariant'
  BY <1>1, <1>0, TypeValidateVersion, InvValidateVersion
<1>2. ASSUME NEW t0 \in VersionTask, VersionTaskExpires(t0) PROVE LintInvariant'
  BY <1>2, <1>0, TypeVersionTaskExpires, InvVersionTaskExpires
<1>3. ASSUME NEW h \in Thread, NEW t0 \in VersionTask, FindFreeVersionTask(h, t0) PROVE LintInvariant'
  BY <1>3, <1>0, TypeFindFreeVersionTask, InvFindFreeVersionTask
<1>4. ASSUME NEW h \in Thread, GetTaskById(h) PROVE LintInvariant'
  BY <1>4, <1>0, TypeGetTaskById, InvGetTaskById
<1>5. ASSUME NEW h \in Thread, NEW u \in Unusable, SaveDocTasksAndUpdVer(h, u) PROVE LintInvariant'
  BY <1>5, <1>0, TypeSaveDocTasksAndUpdVer, InvSaveDocTasksAndUpdVer
<1>6. ASSUME NEW h \in Thread, CompleteWithoutDocuments(h) PROVE LintInvariant'
  BY <1>6, <1>0, TypeCompleteWithoutDocuments, InvCompleteWithoutDocuments
<1>7. ASSUME NEW h \in Thread, ProcessingFails(h) PROVE LintInvariant'
  BY <1>7, <1>0, TypeProcessingFails, InvProcessingFails
<1>8. ASSUME NEW p0 \in Caller, IncRestartCountRead(p0) PROVE LintInvariant'
  BY <1>8, <1>0, TypeIncRestartCountRead, InvIncRestartCountRead
<1>9. ASSUME NEW p0 \in Caller, IncRestartCountWrite(p0) PROVE LintInvariant'
  BY <1>9, <1>0, TypeIncRestartCountWrite, InvIncRestartCountWrite
<1>10. ASSUME NEW e0 \in Executor, GetWaitingForDocTasks(e0) PROVE LintInvariant'
  BY <1>10, <1>0, TypeGetWaitingForDocTasks, InvGetWaitingForDocTasks
<1>11. ASSUME NEW e0 \in Executor, GetDocTasksForVersionTasks(e0) PROVE LintInvariant'
  BY <1>11, <1>0, TypeGetDocTasksForVersionTasks, InvGetDocTasksForVersionTasks
<1>12. ASSUME NEW e0 \in Executor, NEW t0 \in VersionTask, UpdateLastActive(e0, t0) PROVE LintInvariant'
  BY <1>12, <1>0, TypeUpdateLastActive, InvUpdateLastActive
<1>13. ASSUME NEW e0 \in Executor, NEW t0 \in VersionTask, CompleteWithDocuments(e0, t0) PROVE LintInvariant'
  BY <1>13, <1>0, TypeCompleteWithDocuments, InvCompleteWithDocuments
<1>14. ASSUME NEW e0 \in Executor, NEW t0 \in VersionTask, CheckerPanics(e0, t0) PROVE LintInvariant'
  BY <1>14, <1>0, TypeCheckerPanics, InvCheckerPanics
<1>15. ASSUME NEW e0 \in Executor, CheckerFails(e0) PROVE LintInvariant'
  BY <1>15, <1>0, TypeCheckerFails, InvCheckerFails
<1>16. ASSUME NEW d0 \in DocTask, DocTaskExpires(d0) PROVE LintInvariant'
  BY <1>16, <1>0, TypeDocTaskExpires, InvDocTaskExpires
<1>17. ASSUME NEW w0 \in Worker, NEW d0 \in DocTask, FindFreeDocTask(w0, d0) PROVE LintInvariant'
  BY <1>17, <1>0, TypeFindFreeDocTask, InvFindFreeDocTask
<1>18. ASSUME NEW w0 \in Worker, ReturnLeftover(w0) PROVE LintInvariant'
  BY <1>18, <1>0, TypeReturnLeftover, InvReturnLeftover
<1>19. ASSUME NEW w0 \in Worker, NEW st \in Finished, SaveLintResult(w0, st) PROVE LintInvariant'
  BY <1>19, <1>0, TypeSaveLintResult, InvSaveLintResult
<1>20. ASSUME NEW w0 \in Worker, SaveFails(w0) PROVE LintInvariant'
  BY <1>20, <1>0, TypeSaveFails, InvSaveFails
<1>21. ASSUME NEW w0 \in Worker, KeepaliveRead(w0) PROVE LintInvariant'
  BY <1>21, <1>0, TypeKeepaliveRead, InvKeepaliveRead
<1>22. ASSUME NEW w0 \in Worker, KeepaliveWrite(w0) PROVE LintInvariant'
  BY <1>22, <1>0, TypeKeepaliveWrite, InvKeepaliveWrite
<1>23. ASSUME NEW e0 \in Executor, Crash(e0) PROVE LintInvariant'
  BY <1>23, <1>0, TypeCrash, InvCrash
<1>24. ASSUME NEW w0 \in Worker, KeepaliveFails(w0) PROVE LintInvariant'
  BY <1>24, <1>0, TypeKeepaliveFails, InvKeepaliveFails
<1>25. Outcome \subseteq Finished
  BY LintAssumption DEF Finished
<1> QED
  BY <1>1, <1>2, <1>3, <1>4, <1>5, <1>6, <1>7, <1>8, <1>9, <1>10, <1>11, <1>12, <1>13, <1>14, <1>15, <1>16, <1>17, <1>18, <1>19, <1>20, <1>21, <1>22, <1>23, <1>24, <1>25
  DEF Next, Fault, ThreadStep, CheckerStep, RetryStep, SaveStep, KeepaliveEnds

-----------------------------------------------------------------------------
\* The inductive invariant holds in every reachable state, for any number of tasks,
\* documents, replicas, goroutines, batches and failures.
THEOREM Invariance == Spec => []LintInvariant
<1>1. Init => LintInvariant
  BY InvInit
<1>2. LintInvariant /\ [Next]_vars => LintInvariant'
  BY InvStep, InvStutter
<1> QED
  BY <1>1, <1>2, PTL DEF Spec

\* Both queues, and what each goroutine remembers of them, stay well-typed.
THEOREM TypeCorrectness == Spec => []TypeOK
<1>1. LintInvariant => TypeOK
  BY DEF LintInvariant
<1> QED
  BY <1>1, Invariance, PTL

\* A version task is completed only after the documents of its first batch have been
\* linted, whoever takes it over, however late a goroutine acts on what it has read,
\* and whichever whole row is written back (VersionLintCompleted, checkDocReady,
\* IncRestartCount).
THEOREM CompletionIsJustified == Spec => []SuccessIsJustified
<1>1. LintInvariant => SuccessIsJustified
  BY DEF LintInvariant
<1> QED
  BY <1>1, Invariance, PTL

-----------------------------------------------------------------------------
(***************************************************************************)
(* When nothing is late.  First, what keeps a version task with whoever    *)
(* has it in hand.                                                         *)
(***************************************************************************)
Hands == InHandIsNotTaken /\ ThreadsAreAlone

\* A step after which nobody has a task in hand that nobody had before; who hands a
\* task on keeps it no longer.
LEMMA HandsStay ==
  ASSUME Hands,
         \A h \in Thread : thread'[h].task \in {NoTask, thread[h].task},
         \A e \in Executor : checker'[e].tasks \subseteq checker[e].tasks,
         \A p \in Caller : \/ retry'[p] = retry[p]
                           \/ (retry'[p].task = NoTask /\ retry'[p].pc # "write")
                           \/ /\ retry'[p].task = retry[p].task
                              /\ retry'[p].pc = "write" => NotToBeTaken(retry'[p].row)
                           \/ /\ retry'[p].pc # "write"
                              /\ \/ \E h \in Thread : /\ thread[h].task = retry'[p].task
                                                      /\ thread'[h].task = NoTask
                                 \/ \E e \in Executor : retry'[p].task \in checker[e].tasks,
         \A t \in VersionTask : \/ version'[t] = version[t]
                                \/ ~InHand(t)
                                \/ /\ NotToBeTaken(version'[t])
                                   /\ \A h \in Thread : thread'[h].task # t
  PROVE  Hands'
<1>0. NoTask \notin VersionTask
  BY LintAssumption
<1>1. ASSUME NEW t \in VersionTask, InHand(t)'
      PROVE  InHand(t)
  BY <1>0, <1>1 DEF InHand
<1>2. ASSUME NEW t \in VersionTask, InHand(t)'
      PROVE  NotToBeTaken(version'[t])
  BY <1>1, <1>2 DEF Hands, InHandIsNotTaken
<1>3. ASSUME NEW p \in Caller, retry'[p].pc = "write"
      PROVE  NotToBeTaken(retry'[p].row)
  BY <1>3 DEF Hands, InHandIsNotTaken
<1>4. InHandIsNotTaken'
  BY <1>2, <1>3 DEF InHandIsNotTaken, NotToBeTaken
<1>5. ASSUME NEW h \in Thread, NEW t \in VersionTask, thread'[h].task = t
      PROVE  /\ version'[t].status = "processing"
             /\ \A g \in Thread \ {h} : thread'[g].task # t
             /\ \A p \in Caller : retry'[p].task # t
             /\ \A e \in Executor : t \notin checker'[e].tasks
  <2>1. thread[h].task = t
    BY <1>0, <1>5
  <2>2. /\ version[t].status = "processing"
        /\ \A g \in Thread \ {h} : thread[g].task # t
        /\ \A p \in Caller : retry[p].task # t
        /\ \A e \in Executor : t \notin checker[e].tasks
    BY <2>1 DEF Hands, ThreadsAreAlone
  <2>3. version'[t] = version[t]
    BY <1>5, <2>1 DEF InHand
  <2>4. ASSUME NEW p \in Caller, retry'[p].task = t
        PROVE  FALSE
    BY <1>0, <1>5, <2>2, <2>4
  <2> QED
    BY <1>0, <2>2, <2>3, <2>4
<1>6. ThreadsAreAlone'
  BY <1>5 DEF ThreadsAreAlone
<1> QED
  BY <1>4, <1>6 DEF Hands

\* Dealt and CheckerFails take tasks from a checker, and verdicts with them.
LEMMA DealtLess ==
  ASSUME TypeOK, NEW e0 \in Executor, NEW t0 \in VersionTask, Dealt(e0, t0)
  PROVE  /\ \A e \in Executor : checker'[e].tasks \subseteq checker[e].tasks
         /\ \A e \in Executor, t \in VersionTask :
              \/ checker'[e].verdict[t] = "unknown"
              \/ /\ checker'[e].verdict[t] = checker[e].verdict[t]
                 /\ t \in checker[e].tasks => t \in checker'[e].tasks
<1>1. checker \in CheckerType
  BY DEF TypeOK
<1>2. ASSUME NEW e \in Executor, e # e0
      PROVE  checker'[e] = checker[e]
  BY <1>1, <1>2 DEF Dealt, CheckerType
<1>3. CASE checker[e0].tasks = {t0}
  <2>1. checker'[e0] = Resting
    BY <1>1, <1>3 DEF Dealt, CheckerType
  <2> QED
    BY <1>2, <2>1 DEF Resting
<1>4. CASE checker[e0].tasks # {t0}
  <2>1. /\ checker'[e0].tasks = checker[e0].tasks \ {t0}
        /\ checker'[e0].verdict = [checker[e0].verdict EXCEPT ![t0] = "unknown"]
    BY <1>1, <1>4 DEF Dealt, CheckerType
  <2>2. checker[e0].verdict \in [VersionTask -> Verdict]
    BY <1>1 DEF CheckerType
  <2> QED
    BY <1>2, <2>1, <2>2
<1> QED
  BY <1>3, <1>4

LEMMA RestingLess ==
  ASSUME TypeOK, NEW e0 \in Executor,
         \/ checker' = [checker EXCEPT ![e0] = Resting]
         \/ checker' = [checker EXCEPT ![e0] = [Resting EXCEPT !.pc = "dead"]]
  PROVE  /\ \A e \in Executor : checker'[e].tasks \subseteq checker[e].tasks
         /\ \A e \in Executor, t \in VersionTask :
              \/ checker'[e].verdict[t] = "unknown"
              \/ /\ checker'[e].verdict[t] = checker[e].verdict[t]
                 /\ t \in checker[e].tasks => t \in checker'[e].tasks
<1>1. /\ Resting.tasks = {} /\ [Resting EXCEPT !.pc = "dead"].tasks = {}
      /\ \A t \in VersionTask : /\ Resting.verdict[t] = "unknown"
                                /\ [Resting EXCEPT !.pc = "dead"].verdict[t] = "unknown"
  BY DEF Resting
<1> QED
  BY <1>1 DEF TypeOK, CheckerType

LEMMA CheckerFailsLess ==
  ASSUME TypeOK, NEW e0 \in Executor, CheckerFails(e0)
  PROVE  /\ \A e \in Executor : checker'[e].tasks \subseteq checker[e].tasks
         /\ \A e \in Executor, t \in VersionTask :
              \/ checker'[e].verdict[t] = "unknown"
              \/ /\ checker'[e].verdict[t] = checker[e].verdict[t]
                 /\ t \in checker[e].tasks => t \in checker'[e].tasks
<1>1. \/ checker' = [checker EXCEPT ![e0] = Resting]
      \/ checker' = [checker EXCEPT ![e0] = [Resting EXCEPT !.pc = "dead"]]
      \/ \E t \in VersionTask : Dealt(e0, t)
  BY DEF CheckerFails
<1> QED
  BY <1>1, DealtLess, RestingLess

LEMMA HandsValidateVersion ==
  ASSUME LintInvariant, Hands, NEW t0 \in VersionTask, ValidateVersion(t0)
  PROVE  Hands'
<1>1. ~InHand(t0)
  BY DEF ValidateVersion, Hands, InHandIsNotTaken, NotToBeTaken
<1>2. \A t \in VersionTask : t # t0 => version'[t] = version[t]
  BY DEF ValidateVersion, LintInvariant, TypeOK
<1> QED
  BY <1>1, <1>2, HandsStay DEF ValidateVersion

LEMMA HandsVersionTaskExpires ==
  ASSUME LintInvariant, MemoryIsLive, Hands, Punctual, NEW t0 \in VersionTask,
         VersionTaskExpires(t0)
  PROVE  Hands'
<1>1. ~InHand(t0)
  <2>1. t0 # NoTask /\ ~Attended(t0)
    BY LintAssumption DEF VersionTaskExpires
  <2>2. \A h \in Thread : thread[h].task # t0
    BY <2>1 DEF Attended, MemoryIsLive
  <2>3. \A p \in Caller : retry[p].task # t0
    BY <2>1 DEF Attended, MemoryIsLive
  <2>4. \A e \in Executor : t0 \notin checker[e].tasks
    BY <2>1 DEF Attended, MemoryIsLive
  <2> QED
    BY <2>2, <2>3, <2>4 DEF InHand
<1>2. \A t \in VersionTask : t # t0 => version'[t] = version[t]
  BY DEF VersionTaskExpires, LintInvariant, TypeOK
<1> QED
  BY <1>1, <1>2, HandsStay DEF VersionTaskExpires

LEMMA HandsFindFreeVersionTask ==
  ASSUME LintInvariant, Hands, NEW h \in Thread, NEW t0 \in VersionTask,
         FindFreeVersionTask(h, t0)
  PROVE  Hands'
<1> DEFINE row == version[t0]
           waits == row.status = "waiting_for_docs"
           exhausted == ~waits /\ row.restarts >= MaxRestarts
<1>1. \A t \in VersionTask : t # t0 => version'[t] = version[t]
  BY DEF FindFreeVersionTask, LintInvariant, TypeOK
<1>2. ~waits => ~InHand(t0)
  BY DEF FindFreeVersionTask, FreeVersionTask, Hands, InHandIsNotTaken, NotToBeTaken
<1>3. version'[t0].status = (IF exhausted THEN "error" ELSE "processing") /\ ~version'[t0].stale
  BY DEF FindFreeVersionTask, LintInvariant, TypeOK
<1>4. CASE waits
  <2>1. NotToBeTaken(version'[t0])
    BY <1>3, <1>4 DEF NotToBeTaken
  <2>2. \A g \in Thread : thread[g].task # t0
    BY <1>4 DEF Hands, ThreadsAreAlone
  <2>3. UNCHANGED <<thread, retry, checker>>
    BY <1>4 DEF FindFreeVersionTask
  <2> QED
    BY <1>1, <2>1, <2>2, <2>3, HandsStay
<1>5. CASE exhausted
  <2>1. UNCHANGED <<thread, retry, checker>>
    BY <1>5 DEF FindFreeVersionTask
  <2> QED
    BY <1>1, <1>2, <1>5, <2>1, HandsStay
<1>6. CASE ~waits /\ ~exhausted
  <2>1. /\ thread' = [thread EXCEPT ![h] = [pc |-> "taken", task |-> t0, restarts |-> 0]]
        /\ UNCHANGED <<retry, checker>>
    BY <1>6 DEF FindFreeVersionTask
  <2>2. /\ thread'[h].task = t0
        /\ \A g \in Thread : g # h => thread'[g] = thread[g]
    BY <2>1 DEF LintInvariant, TypeOK, ThreadType
  <2>3. version'[t0].status = "processing" /\ ~version'[t0].stale
    BY <1>3, <1>6
  <2>4. ASSUME NEW t \in VersionTask, t # t0
        PROVE  InHand(t)' => InHand(t)
    BY <2>1, <2>2, <2>4 DEF InHand
  <2>5. InHandIsNotTaken'
    BY <1>1, <2>1, <2>3, <2>4 DEF Hands, InHandIsNotTaken, NotToBeTaken
  <2>6. ThreadsAreAlone'
    BY <1>1, <1>2, <1>6, <2>1, <2>2, <2>3 DEF Hands, ThreadsAreAlone, InHand
  <2> QED
    BY <2>5, <2>6 DEF Hands
<1> QED
  BY <1>4, <1>5, <1>6

LEMMA HandsGetTaskById ==
  ASSUME LintInvariant, Hands, NEW h \in Thread, GetTaskById(h)
  PROVE  Hands'
<1>1. \A g \in Thread : thread'[g].task \in {NoTask, thread[g].task}
  BY DEF GetTaskById, LintInvariant, TypeOK, ThreadType, Idle
<1> QED
  BY <1>1, HandsStay DEF GetTaskById, rows

\* A step in which a thread finishes with its task.
LEMMA ThreadFinishes ==
  ASSUME LintInvariant, Hands, NEW h \in Thread, NEW t0 \in VersionTask,
         thread[h].task = t0, thread' = [thread EXCEPT ![h] = Idle],
         UNCHANGED <<checker, retry>>,
         \A t \in VersionTask : t # t0 => version'[t] = version[t],
         NotToBeTaken(version'[t0])
  PROVE  Hands'
<1>1. thread'[h].task = NoTask /\ \A g \in Thread : g # h => thread'[g] = thread[g]
  BY DEF LintInvariant, TypeOK, ThreadType, Idle
<1>2. \A g \in Thread : thread'[g].task # t0
  BY <1>1, LintAssumption DEF Hands, ThreadsAreAlone
<1> QED
  BY <1>1, <1>2, HandsStay

LEMMA HandsSaveDocTasksAndUpdVer ==
  ASSUME LintInvariant, Hands, NEW h \in Thread, NEW u \in Unusable,
         SaveDocTasksAndUpdVer(h, u)
  PROVE  Hands'
<1> DEFINE t0 == thread[h].task
<1>1. t0 \in VersionTask
  BY DEF SaveDocTasksAndUpdVer, LintInvariant, WorkIsKnown
<1>2. /\ \A t \in VersionTask : t # t0 => version'[t] = version[t]
      /\ version'[t0].status \in {"error", "waiting_for_docs"}
  BY <1>1 DEF SaveDocTasksAndUpdVer, LintInvariant, TypeOK, VersionRow
<1>3. NotToBeTaken(version'[t0])
  BY <1>2 DEF NotToBeTaken
<1> QED
  BY <1>1, <1>2, <1>3, ThreadFinishes DEF SaveDocTasksAndUpdVer

LEMMA HandsCompleteWithoutDocuments ==
  ASSUME LintInvariant, Hands, NEW h \in Thread, CompleteWithoutDocuments(h)
  PROVE  Hands'
<1> DEFINE t0 == thread[h].task
<1>1. t0 \in VersionTask
  BY DEF CompleteWithoutDocuments, LintInvariant, WorkIsKnown
<1>2. /\ \A t \in VersionTask : t # t0 => version'[t] = version[t]
      /\ version'[t0].status = "success"
  BY <1>1 DEF CompleteWithoutDocuments, Complete, LintInvariant, TypeOK, VersionRow
<1>3. NotToBeTaken(version'[t0])
  BY <1>2 DEF NotToBeTaken
<1> QED
  BY <1>1, <1>2, <1>3, ThreadFinishes DEF CompleteWithoutDocuments

LEMMA HandsProcessingFails ==
  ASSUME LintInvariant, Hands, NEW h \in Thread, ProcessingFails(h)
  PROVE  Hands'
<1>1. thread'[h].task = NoTask /\ \A g \in Thread : g # h => thread'[g] = thread[g]
  BY DEF ProcessingFails, LintInvariant, TypeOK, ThreadType, Idle
<1>2. \/ UNCHANGED retry
      \/ retry' = [retry EXCEPT ![h] = [pc |-> "read", task |-> thread[h].task, row |-> NoRow]]
  BY DEF ProcessingFails, HandleProcessingFailed
<1>3. \A p \in Caller :
        \/ retry'[p] = retry[p]
        \/ retry'[p].pc = "read" /\ retry'[p].task = thread[h].task
  BY <1>2 DEF LintInvariant, TypeOK, RetryType
<1> QED
  BY <1>1, <1>3, HandsStay DEF ProcessingFails, rows

LEMMA HandsIncRestartCountRead ==
  ASSUME LintInvariant, Hands, NEW p0 \in Caller, IncRestartCountRead(p0)
  PROVE  Hands'
<1>1. retry[p0].task \in VersionTask
  BY DEF IncRestartCountRead, LintInvariant, WorkIsKnown
<1>2. NotToBeTaken(version[retry[p0].task])
  BY <1>1 DEF Hands, InHandIsNotTaken, InHand
<1>3. /\ retry'[p0].task = retry[p0].task /\ retry'[p0].row = version[retry[p0].task]
      /\ \A p \in Caller : p # p0 => retry'[p] = retry[p]
  BY DEF IncRestartCountRead, LintInvariant, TypeOK, RetryType
<1> QED
  BY <1>2, <1>3, HandsStay DEF IncRestartCountRead, rows

LEMMA HandsIncRestartCountWrite ==
  ASSUME LintInvariant, Hands, NEW p0 \in Caller, IncRestartCountWrite(p0)
  PROVE  Hands'
<1> DEFINE t0 == retry[p0].task
           row == retry[p0].row
<1>1. t0 \in VersionTask
  BY DEF IncRestartCountWrite, LintInvariant, WorkIsKnown
<1>2. NotToBeTaken(row)
  BY DEF IncRestartCountWrite, Hands, InHandIsNotTaken
<1>3. /\ version'[t0].status = row.status /\ version'[t0].stale = row.stale
      /\ \A t \in VersionTask : t # t0 => version'[t] = version[t]
  BY <1>1 DEF IncRestartCountWrite, LintInvariant, TypeOK, RetryType, VersionRow
<1>4. NotToBeTaken(version'[t0])
  BY <1>2, <1>3 DEF NotToBeTaken
<1>5. \A h \in Thread : thread[h].task # t0
  BY <1>1 DEF Hands, ThreadsAreAlone
<1>6. /\ retry'[p0].task = NoTask /\ retry'[p0].pc = "none"
      /\ \A p \in Caller : p # p0 => retry'[p] = retry[p]
  BY DEF IncRestartCountWrite, LintInvariant, TypeOK, RetryType, NoRetry
<1> QED
  BY <1>3, <1>4, <1>5, <1>6, HandsStay DEF IncRestartCountWrite

LEMMA HandsGetWaitingForDocTasks ==
  ASSUME LintInvariant, Hands, NEW e0 \in Executor, GetWaitingForDocTasks(e0)
  PROVE  Hands'
<1> DEFINE waiting == {t \in VersionTask : version[t].status = "waiting_for_docs"}
<1>1. checker'[e0].tasks = waiting /\ \A e \in Executor : e # e0 => checker'[e] = checker[e]
  BY DEF GetWaitingForDocTasks, LintInvariant, TypeOK, CheckerType
<1>2. UNCHANGED <<version, thread, retry>>
  BY DEF GetWaitingForDocTasks, rows
<1>3. ASSUME NEW t \in VersionTask, InHand(t)'
      PROVE  NotToBeTaken(version[t])
  <2>1. CASE t \in waiting
    BY <2>1 DEF NotToBeTaken
  <2>2. CASE t \notin waiting
    <3>1. InHand(t)
      BY <1>1, <1>2, <1>3, <2>2 DEF InHand
    <3> QED
      BY <3>1 DEF Hands, InHandIsNotTaken
  <2> QED
    BY <2>1, <2>2
<1>4. InHandIsNotTaken'
  BY <1>2, <1>3 DEF Hands, InHandIsNotTaken, NotToBeTaken
<1>5. ThreadsAreAlone'
  BY <1>1, <1>2 DEF Hands, ThreadsAreAlone
<1> QED
  BY <1>4, <1>5 DEF Hands

LEMMA VerdictsAreNew ==
  ASSUME TypeOK, NEW e0 \in Executor, GetDocTasksForVersionTasks(e0)
  PROVE  /\ \A e \in Executor : checker'[e].tasks = checker[e].tasks
         /\ \A e \in Executor, t \in VersionTask :
              IF e = e0 THEN checker'[e].verdict[t] =
                               IF t \in checker[e].tasks THEN DocVerdict(t) ELSE "unknown"
              ELSE checker'[e].verdict[t] = checker[e].verdict[t]
<1> DEFINE new == [t \in VersionTask |->
                     IF t \in checker[e0].tasks THEN DocVerdict(t) ELSE "unknown"]
<1>1. /\ checker' = [checker EXCEPT ![e0] = [checker[e0] EXCEPT !.pc = "verdicts",
                                                               !.verdict = new]]
      /\ checker \in CheckerType
  BY DEF GetDocTasksForVersionTasks, TypeOK
<1>2. \A t \in VersionTask :
        new[t] = IF t \in checker[e0].tasks THEN DocVerdict(t) ELSE "unknown"
  OBVIOUS
<1> HIDE DEF new
<1>3. /\ checker'[e0].verdict = new /\ checker'[e0].tasks = checker[e0].tasks
      /\ \A e \in Executor : e # e0 => checker'[e] = checker[e]
  BY <1>1 DEF CheckerType
<1> QED
  BY <1>2, <1>3

LEMMA HandsGetDocTasksForVersionTasks ==
  ASSUME LintInvariant, Hands, NEW e0 \in Executor, GetDocTasksForVersionTasks(e0)
  PROVE  Hands'
<1>1. \A e \in Executor : checker'[e].tasks = checker[e].tasks
  BY VerdictsAreNew DEF LintInvariant
<1> QED
  BY <1>1, HandsStay DEF GetDocTasksForVersionTasks, rows

LEMMA HandsUpdateLastActive ==
  ASSUME LintInvariant, Hands, NEW e0 \in Executor, NEW t0 \in VersionTask,
         UpdateLastActive(e0, t0)
  PROVE  Hands'
<1>1. \A e \in Executor : checker'[e].tasks \subseteq checker[e].tasks
  BY DealtLess DEF UpdateLastActive, LintInvariant
<1>2. NotToBeTaken(version[t0]) /\ \A h \in Thread : thread[h].task # t0
  BY DEF UpdateLastActive, DealsWith, Hands, InHandIsNotTaken, InHand, ThreadsAreAlone
<1>3. /\ version'[t0].status = version[t0].status
      /\ version'[t0].stale => version[t0].stale
      /\ \A t \in VersionTask : t # t0 => version'[t] = version[t]
  BY DEF UpdateLastActive, LintInvariant, TypeOK, VersionRow
<1>4. NotToBeTaken(version'[t0])
  BY <1>2, <1>3 DEF NotToBeTaken
<1> QED
  BY <1>1, <1>2, <1>3, <1>4, HandsStay DEF UpdateLastActive

LEMMA HandsCompleteWithDocuments ==
  ASSUME LintInvariant, Hands, NEW e0 \in Executor, NEW t0 \in VersionTask,
         CompleteWithDocuments(e0, t0)
  PROVE  Hands'
<1>1. \A e \in Executor : checker'[e].tasks \subseteq checker[e].tasks
  BY DealtLess DEF CompleteWithDocuments, LintInvariant
<1>2. \A h \in Thread : thread[h].task # t0
  BY DEF CompleteWithDocuments, DealsWith, Hands, ThreadsAreAlone
<1>3. /\ version'[t0].status = "success"
      /\ \A t \in VersionTask : t # t0 => version'[t] = version[t]
  BY DEF CompleteWithDocuments, Complete, LintInvariant, TypeOK, VersionRow
<1>4. NotToBeTaken(version'[t0])
  BY <1>3 DEF NotToBeTaken
<1> QED
  BY <1>1, <1>2, <1>3, <1>4, HandsStay DEF CompleteWithDocuments

LEMMA HandsCheckerPanics ==
  ASSUME LintInvariant, Hands, NEW e0 \in Executor, NEW t0 \in VersionTask,
         CheckerPanics(e0, t0)
  PROVE  Hands'
<1>1. \A e \in Executor : checker'[e].tasks \subseteq checker[e].tasks
  BY RestingLess DEF CheckerPanics, LintInvariant
<1> QED
  BY <1>1, HandsStay DEF CheckerPanics, rows

LEMMA HandsCheckerFails ==
  ASSUME LintInvariant, Hands, NEW e0 \in Executor, CheckerFails(e0)
  PROVE  Hands'
<1>1. \A e \in Executor : checker'[e].tasks \subseteq checker[e].tasks
  BY CheckerFailsLess DEF LintInvariant
<1>2. \/ UNCHANGED retry
      \/ \E t \in checker[e0].tasks :
           retry' = [retry EXCEPT ![e0] = [pc |-> "read", task |-> t, row |-> NoRow]]
  BY DEF CheckerFails, HandleProcessingFailed, DealsWith
<1>3. \A p \in Caller :
        \/ retry'[p] = retry[p]
        \/ retry'[p].pc = "read" /\ retry'[p].task \in checker[e0].tasks
  BY <1>2 DEF LintInvariant, TypeOK, RetryType
<1> QED
  BY <1>1, <1>3, HandsStay DEF CheckerFails, rows

LEMMA HandsCrash ==
  ASSUME LintInvariant, Hands, NEW e0 \in Executor, Crash(e0)
  PROVE  Hands'
<1>1. \A h \in Thread : thread'[h].task \in {NoTask, thread[h].task}
  BY DEF Crash, Idle
<1>2. \A e \in Executor : checker'[e].tasks \subseteq checker[e].tasks
  BY DEF Crash, LintInvariant, TypeOK, CheckerType, Resting
<1>3. \A p \in Caller : retry'[p] = retry[p] \/ (retry'[p].task = NoTask /\ retry'[p].pc # "write")
  BY DEF Crash, NoRetry
<1> QED
  BY <1>1, <1>2, <1>3, HandsStay DEF Crash, rows

\* Whoever acts is live.
LEMMA LiveStays ==
  ASSUME MemoryIsLive, UNCHANGED live,
         \A h \in Thread : thread'[h].task \in {NoTask, thread[h].task} \/ ExecutorOf[h] \in live,
         \A p \in Caller : retry'[p].task \in {NoTask, retry[p].task} \/ CallerIsLive(p),
         \A e \in Executor : checker'[e].tasks \subseteq checker[e].tasks \/ e \in live,
         \A w \in Worker : \/ worker'[w] = worker[w] /\ beat'[w] = beat[w]
                           \/ ExecutorOf[w] \in live
  PROVE  MemoryIsLive'
BY DEF MemoryIsLive, CallerIsLive

LEMMA LiveThreadStep ==
  ASSUME LintInvariant, MemoryIsLive, NEW h \in Thread,
         \/ \E t0 \in VersionTask : FindFreeVersionTask(h, t0)
         \/ GetTaskById(h) \/ CompleteWithoutDocuments(h) \/ ProcessingFails(h)
         \/ \E u \in Unusable : SaveDocTasksAndUpdVer(h, u)
  PROVE  MemoryIsLive'
<1>1. ExecutorOf[h] \in live /\ UNCHANGED <<live, checker, worker, beat>>
  BY DEF FindFreeVersionTask, GetTaskById, CompleteWithoutDocuments, ProcessingFails,
     SaveDocTasksAndUpdVer
<1>2. ASSUME NEW g \in Thread, g # h
      PROVE  thread'[g] = thread[g]
  <2>1. UNCHANGED thread \/ \E x : thread' = [thread EXCEPT ![h] = x]
    BY DEF FindFreeVersionTask, GetTaskById, CompleteWithoutDocuments, ProcessingFails,
       SaveDocTasksAndUpdVer
  <2> QED
    BY <1>2, <2>1 DEF LintInvariant, TypeOK, ThreadType
<1>3. ASSUME NEW p \in Caller, p # h
      PROVE  retry'[p] = retry[p]
  BY <1>3 DEF FindFreeVersionTask, GetTaskById, CompleteWithoutDocuments, ProcessingFails,
     HandleProcessingFailed, SaveDocTasksAndUpdVer, LintInvariant, TypeOK, RetryType
<1>4. CallerIsLive(h)
  BY <1>1 DEF CallerIsLive
<1> QED
  BY <1>1, <1>2, <1>3, <1>4, LiveStays

LEMMA LiveRetryStep ==
  ASSUME LintInvariant, MemoryIsLive, NEW p0 \in Caller,
         IncRestartCountRead(p0) \/ IncRestartCountWrite(p0)
  PROVE  MemoryIsLive'
<1>1. CallerIsLive(p0) /\ UNCHANGED <<live, thread, checker, worker, beat>>
  BY DEF IncRestartCountRead, IncRestartCountWrite
<1>2. ASSUME NEW p \in Caller, p # p0
      PROVE  retry'[p] = retry[p]
  BY <1>2 DEF IncRestartCountRead, IncRestartCountWrite, LintInvariant, TypeOK, RetryType
<1> QED
  BY <1>1, <1>2, LiveStays

LEMMA LiveCheckerStep ==
  ASSUME LintInvariant, MemoryIsLive, NEW e0 \in Executor,
         \/ GetWaitingForDocTasks(e0) \/ GetDocTasksForVersionTasks(e0) \/ CheckerFails(e0)
         \/ \E t0 \in VersionTask :
              UpdateLastActive(e0, t0) \/ CompleteWithDocuments(e0, t0) \/ CheckerPanics(e0, t0)
  PROVE  MemoryIsLive'
<1>1. e0 \in live /\ UNCHANGED <<live, thread, worker, beat>>
  BY DEF GetWaitingForDocTasks, GetDocTasksForVersionTasks, CheckerFails, UpdateLastActive,
     CompleteWithDocuments, CheckerPanics, DealsWith
<1>2. ASSUME NEW e \in Executor, e # e0
      PROVE  checker'[e] = checker[e]
  BY <1>2 DEF GetWaitingForDocTasks, GetDocTasksForVersionTasks, CheckerFails, UpdateLastActive,
     CompleteWithDocuments, CheckerPanics, Dealt, LintInvariant, TypeOK, CheckerType
<1>3. ASSUME NEW p \in Caller, p # e0
      PROVE  retry'[p] = retry[p]
  BY <1>3 DEF GetWaitingForDocTasks, GetDocTasksForVersionTasks, CheckerFails, UpdateLastActive,
     CompleteWithDocuments, CheckerPanics, HandleProcessingFailed, LintInvariant, TypeOK, RetryType
<1>4. CallerIsLive(e0)
  BY <1>1, LintAssumption DEF CallerIsLive
<1> QED
  BY <1>1, <1>2, <1>3, <1>4, LiveStays

LEMMA LiveWorkerStep ==
  ASSUME LintInvariant, MemoryIsLive, NEW w0 \in Worker,
         \/ \E d0 \in DocTask : FindFreeDocTask(w0, d0)
         \/ ReturnLeftover(w0) \/ SaveFails(w0) \/ KeepaliveRead(w0) \/ KeepaliveEnds(w0)
         \/ \E st \in Finished : SaveLintResult(w0, st)
  PROVE  MemoryIsLive'
<1>1. ExecutorOf[w0] \in live /\ UNCHANGED <<live, thread, checker, retry>>
  BY DEF FindFreeDocTask, ReturnLeftover, SaveFails, KeepaliveRead, KeepaliveEnds,
     KeepaliveWrite, KeepaliveFails, SaveLintResult
<1>2. ASSUME NEW w \in Worker, w # w0
      PROVE  worker'[w] = worker[w] /\ beat'[w] = beat[w]
  BY <1>2 DEF FindFreeDocTask, ReturnLeftover, SaveFails, KeepaliveRead, KeepaliveEnds,
     KeepaliveWrite, KeepaliveFails, SaveLintResult, LintInvariant, TypeOK, WorkerType, BeatType
<1> QED
  BY <1>1, <1>2, LiveStays

LEMMA LiveRowStep ==
  ASSUME MemoryIsLive,
         \/ \E t0 \in VersionTask : ValidateVersion(t0) \/ VersionTaskExpires(t0)
         \/ \E d0 \in DocTask : DocTaskExpires(d0)
  PROVE  MemoryIsLive'
<1>1. UNCHANGED <<live, thread, checker, retry, worker, beat>>
  BY DEF ValidateVersion, VersionTaskExpires, DocTaskExpires
<1> QED
  BY <1>1, LiveStays

LEMMA LiveCrash ==
  ASSUME LintInvariant, MemoryIsLive, NEW e0 \in Executor, Crash(e0)
  PROVE  MemoryIsLive'
<1>1. live' = live \ {e0}
  BY DEF Crash
<1>2. ASSUME NEW h \in Thread, thread'[h].task # NoTask
      PROVE  ExecutorOf[h] \in live'
  BY <1>1, <1>2 DEF Crash, Idle, MemoryIsLive
<1>3. ASSUME NEW p \in Caller, retry'[p].task # NoTask
      PROVE  CallerIsLive(p)'
  <2>1. retry'[p] = retry[p] /\ p # e0 /\ (p \in Thread => ExecutorOf[p] # e0)
    BY <1>3 DEF Crash, NoRetry
  <2> QED
    BY <1>1, <1>3, <2>1 DEF MemoryIsLive, CallerIsLive
<1>4. ASSUME NEW e \in Executor, checker'[e].tasks # {}
      PROVE  e \in live'
  BY <1>1, <1>4 DEF Crash, Resting, MemoryIsLive, LintInvariant, TypeOK, CheckerType
<1>5. ASSUME NEW w \in Worker, worker'[w].pc # "idle" \/ beat'[w] # NoBeat
      PROVE  ExecutorOf[w] \in live'
  BY <1>1, <1>5 DEF Crash, Waiting, MemoryIsLive
<1> QED
  BY <1>2, <1>3, <1>4, <1>5 DEF MemoryIsLive

-----------------------------------------------------------------------------
(***************************************************************************)
(* What keeps a document task with its worker until it is finished.        *)
(***************************************************************************)
\* What has been finished is remembered, and no document task is added.
DocsStay ==
  /\ everDone \subseteq everDone'
  /\ \A d \in DocTask : doc[d].status = "none" => doc'[d].status = "none"

LEMMA WorkersSaveDocTasks ==
  ASSUME LintInvariant, WorkersHoldOn, NEW h \in Thread, NEW u \in Unusable,
         SaveDocTasksAndUpdVer(h, u)
  PROVE  /\ WorkersHoldOn'
         /\ \A d \in DocTask : d[1] # thread[h].task => doc'[d] = doc[d]
         /\ \A d \in DocTask : doc[d].status # "none" => doc'[d] = doc[d]
<1> DEFINE t == thread[h].task
           saved == {t} \X {batches[t] + 1} \X selected[t]
<1>1. t \in VersionTask /\ batches[t] \in Nat
  BY LintAssumption DEF SaveDocTasksAndUpdVer, LintInvariant, WorkIsKnown, TypeOK
<1>2. ASSUME NEW d \in DocTask, d \in saved
      PROVE  doc[d].status = "none" /\ d[1] = t
  <2>1. d[1] = t /\ d[2] = batches[t] + 1
    BY <1>2
  <2> QED
    BY <1>1, <2>1 DEF LintInvariant, DocTasksAreSaved
<1>3. \A d \in DocTask : d \notin saved => doc'[d] = doc[d]
  BY DEF SaveDocTasksAndUpdVer
<1>4. /\ \A d \in DocTask : d[1] # t => doc'[d] = doc[d]
      /\ \A d \in DocTask : doc[d].status # "none" => doc'[d] = doc[d]
  BY <1>2, <1>3
<1>5. UNCHANGED <<worker, beat>>
  BY DEF SaveDocTasksAndUpdVer
<1>6. /\ \A w \in Worker : worker[w].pc # "idle" =>
           worker[w].task \in DocTask /\ doc[worker[w].task].status # "none"
      /\ \A w \in Worker : beat[w] # NoBeat =>
           beat[w].task \in DocTask /\ doc[beat[w].task].status # "none"
  BY DEF LintInvariant, WorkIsKnown
<1>7. WorkersHoldOn'
  BY <1>4, <1>5, <1>6 DEF WorkersHoldOn, HeldBy
<1> QED
  BY <1>4, <1>7

LEMMA WorkersDocTaskExpires ==
  ASSUME LintInvariant, MemoryIsLive, WorkersHoldOn, Punctual, NEW d0 \in DocTask,
         DocTaskExpires(d0)
  PROVE  WorkersHoldOn' /\ DocsStay
<1>1. /\ \A d \in DocTask : d # d0 => doc'[d] = doc[d]
      /\ doc'[d0].status = "processing" /\ doc[d0].status = "processing"
  BY DEF DocTaskExpires, LintInvariant, TypeOK, DocRow
<1>2. /\ \A w \in Worker : worker[w].pc # "idle" => worker[w].task # d0
      /\ \A w \in Worker : beat[w] # NoBeat => beat[w].task # d0
  BY DEF DocTaskExpires, MemoryIsLive
<1>3. UNCHANGED <<worker, beat>>
  BY DEF DocTaskExpires
<1>4. /\ \A w \in Worker : worker[w].pc # "idle" => worker[w].task \in DocTask
      /\ \A w \in Worker : beat[w] # NoBeat => beat[w].task \in DocTask
  BY DEF LintInvariant, WorkIsKnown
<1>5. WorkersHoldOn'
  BY <1>1, <1>2, <1>3, <1>4 DEF WorkersHoldOn, HeldBy
<1> QED
  BY <1>1, <1>5 DEF DocsStay, DocTaskExpires

LEMMA WorkersFindFreeDocTask ==
  ASSUME LintInvariant, WorkersHoldOn, NEW w0 \in Worker, NEW d0 \in DocTask,
         FindFreeDocTask(w0, d0)
  PROVE  WorkersHoldOn' /\ DocsStay
<1> DEFINE exhausted == doc[d0].restarts >= MaxRestarts
<1>1. /\ \A d \in DocTask : d # d0 => doc'[d] = doc[d]
      /\ doc'[d0].status = IF exhausted THEN "error" ELSE "processing"
      /\ ~exhausted => doc'[d0].executor = w0 /\ ~doc'[d0].stale
  BY DEF FindFreeDocTask, LintInvariant, TypeOK, DocRow
<1>2. /\ worker'[w0].pc = IF exhausted THEN "leftover" ELSE "linting"
      /\ worker'[w0].task = d0 /\ (~exhausted => worker'[w0].executor = w0)
      /\ \A w \in Worker : w # w0 => worker'[w] = worker[w]
      /\ UNCHANGED beat /\ everDone \subseteq everDone'
  BY DEF FindFreeDocTask, LintInvariant, TypeOK, WorkerType
<1>3. doc[d0].status \notin Finished /\ doc[d0].status # "none" /\ \A w \in Worker : ~HeldBy(d0, w)
  BY DEF FindFreeDocTask, FreeDocTask, HeldBy, Finished
<1>4. /\ \A w \in Worker : worker[w].pc # "idle" => worker[w].task \in DocTask /\ worker[w].task # d0
      /\ \A w \in Worker : beat[w] # NoBeat => beat[w].task \in DocTask /\ beat[w].task # d0
  BY <1>3 DEF LintInvariant, WorkIsKnown, WorkersHoldOn
<1>5. \/ doc'[d0].status \in Finished
      \/ worker'[w0].pc = "linting" /\ worker'[w0].executor = w0 /\ HeldBy(d0, w0)'
  BY <1>1, <1>2 DEF HeldBy, Finished
<1>6. WorkersHoldOn'
  BY <1>1, <1>2, <1>4, <1>5 DEF WorkersHoldOn, HeldBy
<1>7. DocsStay
  BY <1>1, <1>2, <1>3 DEF DocsStay
<1> QED
  BY <1>6, <1>7

LEMMA WorkersReturnLeftover ==
  ASSUME LintInvariant, WorkersHoldOn, NEW w0 \in Worker, ReturnLeftover(w0)
  PROVE  WorkersHoldOn' /\ DocsStay
<1>1. /\ worker'[w0].task = worker[w0].task /\ worker[w0].pc = "leftover"
      /\ \A w \in Worker : w # w0 => worker'[w] = worker[w]
      /\ UNCHANGED <<doc, beat, everDone>>
  BY DEF ReturnLeftover, rows, LintInvariant, TypeOK, WorkerType
<1>2. WorkersHoldOn'
  BY <1>1 DEF WorkersHoldOn, HeldBy
<1> QED
  BY <1>1, <1>2 DEF DocsStay

LEMMA WorkersKeepaliveRead ==
  ASSUME LintInvariant, WorkersHoldOn, NEW w0 \in Worker, KeepaliveRead(w0)
  PROVE  WorkersHoldOn' /\ DocsStay
<1>1. /\ beat'[w0] = [task |-> worker[w0].task, executor |-> worker[w0].executor]
      /\ \A w \in Worker : w # w0 => beat'[w] = beat[w]
      /\ UNCHANGED <<doc, worker, everDone>>
  BY DEF KeepaliveRead, rows, LintInvariant, TypeOK, BeatType
<1>2. worker[w0].executor = w0 /\ HeldBy(worker[w0].task, w0)
  BY DEF KeepaliveRead, WorkersHoldOn
<1>3. WorkersHoldOn'
  BY <1>1, <1>2 DEF WorkersHoldOn, HeldBy
<1> QED
  BY <1>1, <1>3 DEF DocsStay

\* The worker refreshes the document task it holds, or opens the one it has just
\* finished, which nobody lints.
LEMMA WorkersKeepaliveWrite ==
  ASSUME LintInvariant, WorkersHoldOn, NEW w0 \in Worker, KeepaliveWrite(w0)
  PROVE  WorkersHoldOn' /\ DocsStay
<1> DEFINE d0 == beat[w0].task
<1>1. /\ d0 \in DocTask /\ beat[w0].executor = w0
      /\ doc[d0].status # "none" /\ doc[d0].executor = w0
      /\ HeldBy(d0, w0) \/ \A u \in Worker : worker[u].pc # "idle" => worker[u].task # d0
  BY DEF KeepaliveWrite, LintInvariant, WorkIsKnown, WorkersHoldOn, HeldBy
<1>2. doc' = [doc EXCEPT ![d0] = [doc[d0] EXCEPT !.status = "processing", !.stale = FALSE]]
  BY <1>1 DEF KeepaliveWrite
<1>3. /\ \A d \in DocTask : d # d0 => doc'[d] = doc[d]
      /\ doc'[d0].status = "processing" /\ doc'[d0].executor = w0 /\ ~doc'[d0].stale
  BY <1>1, <1>2 DEF LintInvariant, TypeOK, DocRow
<1>4. /\ beat'[w0] = NoBeat /\ UNCHANGED <<worker, everDone>>
      /\ \A w \in Worker : w # w0 => beat'[w] = beat[w]
  BY DEF KeepaliveWrite, LintInvariant, TypeOK, BeatType
<1>5. /\ \A w \in Worker : worker[w].pc # "idle" => worker[w].task \in DocTask
      /\ \A w \in Worker : beat[w] # NoBeat => beat[w].task \in DocTask
  BY DEF LintInvariant, WorkIsKnown
<1>6. ASSUME NEW w \in Worker, worker[w].pc # "idle"
      PROVE  \/ doc'[worker[w].task].status \in Finished
             \/ /\ worker[w].pc = "linting" /\ worker[w].executor = w
                /\ HeldBy(worker[w].task, w)'
  <2>1. CASE worker[w].task = d0
    <3>1. HeldBy(d0, w0) /\ doc[d0].status \notin Finished
      BY <1>1, <1>6, <2>1 DEF HeldBy, Finished
    <3>2. worker[w].pc = "linting" /\ worker[w].executor = w /\ w = w0
      BY <1>6, <2>1, <3>1 DEF WorkersHoldOn, HeldBy
    <3> QED
      BY <1>3, <1>4, <2>1, <3>2 DEF HeldBy
  <2>2. CASE worker[w].task # d0
    BY <1>3, <1>4, <1>5, <1>6, <2>2 DEF WorkersHoldOn, HeldBy
  <2> QED
    BY <2>1, <2>2
<1>7. ASSUME NEW w \in Worker, beat'[w] # NoBeat
      PROVE  /\ beat[w].task # d0 /\ beat[w] # NoBeat /\ beat'[w] = beat[w]
             /\ doc'[beat[w].task] = doc[beat[w].task]
  <2>1. w # w0 /\ beat'[w] = beat[w]
    BY <1>4, <1>7
  <2>2. doc[beat[w].task].executor = w /\ beat[w].task \in DocTask
    BY <1>5, <1>7, <2>1 DEF WorkersHoldOn, HeldBy
  <2> QED
    BY <1>1, <1>3, <1>7, <2>1, <2>2
<1>8. WorkersHoldOn'
  BY <1>4, <1>6, <1>7 DEF WorkersHoldOn, HeldBy
<1> QED
  BY <1>1, <1>3, <1>4, <1>8 DEF DocsStay

LEMMA WorkersKeepaliveFails ==
  ASSUME LintInvariant, WorkersHoldOn, NEW w0 \in Worker, KeepaliveFails(w0)
  PROVE  WorkersHoldOn' /\ DocsStay
<1>1. /\ \A w \in Worker : beat'[w] = beat[w] \/ beat'[w] = NoBeat
      /\ UNCHANGED <<doc, worker, everDone>>
  BY DEF KeepaliveFails, rows, LintInvariant, TypeOK, BeatType
<1>2. WorkersHoldOn'
  BY <1>1 DEF WorkersHoldOn, HeldBy
<1> QED
  BY <1>1, <1>2 DEF DocsStay

\* The worker finishes the document task it holds.  Its keepalive may have read that
\* before, which is why it may be opened again.
LEMMA WorkersSaveLintResult ==
  ASSUME LintInvariant, WorkersHoldOn, NEW w0 \in Worker, NEW st \in Finished,
         SaveLintResult(w0, st)
  PROVE  WorkersHoldOn' /\ DocsStay
<1> DEFINE d0 == worker[w0].task
<1>1. d0 \in DocTask /\ doc[d0].status # "none" /\ worker[w0].pc = "linting"
  BY DEF SaveLintResult, LintInvariant, WorkIsKnown
<1>2. /\ \A d \in DocTask : d # d0 => doc'[d] = doc[d]
      /\ doc'[d0] = doc[d0] \/ doc'[d0].status \in Finished
      /\ doc'[d0].executor = doc[d0].executor
  BY <1>1 DEF SaveLintResult, LintInvariant, TypeOK, DocRow
<1>3. /\ worker'[w0].pc = "idle" /\ UNCHANGED beat /\ everDone \subseteq everDone'
      /\ \A w \in Worker : w # w0 => worker'[w] = worker[w]
  BY DEF SaveLintResult, LintInvariant, TypeOK, WorkerType, Waiting
<1>4. doc[d0].status \in Finished \/ (worker[w0].executor = w0 /\ HeldBy(d0, w0))
  BY <1>1 DEF WorkersHoldOn
<1>5. doc'[d0].status \in Finished
  <2>1. CASE doc[d0].status \in Finished
    BY <1>2, <2>1
  <2>2. CASE worker[w0].executor = w0 /\ HeldBy(d0, w0)
    BY <1>1, <2>2 DEF SaveLintResult, HeldBy, LintInvariant, TypeOK, DocRow
  <2> QED
    BY <1>4, <2>1, <2>2
<1>6. ASSUME NEW w \in Worker, worker'[w].pc # "idle", NEW d, d = worker[w].task
      PROVE  /\ worker'[w] = worker[w]
             /\ \/ doc'[d].status \in Finished
                \/ worker[w].pc = "linting" /\ worker[w].executor = w /\ HeldBy(d, w)'
  <2>1. worker'[w] = worker[w] /\ worker[w].pc # "idle" /\ d \in DocTask
    BY <1>3, <1>6 DEF LintInvariant, WorkIsKnown
  <2>2. CASE d = d0
    BY <1>5, <2>1, <2>2
  <2>3. CASE d # d0
    <3>1. doc'[d] = doc[d]
      BY <1>2, <2>1, <2>3
    <3>2. \/ doc[d].status \in Finished
          \/ worker[w].pc = "linting" /\ worker[w].executor = w /\ HeldBy(d, w)
      BY <1>6, <2>1 DEF WorkersHoldOn
    <3> QED
      BY <2>1, <3>1, <3>2 DEF HeldBy
  <2> QED
    BY <2>2, <2>3
<1>7. ASSUME NEW w \in Worker, beat'[w] # NoBeat, NEW d, d = beat[w].task
      PROVE  /\ beat'[w] = beat[w] /\ beat[w].executor = w
             /\ \/ HeldBy(d, w)'
                \/ /\ doc'[d].status \in Finished /\ doc'[d].executor = w
                   /\ \A u \in Worker : worker'[u].pc # "idle" => worker'[u].task # d
  <2>1. /\ beat'[w] = beat[w] /\ d \in DocTask /\ beat[w].executor = w
        /\ \/ HeldBy(d, w)
           \/ /\ doc[d].status \in Finished /\ doc[d].executor = w
              /\ \A u \in Worker : worker[u].pc # "idle" => worker[u].task # d
    BY <1>3, <1>7 DEF LintInvariant, WorkIsKnown, WorkersHoldOn
  <2>2. CASE d # d0
    <3>1. doc'[d] = doc[d]
      BY <1>2, <2>1, <2>2
    <3>2. \A u \in Worker : worker'[u].pc # "idle" =>
            worker[u].pc # "idle" /\ worker'[u].task = worker[u].task
      BY <1>3
    <3>3. HeldBy(d, w) => HeldBy(d, w)'
      BY <3>1 DEF HeldBy
    <3> QED
      BY <2>1, <3>1, <3>2, <3>3
  <2>3. CASE d = d0
    <3>1. HeldBy(d, w) /\ doc[d].status \notin Finished
      BY <1>1, <2>1, <2>3 DEF HeldBy, Finished
    <3>2. ASSUME NEW u \in Worker, worker'[u].pc # "idle"
          PROVE  worker'[u].task # d
      <4>1. worker'[u] = worker[u] /\ u # w0
        BY <1>3, <3>2
      <4>2. HeldBy(d0, w0)
        BY <1>4, <2>3, <3>1
      <4> QED
        BY <2>3, <3>1, <3>2, <4>1, <4>2 DEF WorkersHoldOn, HeldBy
    <3>3. doc'[d].status \in Finished /\ doc'[d].executor = w
      BY <1>2, <1>5, <2>3, <3>1 DEF HeldBy
    <3> QED
      BY <2>1, <3>2, <3>3
  <2> QED
    BY <2>2, <2>3
<1>8. WorkersHoldOn'
  BY <1>3, <1>6, <1>7 DEF WorkersHoldOn, HeldBy
<1> QED
  BY <1>1, <1>2, <1>3, <1>8 DEF DocsStay

LEMMA WorkersSaveFails ==
  ASSUME LintInvariant, WorkersHoldOn, NEW w0 \in Worker, SaveFails(w0)
  PROVE  WorkersHoldOn' /\ DocsStay
<1>1. /\ worker'[w0].pc = "idle" /\ UNCHANGED <<doc, beat, everDone>>
      /\ \A w \in Worker : w # w0 => worker'[w] = worker[w]
  BY DEF SaveFails, rows, LintInvariant, TypeOK, WorkerType, Waiting
<1>2. WorkersHoldOn'
  BY <1>1 DEF WorkersHoldOn, HeldBy
<1> QED
  BY <1>1, <1>2 DEF DocsStay

LEMMA WorkersCrash ==
  ASSUME WorkersHoldOn, NEW e0 \in Executor, Crash(e0)
  PROVE  WorkersHoldOn' /\ DocsStay
<1>1. /\ UNCHANGED <<doc, everDone>>
      /\ \A w \in Worker : worker'[w] = worker[w] \/ worker'[w].pc = "idle"
      /\ \A w \in Worker : beat'[w] = beat[w] \/ beat'[w] = NoBeat
  BY DEF Crash, rows, Waiting
<1>2. WorkersHoldOn'
  BY <1>1 DEF WorkersHoldOn, HeldBy
<1> QED
  BY <1>1, <1>2 DEF DocsStay

-----------------------------------------------------------------------------
(***************************************************************************)
(* What has been finished when a task is completed.                        *)
(***************************************************************************)
LEMMA DocsLintedStays ==
  ASSUME DocsStay, NEW t, DocsLinted(t)
  PROVE  DocsLinted(t)'
BY DEF DocsStay, DocsLinted, DocsOf

\* A step that adds no document task, and after which a new verdict and a new completed
\* row are those of a task whose documents have been finished.
LEMMA LintedStays ==
  ASSUME LintedForGood, DocsStay, UNCHANGED selected,
         \A e \in Executor, t \in VersionTask :
           \/ checker'[e].verdict[t] = "unknown"
           \/ /\ checker'[e].verdict[t] = checker[e].verdict[t]
              /\ t \in checker[e].tasks => t \in checker'[e].tasks
           \/ /\ t \in checker'[e].tasks
              /\ checker'[e].verdict[t] \in Finished => DocsLinted(t),
         \A p \in Caller :
           \/ retry'[p] = retry[p]
           \/ retry'[p].pc # "write"
           \/ retry'[p].row.status # "success"
           \/ \E t \in VersionTask : retry'[p].task = t /\ DocsLinted(t),
         \A t \in VersionTask :
           version'[t].status = "success" => version[t].status = "success" \/ DocsLinted(t)
  PROVE  LintedForGood'
<1>1. ASSUME NEW d \in DocTask, doc'[d].status # "none"
      PROVE  d[3] \in selected'[d[1]]
  <2>1. doc[d].status # "none"
    BY <1>1 DEF DocsStay
  <2>2. d[3] \in selected[d[1]]
    BY <2>1 DEF LintedForGood
  <2> QED
    BY <2>2
<1>2. \A e \in Executor, t \in VersionTask :
        checker'[e].verdict[t] # "unknown" => t \in checker'[e].tasks
  BY DEF LintedForGood
<1>3. ASSUME NEW e \in Executor, NEW t \in VersionTask, checker'[e].verdict[t] \in Finished
      PROVE  DocsLinted(t)'
  <2>1. DocsLinted(t)
    BY <1>3 DEF LintedForGood, Finished
  <2> QED
    BY <2>1, DocsLintedStays
<1>4. ASSUME NEW p \in Caller, retry'[p].pc = "write", retry'[p].row.status = "success"
      PROVE  DocsLinted(retry[p].task)'
  <2>1. PICK t : retry'[p].task = t /\ DocsLinted(t)
    BY <1>4 DEF LintedForGood
  <2>2. DocsLinted(t)'
    BY <2>1, DocsLintedStays
  <2> QED
    BY <2>1, <2>2 DEF DocsLinted, DocsOf
<1>5. ASSUME NEW t \in VersionTask, version'[t].status = "success"
      PROVE  DocsLinted(t)'
  <2>1. DocsLinted(t)
    BY <1>5 DEF LintedForGood
  <2> QED
    BY <2>1, DocsLintedStays
<1> QED
  BY <1>1, <1>2, <1>3, <1>4, <1>5 DEF LintedForGood

\* The steps on document tasks alone.
LEMMA LintedDocStep ==
  ASSUME LintedForGood, DocsStay, UNCHANGED <<selected, version, checker, retry>>
  PROVE  LintedForGood'
BY LintedStays

\* A crash only makes the checker and the retries forget.
LEMMA LintedCrash ==
  ASSUME LintInvariant, LintedForGood, DocsStay, NEW e0 \in Executor, Crash(e0)
  PROVE  LintedForGood'
<1>1. \A p \in Caller : retry'[p] = retry[p] \/ retry'[p].pc # "write"
  BY DEF Crash, NoRetry
<1>2. checker' = [checker EXCEPT ![e0] = Resting] /\ UNCHANGED <<selected, version>>
  BY DEF Crash, rows
<1>3. \A e \in Executor, t \in VersionTask :
              \/ checker'[e].verdict[t] = "unknown"
              \/ /\ checker'[e].verdict[t] = checker[e].verdict[t]
                 /\ t \in checker[e].tasks => t \in checker'[e].tasks
  BY <1>2, RestingLess DEF LintInvariant
<1> QED
  BY <1>1, <1>2, <1>3, LintedStays

LEMMA LintedSaveDocTasks ==
  ASSUME LintInvariant, LintedForGood, ThreadsAreAlone, WorkersHoldOn,
         NEW h \in Thread, NEW u \in Unusable, SaveDocTasksAndUpdVer(h, u)
  PROVE  LintedForGood'
<1> DEFINE t0 == thread[h].task
           saved == {t0} \X {batches[t0] + 1} \X selected[t0]
<1>1. t0 \in VersionTask /\ UNCHANGED <<selected, checker, retry>>
  BY DEF SaveDocTasksAndUpdVer, LintInvariant, WorkIsKnown
<1>2. \A d \in DocTask : d[1] # t0 => doc'[d] = doc[d]
  BY WorkersSaveDocTasks
<1>3. \A t : t # t0 /\ DocsLinted(t) => DocsLinted(t)'
  <2>1. everDone \subseteq everDone'
    BY DEF SaveDocTasksAndUpdVer
  <2> QED
    BY <1>2, <2>1 DEF DocsLinted, DocsOf
<1>4. /\ \A p \in Caller : retry[p].task # t0
      /\ \A e \in Executor : t0 \notin checker[e].tasks
  BY <1>1 DEF ThreadsAreAlone
<1>5. ASSUME NEW d \in DocTask, doc'[d].status # "none"
      PROVE  d[3] \in selected'[d[1]]
  <2>1. CASE d \in saved
    <3>1. d[1] = t0 /\ d[3] \in selected[t0]
      BY <2>1
    <3> QED
      BY <1>1, <3>1
  <2>2. CASE d \notin saved
    <3>1. doc'[d] = doc[d]
      BY <2>2 DEF SaveDocTasksAndUpdVer
    <3> QED
      BY <1>1, <1>5, <3>1 DEF LintedForGood
  <2> QED
    BY <2>1, <2>2
<1>6. \A e \in Executor, t \in VersionTask :
        checker'[e].verdict[t] # "unknown" => t \in checker'[e].tasks
  BY <1>1 DEF LintedForGood
<1>7. ASSUME NEW e \in Executor, NEW t \in VersionTask, checker'[e].verdict[t] \in Finished
      PROVE  DocsLinted(t)'
  <2>1. DocsLinted(t) /\ t # t0
    BY <1>1, <1>4, <1>7 DEF LintedForGood, Finished
  <2> QED
    BY <2>1, <1>3
<1>8. ASSUME NEW p \in Caller, retry'[p].pc = "write", retry'[p].row.status = "success"
      PROVE  DocsLinted(retry[p].task)'
  <2>1. PICK t : retry[p].task = t /\ DocsLinted(t)
    BY <1>1, <1>8 DEF LintedForGood
  <2>2. DocsLinted(t)'
    BY <1>3, <1>4, <2>1
  <2> QED
    BY <1>1, <2>1, <2>2 DEF DocsLinted, DocsOf
<1>9. ASSUME NEW t \in VersionTask, version'[t].status = "success"
      PROVE  DocsLinted(t)'
  <2>1. version'[t0].status # "success" /\ \A s \in VersionTask : s # t0 => version'[s] = version[s]
    BY <1>1 DEF SaveDocTasksAndUpdVer, LintInvariant, TypeOK, VersionRow
  <2>2. DocsLinted(t) /\ t # t0
    BY <1>9, <2>1 DEF LintedForGood
  <2> QED
    BY <2>2, <1>3
<1> QED
  BY <1>5, <1>6, <1>7, <1>8, <1>9 DEF LintedForGood

\* The steps on version tasks: the documents are untouched.
LEMMA LintedVersionStep ==
  ASSUME LintInvariant, LintedForGood, UNCHANGED <<doc, selected, checker, retry, everDone>>,
         \A t \in VersionTask :
           version'[t].status = "success" => version[t].status = "success" \/ DocsLinted(t)
  PROVE  LintedForGood'
<1>1. DocsStay
  BY DEF DocsStay
<1> QED
  BY <1>1, LintedStays

LEMMA LintedRowStep ==
  ASSUME LintInvariant, LintedForGood, NEW t0 \in VersionTask,
         \/ ValidateVersion(t0) \/ VersionTaskExpires(t0)
         \/ \E h \in Thread : FindFreeVersionTask(h, t0)
  PROVE  LintedForGood'
<1>1. UNCHANGED <<doc, selected, checker, retry, everDone>>
  BY DEF ValidateVersion, VersionTaskExpires, FindFreeVersionTask
<1>2. \A t \in VersionTask : version'[t].status = "success" => version[t].status = "success"
  BY DEF ValidateVersion, VersionTaskExpires, FindFreeVersionTask, LintInvariant, TypeOK, VersionRow
<1> QED
  BY <1>1, <1>2, LintedVersionStep

LEMMA LintedGetTaskById ==
  ASSUME LintInvariant, LintedForGood, NEW h \in Thread, GetTaskById(h)
  PROVE  LintedForGood'
BY LintedVersionStep DEF GetTaskById, rows

LEMMA LintedCompleteWithoutDocuments ==
  ASSUME LintInvariant, LintedForGood, NEW h \in Thread, CompleteWithoutDocuments(h)
  PROVE  LintedForGood'
<1> DEFINE t0 == thread[h].task
<1>1. t0 \in VersionTask /\ selected[t0] = {}
      /\ UNCHANGED <<doc, selected, checker, retry, everDone>>
  BY DEF CompleteWithoutDocuments, LintInvariant, WorkIsKnown
<1>2. DocsLinted(t0)
  BY <1>1 DEF DocsLinted, DocsOf, LintedForGood
<1>3. \A t \in VersionTask : t # t0 => version'[t] = version[t]
  BY <1>1 DEF CompleteWithoutDocuments, Complete, LintInvariant, TypeOK
<1> QED
  BY <1>1, <1>2, <1>3, LintedVersionStep

LEMMA LintedProcessingFails ==
  ASSUME LintInvariant, LintedForGood, NEW h \in Thread, ProcessingFails(h)
  PROVE  LintedForGood'
<1>1. \A p \in Caller : retry'[p] = retry[p] \/ retry'[p].pc = "read"
  BY DEF ProcessingFails, HandleProcessingFailed, LintInvariant, TypeOK, RetryType
<1>2. DocsStay /\ UNCHANGED <<version, checker, selected>>
  BY DEF ProcessingFails, rows, DocsStay
<1> QED
  BY <1>1, <1>2, LintedStays

LEMMA LintedIncRestartCountRead ==
  ASSUME LintInvariant, LintedForGood, NEW p0 \in Caller, IncRestartCountRead(p0)
  PROVE  LintedForGood'
<1>1. retry[p0].task \in VersionTask
  BY DEF IncRestartCountRead, LintInvariant, WorkIsKnown
<1>2. /\ retry'[p0].task = retry[p0].task /\ retry'[p0].row = version[retry[p0].task]
      /\ \A p \in Caller : p # p0 => retry'[p] = retry[p]
  BY DEF IncRestartCountRead, LintInvariant, TypeOK, RetryType
<1>3. DocsStay /\ UNCHANGED <<version, checker, selected>>
  BY DEF IncRestartCountRead, rows, DocsStay
<1>4. retry'[p0].row.status = "success" => DocsLinted(retry[p0].task)
  BY <1>1, <1>2 DEF LintedForGood
<1> QED
  BY <1>1, <1>2, <1>3, <1>4, LintedStays

LEMMA LintedIncRestartCountWrite ==
  ASSUME LintInvariant, LintedForGood, NEW p0 \in Caller, IncRestartCountWrite(p0)
  PROVE  LintedForGood'
<1> DEFINE t0 == retry[p0].task
<1>1. t0 \in VersionTask
  BY DEF IncRestartCountWrite, LintInvariant, WorkIsKnown
<1>2. /\ version'[t0].status = retry[p0].row.status
      /\ \A t \in VersionTask : t # t0 => version'[t] = version[t]
  BY <1>1 DEF IncRestartCountWrite, LintInvariant, TypeOK, RetryType, VersionRow
<1>3. version'[t0].status = "success" => DocsLinted(t0)
  BY <1>2 DEF IncRestartCountWrite, LintedForGood
<1>4. \A p \in Caller : retry'[p] = retry[p] \/ retry'[p].pc # "write"
  BY DEF IncRestartCountWrite, LintInvariant, TypeOK, RetryType, NoRetry
<1>5. DocsStay /\ UNCHANGED <<checker, selected>>
  BY DEF IncRestartCountWrite, DocsStay
<1> QED
  BY <1>2, <1>3, <1>4, <1>5, LintedStays

LEMMA LintedGetWaitingForDocTasks ==
  ASSUME LintInvariant, LintedForGood, NEW e0 \in Executor, GetWaitingForDocTasks(e0)
  PROVE  LintedForGood'
<1>1. /\ \A t \in VersionTask : checker'[e0].verdict[t] = "unknown"
      /\ \A e \in Executor : e # e0 => checker'[e] = checker[e]
  BY DEF GetWaitingForDocTasks, Resting, LintInvariant, TypeOK, CheckerType
<1>2. DocsStay /\ UNCHANGED <<version, retry, selected>>
  BY DEF GetWaitingForDocTasks, rows, DocsStay
<1> QED
  BY <1>1, <1>2, LintedStays

\* The verdict of checkDocReady is one on the documents as they are.
LEMMA LintedGetDocTasksForVersionTasks ==
  ASSUME LintInvariant, LintedForGood, NEW e0 \in Executor, GetDocTasksForVersionTasks(e0)
  PROVE  LintedForGood'
<1>1. ASSUME NEW t \in VersionTask, DocVerdict(t) \in Finished
      PROVE  DocsLinted(t)
  <2>1. \A d \in DocsOf(t) : doc[d].status \in Finished
    BY <1>1 DEF DocVerdict, Finished
  <2> QED
    BY <2>1 DEF DocsLinted, DocsOf, LintInvariant, DocTasksAreSaved
<1>2. TypeOK
  BY DEF LintInvariant
<1>3. \A e \in Executor : checker'[e].tasks = checker[e].tasks
  BY <1>2, VerdictsAreNew
<1>4. \A t \in VersionTask :
        checker'[e0].verdict[t] = IF t \in checker[e0].tasks THEN DocVerdict(t) ELSE "unknown"
  BY <1>2, VerdictsAreNew
<1>5. \A e \in Executor, t \in VersionTask :
        e # e0 => checker'[e].verdict[t] = checker[e].verdict[t]
  BY <1>2, VerdictsAreNew
<1>6. DocsStay /\ UNCHANGED <<version, retry, selected>>
  BY DEF GetDocTasksForVersionTasks, rows, DocsStay
<1> QED
  BY <1>1, <1>3, <1>4, <1>5, <1>6, LintedStays

LEMMA LintedUpdateLastActive ==
  ASSUME LintInvariant, LintedForGood, NEW e0 \in Executor, NEW t0 \in VersionTask,
         UpdateLastActive(e0, t0)
  PROVE  LintedForGood'
<1>1. \A e \in Executor, t \in VersionTask :
        \/ checker'[e].verdict[t] = "unknown"
        \/ /\ checker'[e].verdict[t] = checker[e].verdict[t]
           /\ t \in checker[e].tasks => t \in checker'[e].tasks
  BY DealtLess DEF UpdateLastActive, LintInvariant
<1>2. \A t \in VersionTask : version'[t].status = version[t].status
  BY DEF UpdateLastActive, LintInvariant, TypeOK, VersionRow
<1>3. DocsStay /\ UNCHANGED <<retry, selected>>
  BY DEF UpdateLastActive, DocsStay
<1> QED
  BY <1>1, <1>2, <1>3, LintedStays

LEMMA LintedCompleteWithDocuments ==
  ASSUME LintInvariant, LintedForGood, NEW e0 \in Executor, NEW t0 \in VersionTask,
         CompleteWithDocuments(e0, t0)
  PROVE  LintedForGood'
<1>1. \A e \in Executor, t \in VersionTask :
        \/ checker'[e].verdict[t] = "unknown"
        \/ /\ checker'[e].verdict[t] = checker[e].verdict[t]
           /\ t \in checker[e].tasks => t \in checker'[e].tasks
  BY DealtLess DEF CompleteWithDocuments, LintInvariant
<1>2. DocsLinted(t0)
  BY DEF CompleteWithDocuments, LintedForGood
<1>3. \A t \in VersionTask : t # t0 => version'[t] = version[t]
  BY DEF CompleteWithDocuments, Complete, LintInvariant, TypeOK
<1>4. DocsStay /\ UNCHANGED <<retry, selected>>
  BY DEF CompleteWithDocuments, DocsStay
<1> QED
  BY <1>1, <1>2, <1>3, <1>4, LintedStays

LEMMA LintedCheckerPanics ==
  ASSUME LintInvariant, LintedForGood, NEW e0 \in Executor, NEW t0 \in VersionTask,
         CheckerPanics(e0, t0)
  PROVE  LintedForGood'
<1>1. \A e \in Executor, t \in VersionTask :
        \/ checker'[e].verdict[t] = "unknown"
        \/ /\ checker'[e].verdict[t] = checker[e].verdict[t]
           /\ t \in checker[e].tasks => t \in checker'[e].tasks
  BY RestingLess DEF CheckerPanics, LintInvariant
<1>2. DocsStay /\ UNCHANGED <<version, retry, selected>>
  BY DEF CheckerPanics, rows, DocsStay
<1> QED
  BY <1>1, <1>2, LintedStays

LEMMA LintedCheckerFails ==
  ASSUME LintInvariant, LintedForGood, NEW e0 \in Executor, CheckerFails(e0)
  PROVE  LintedForGood'
<1>1. \A e \in Executor, t \in VersionTask :
        \/ checker'[e].verdict[t] = "unknown"
        \/ /\ checker'[e].verdict[t] = checker[e].verdict[t]
           /\ t \in checker[e].tasks => t \in checker'[e].tasks
  BY CheckerFailsLess DEF LintInvariant
<1>2. \A p \in Caller : retry'[p] = retry[p] \/ retry'[p].pc = "read"
  BY DEF CheckerFails, HandleProcessingFailed, LintInvariant, TypeOK, RetryType
<1>3. DocsStay /\ UNCHANGED <<version, selected>>
  BY DEF CheckerFails, rows, DocsStay
<1> QED
  BY <1>1, <1>2, <1>3, LintedStays

-----------------------------------------------------------------------------
(***************************************************************************)
(* The parts together.                                                     *)
(***************************************************************************)
LEMMA HandsUntouched ==
  ASSUME Hands, UNCHANGED <<version, thread, checker, retry>>
  PROVE  Hands'
BY HandsStay

LEMMA WorkersUntouched ==
  ASSUME WorkersHoldOn, UNCHANGED <<doc, worker, beat>>
  PROVE  WorkersHoldOn'
BY DEF WorkersHoldOn, HeldBy

LEMMA PunctualParts ==
  PunctualInvariant <=> MemoryIsLive /\ Hands /\ WorkersHoldOn /\ LintedForGood
BY DEF PunctualInvariant, Hands

LEMMA PunctualRowStep ==
  ASSUME LintInvariant, PunctualInvariant, Punctual, NEW t0 \in VersionTask,
         ValidateVersion(t0) \/ VersionTaskExpires(t0)
  PROVE  PunctualInvariant'
<1>1. MemoryIsLive /\ Hands /\ WorkersHoldOn /\ LintedForGood
  BY PunctualParts
<1>2. UNCHANGED <<doc, worker, beat>>
  BY DEF ValidateVersion, VersionTaskExpires
<1>3. MemoryIsLive'
  BY <1>1, LiveRowStep
<1>4. Hands'
  BY <1>1, HandsValidateVersion, HandsVersionTaskExpires
<1>5. WorkersHoldOn'
  BY <1>1, <1>2, WorkersUntouched
<1>6. LintedForGood'
  BY <1>1, LintedRowStep
<1> QED
  BY <1>3, <1>4, <1>5, <1>6 DEF PunctualInvariant, Hands

LEMMA PunctualThreadStep ==
  ASSUME LintInvariant, PunctualInvariant, NEW h \in Thread,
         \/ \E t0 \in VersionTask : FindFreeVersionTask(h, t0)
         \/ ThreadStep(h)
         \/ ProcessingFails(h)
  PROVE  PunctualInvariant'
<1>1. MemoryIsLive /\ Hands /\ WorkersHoldOn /\ LintedForGood
  BY PunctualParts
<1>2. CASE \E u \in Unusable : SaveDocTasksAndUpdVer(h, u)
  <2>1. MemoryIsLive'
    BY <1>1, <1>2, LiveThreadStep
  <2>2. Hands'
    BY <1>1, <1>2, HandsSaveDocTasksAndUpdVer
  <2>3. WorkersHoldOn'
    BY <1>1, <1>2, WorkersSaveDocTasks
  <2>4. LintedForGood'
    BY <1>1, <1>2, LintedSaveDocTasks DEF Hands
  <2> QED
    BY <2>1, <2>2, <2>3, <2>4 DEF PunctualInvariant, Hands
<1>3. CASE \/ \E t0 \in VersionTask : FindFreeVersionTask(h, t0)
           \/ GetTaskById(h) \/ CompleteWithoutDocuments(h) \/ ProcessingFails(h)
  <2>1. UNCHANGED <<doc, worker, beat>>
    BY <1>3 DEF FindFreeVersionTask, GetTaskById, CompleteWithoutDocuments, ProcessingFails, rows
  <2>2. MemoryIsLive'
    BY <1>1, <1>3, LiveThreadStep
  <2>3. Hands'
    BY <1>1, <1>3, HandsFindFreeVersionTask, HandsGetTaskById, HandsCompleteWithoutDocuments,
       HandsProcessingFails
  <2>4. WorkersHoldOn'
    BY <1>1, <2>1, WorkersUntouched
  <2>5. LintedForGood'
    BY <1>1, <1>3, LintedRowStep, LintedGetTaskById, LintedCompleteWithoutDocuments,
       LintedProcessingFails
  <2> QED
    BY <2>2, <2>3, <2>4, <2>5 DEF PunctualInvariant, Hands
<1> QED
  BY <1>2, <1>3 DEF ThreadStep

LEMMA PunctualRetryStep ==
  ASSUME LintInvariant, PunctualInvariant, NEW p0 \in Caller, RetryStep(p0)
  PROVE  PunctualInvariant'
<1>1. MemoryIsLive /\ Hands /\ WorkersHoldOn /\ LintedForGood
  BY PunctualParts
<1>2. IncRestartCountRead(p0) \/ IncRestartCountWrite(p0)
  BY DEF RetryStep
<1>3. MemoryIsLive'
  BY <1>1, <1>2, LiveRetryStep
<1>4. Hands'
  BY <1>1, <1>2, HandsIncRestartCountRead, HandsIncRestartCountWrite
<1>5. UNCHANGED <<doc, worker, beat>>
  BY <1>2 DEF IncRestartCountRead, IncRestartCountWrite, rows
<1>6. WorkersHoldOn'
  BY <1>1, <1>5, WorkersUntouched
<1>7. LintedForGood'
  BY <1>1, <1>2, LintedIncRestartCountRead, LintedIncRestartCountWrite
<1> QED
  BY <1>3, <1>4, <1>6, <1>7 DEF PunctualInvariant, Hands

LEMMA PunctualCheckerStep ==
  ASSUME LintInvariant, PunctualInvariant, NEW e0 \in Executor,
         CheckerStep(e0) \/ CheckerFails(e0)
  PROVE  PunctualInvariant'
<1>1. MemoryIsLive /\ Hands /\ WorkersHoldOn /\ LintedForGood
  BY PunctualParts
<1>2. \/ GetWaitingForDocTasks(e0) \/ GetDocTasksForVersionTasks(e0) \/ CheckerFails(e0)
      \/ \E t0 \in VersionTask :
           UpdateLastActive(e0, t0) \/ CompleteWithDocuments(e0, t0) \/ CheckerPanics(e0, t0)
  BY DEF CheckerStep
<1>3. MemoryIsLive'
  BY <1>1, <1>2, LiveCheckerStep
<1>4. Hands'
  BY <1>1, <1>2, HandsGetWaitingForDocTasks, HandsGetDocTasksForVersionTasks, HandsCheckerFails,
     HandsUpdateLastActive, HandsCompleteWithDocuments, HandsCheckerPanics
<1>5. UNCHANGED <<doc, worker, beat>>
  BY <1>2 DEF GetWaitingForDocTasks, GetDocTasksForVersionTasks, CheckerFails,
     UpdateLastActive, CompleteWithDocuments, CheckerPanics, rows
<1>6. WorkersHoldOn'
  BY <1>1, <1>5, WorkersUntouched
<1>7. LintedForGood'
  BY <1>1, <1>2, LintedGetWaitingForDocTasks, LintedGetDocTasksForVersionTasks,
     LintedCheckerFails, LintedUpdateLastActive, LintedCompleteWithDocuments, LintedCheckerPanics
<1> QED
  BY <1>3, <1>4, <1>6, <1>7 DEF PunctualInvariant, Hands

LEMMA PunctualDocStep ==
  ASSUME LintInvariant, PunctualInvariant, Punctual,
         \/ \E d0 \in DocTask : DocTaskExpires(d0)
         \/ \E w0 \in Worker :
              \/ \E d0 \in DocTask : FindFreeDocTask(w0, d0)
              \/ SaveStep(w0) \/ SaveFails(w0) \/ KeepaliveRead(w0) \/ KeepaliveEnds(w0)
  PROVE  PunctualInvariant'
<1>1. MemoryIsLive /\ Hands /\ WorkersHoldOn /\ LintedForGood
  BY PunctualParts
<1>2. ASSUME NEW w0 \in Worker,
             \/ \E d0 \in DocTask : FindFreeDocTask(w0, d0)
             \/ ReturnLeftover(w0) \/ SaveFails(w0) \/ KeepaliveRead(w0) \/ KeepaliveEnds(w0)
             \/ \E st \in Finished : SaveLintResult(w0, st)
      PROVE  /\ MemoryIsLive' /\ WorkersHoldOn' /\ DocsStay
             /\ UNCHANGED <<version, thread, checker, retry, selected>>
  <2>1. MemoryIsLive'
    BY <1>1, <1>2, LiveWorkerStep
  <2>2. WorkersHoldOn' /\ DocsStay
    BY <1>1, <1>2, WorkersFindFreeDocTask, WorkersReturnLeftover, WorkersSaveFails,
       WorkersKeepaliveRead, WorkersKeepaliveWrite, WorkersKeepaliveFails,
       WorkersSaveLintResult DEF KeepaliveEnds
  <2>3. UNCHANGED <<version, thread, checker, retry, selected>>
    BY <1>2 DEF FindFreeDocTask, ReturnLeftover, SaveFails, KeepaliveRead, KeepaliveEnds,
       KeepaliveWrite, KeepaliveFails, SaveLintResult, rows
  <2> QED
    BY <2>1, <2>2, <2>3
<1>3. ASSUME NEW d0 \in DocTask, DocTaskExpires(d0)
      PROVE  /\ MemoryIsLive' /\ WorkersHoldOn' /\ DocsStay
             /\ UNCHANGED <<version, thread, checker, retry, selected>>
  <2>1. MemoryIsLive'
    BY <1>1, <1>3, LiveRowStep
  <2>2. WorkersHoldOn' /\ DocsStay
    BY <1>1, <1>3, WorkersDocTaskExpires
  <2> QED
    BY <1>3, <2>1, <2>2 DEF DocTaskExpires
<1>4. /\ MemoryIsLive' /\ WorkersHoldOn' /\ DocsStay
      /\ UNCHANGED <<version, thread, checker, retry, selected>>
  <2>1. Outcome \subseteq Finished
    BY LintAssumption DEF Finished
  <2> QED
    BY <1>2, <1>3, <2>1 DEF SaveStep
<1>5. Hands'
  BY <1>1, <1>4, HandsUntouched
<1>6. LintedForGood'
  BY <1>1, <1>4, LintedDocStep
<1> QED
  BY <1>4, <1>5, <1>6 DEF PunctualInvariant, Hands

LEMMA PunctualCrash ==
  ASSUME LintInvariant, PunctualInvariant, NEW e0 \in Executor, Crash(e0)
  PROVE  PunctualInvariant'
<1>1. MemoryIsLive /\ Hands /\ WorkersHoldOn /\ LintedForGood
  BY PunctualParts
<1>2. MemoryIsLive' /\ Hands' /\ WorkersHoldOn' /\ DocsStay
  BY <1>1, LiveCrash, HandsCrash, WorkersCrash
<1>3. LintedForGood'
  BY <1>1, <1>2, LintedCrash
<1> QED
  BY <1>2, <1>3 DEF PunctualInvariant, Hands

LEMMA PunctualInit == Init => PunctualInvariant
<1> SUFFICES ASSUME Init PROVE PunctualInvariant
  OBVIOUS
<1>1. MemoryIsLive
  BY DEF Init, MemoryIsLive, Idle, NoRetry, Resting, Waiting
<1>2. \A t \in VersionTask : ~InHand(t)
  BY LintAssumption DEF Init, InHand, Idle, NoRetry, Resting
<1>3. InHandIsNotTaken
  BY <1>2 DEF Init, InHandIsNotTaken, NoRetry
<1>4. ThreadsAreAlone
  BY <1>2 DEF ThreadsAreAlone, InHand
<1>5. WorkersHoldOn
  BY DEF Init, WorkersHoldOn, Waiting
<1>6. LintedForGood
  BY DEF Init, LintedForGood, NoRow, NoRetry, Resting, Finished
<1> QED
  BY <1>1, <1>3, <1>4, <1>5, <1>6 DEF PunctualInvariant

LEMMA PunctualStutter ==
  ASSUME PunctualInvariant, UNCHANGED vars
  PROVE  PunctualInvariant'
<1>1. MemoryIsLive /\ Hands /\ WorkersHoldOn /\ LintedForGood
  BY PunctualParts
<1>2. UNCHANGED <<version, doc, thread, checker, retry, worker, beat, live, selected,
                  everDone>>
  BY DEF vars, rows
<1>3. MemoryIsLive' /\ Hands' /\ WorkersHoldOn' /\ DocsStay
  BY <1>1, <1>2, LiveStays, HandsUntouched, WorkersUntouched DEF DocsStay
<1>4. LintedForGood'
  BY <1>1, <1>2, <1>3, LintedDocStep
<1> QED
  BY <1>3, <1>4 DEF PunctualInvariant, Hands

LEMMA PunctualStep ==
  ASSUME LintInvariant, PunctualInvariant, Punctual, Next
  PROVE  PunctualInvariant'
<1>1. CASE \E t \in VersionTask : ValidateVersion(t) \/ VersionTaskExpires(t)
  BY <1>1, PunctualRowStep
<1>2. CASE \/ \E h \in Thread, t \in VersionTask : FindFreeVersionTask(h, t)
           \/ \E h \in Thread : ThreadStep(h) \/ ProcessingFails(h)
  BY <1>2, PunctualThreadStep
<1>3. CASE \E p \in Caller : RetryStep(p)
  BY <1>3, PunctualRetryStep
<1>4. CASE \E e \in Executor : CheckerStep(e) \/ CheckerFails(e)
  BY <1>4, PunctualCheckerStep
<1>5. CASE \/ \E d \in DocTask : DocTaskExpires(d)
           \/ \E w \in Worker, d \in DocTask : FindFreeDocTask(w, d)
           \/ \E w \in Worker :
                SaveStep(w) \/ SaveFails(w) \/ KeepaliveRead(w) \/ KeepaliveEnds(w)
  BY <1>5, PunctualDocStep
<1>6. CASE \E e \in Executor : Crash(e)
  BY <1>6, PunctualCrash
<1> QED
  BY <1>1, <1>2, <1>3, <1>4, <1>5, <1>6 DEF Next, Fault

\* When every live goroutine is faster than the keepalive timeout, a version task is
\* taken over only when nobody has it in hand, a document task only when its worker
\* has crashed, and what checkDocReady and IncRestartCount remember of a task is not
\* overtaken by another batch of its documents.
THEOREM PunctualInvariance == ASSUME Punctual PROVE Spec => []PunctualInvariant
<1>1. Init => LintInvariant /\ PunctualInvariant
  BY InvInit, PunctualInit
<1>2. ASSUME LintInvariant, PunctualInvariant, [Next]_vars
      PROVE  LintInvariant' /\ PunctualInvariant'
  BY <1>2, InvStep, InvStutter, PunctualStep, PunctualStutter
<1>3. LintInvariant /\ PunctualInvariant /\ [Next]_vars => LintInvariant' /\ PunctualInvariant'
  BY <1>2
<1> QED
  BY <1>1, <1>3, PTL DEF Spec

\* Then each document task of a completed version task has been finished, although
\* crashed replicas, failed queries and repeated batches leave several generations of
\* document tasks behind (FindFreeVersionTask, SaveDocTasksAndUpdVer,
\* VersionLintCompleted).  One that is unfinished afterwards has been opened again by
\* the keepalive of the worker that finished it (SetDocTaskStatus).
THEOREM CompletedMeansLinted == ASSUME Punctual PROVE Spec => []SuccessMeansLinted
<1>1. PunctualInvariant => SuccessMeansLinted
  BY DEF PunctualInvariant, LintedForGood, DocsLinted, SuccessMeansLinted
<1> QED
  BY <1>1, PunctualInvariance, PTL

=============================================================================
