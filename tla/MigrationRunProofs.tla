-------------------------- MODULE MigrationRunProofs --------------------------
(***************************************************************************)
(* What a migration promises while no keepalive is late, for any number of *)
(* rebuilds, instances, take-overs and failures: each version is rebuilt   *)
(* once, stages do not overlap, and a settled migration stays settled and  *)
(* leaves no builds.                                                       *)
(***************************************************************************)
EXTENDS MigrationRun, TLAPS

-------------------------------------------------------------------------------
(***************************************************************************)
(* The order of the stages.                                                *)
(***************************************************************************)
LEMMA RankType == \A s \in Stage : Rank[s] \in Nat
  BY DEF Rank, Stage, BuildStage

LEMMA NextStageType ==
  ASSUME NEW s \in Stage
  PROVE  NextStage(s) \in Stage \cup {"done", "cancelled"}
  BY DEF NextStage, Following, Stage, BuildStage

LEMMA NextStageRank ==
  ASSUME NEW s \in Stage, NextStage(s) \in Stage
  PROVE  Rank[s] < Rank[NextStage(s)] /\ NextStage(s) # "cancelling"
  BY DEF NextStage, Following, Rank, Stage, BuildStage

LEMMA BuildStageRank == \A s \in BuildStage : s \in Stage /\ Rank[s] < Rank["cancelling"]
  BY DEF Rank, Stage, BuildStage

LEMMA OnlyCancellingIsCancelled ==
  ASSUME NEW s \in Stage
  PROVE  /\ NextStage(s) = "cancelled" <=> s = "cancelling"
         /\ NextStage(s) # "failed"
  BY DEF NextStage, Following, Stage, BuildStage

-------------------------------------------------------------------------------
(***************************************************************************)
(* Type correctness.                                                       *)
(***************************************************************************)
LEMMA TryType == MaxMigrationRetries \in Nat /\ 0 \in Try /\ Try \subseteq Nat
  BY MigrationAssumption DEF Try

LEMMA ConstantRecordTypes ==
  Idle \in Fsm /\ Ended \in Fsm /\ Abandoned \in Fsm /\ Started \in Fsm
  BY DEF Idle, Ended, Abandoned, Started, Fsm, Pc, Stage, BuildStage

LEMMA ErrorTypes ==
  ASSUME NEW f \in Fsm
  PROVE  /\ Failing(f) \in Fsm
         /\ Cancelling(f) \in Fsm
         /\ Settling(f) \in Fsm
         /\ CancelNow(f) \in Fsm
<1>1. Failing(f) \in Fsm
  BY DEF Failing, Fsm, Pc
<1>2. Cancelling(f) \in Fsm
  BY DEF Cancelling, Fsm, Pc, Stage
<1>3. Settling(f) \in Fsm
  BY DEF Settling, Fsm, Pc
<1>4. CancelNow(f) \in Fsm
  <2>1. "cancel" \in Pc /\ "cancelling" \in Stage
    BY DEF Pc, Stage
  <2> QED
    BY <2>1 DEF CancelNow, Fsm
<1> QED
  BY <1>1, <1>2, <1>3, <1>4

\* The records the actions build from the one of their goroutine.
LEMMA FsmUpdates ==
  ASSUME NEW f \in Fsm, NEW items \in SUBSET Item, NEW pc \in Pc, NEW s \in Stage
  PROVE  /\ [f EXCEPT !.pc = pc] \in Fsm
         /\ [f EXCEPT !.pc = pc, !.stage = s] \in Fsm
         /\ [f EXCEPT !.pc = pc, !.todo = items] \in Fsm
         /\ [f EXCEPT !.todo = items, !.pc = pc] \in Fsm
         /\ [f EXCEPT !.pc = pc, !.begun = TRUE, !.comparisons = FALSE] \in Fsm
         /\ [f EXCEPT !.pc = pc, !.stage = s, !.goal = "done"] \in Fsm
         /\ [f EXCEPT !.cancelled = TRUE] \in Fsm
         /\ \A b \in BOOLEAN : [f EXCEPT !.check = b] \in Fsm
<1>1. [f EXCEPT !.pc = pc] \in Fsm /\ [f EXCEPT !.pc = pc, !.stage = s] \in Fsm
  BY DEF Fsm
<1>2. [f EXCEPT !.pc = pc, !.todo = items] \in Fsm
  BY DEF Fsm
<1>3. [f EXCEPT !.todo = items, !.pc = pc] \in Fsm
  BY DEF Fsm
<1>4. [f EXCEPT !.pc = pc, !.begun = TRUE, !.comparisons = FALSE] \in Fsm
  BY DEF Fsm
<1>5. [f EXCEPT !.pc = pc, !.stage = s, !.goal = "done"] \in Fsm
  BY DEF Fsm
<1>6. [f EXCEPT !.cancelled = TRUE] \in Fsm /\ \A b \in BOOLEAN : [f EXCEPT !.check = b] \in Fsm
  BY DEF Fsm
<1> QED
  BY <1>1, <1>2, <1>3, <1>4, <1>5, <1>6

LEMMA AfterErrorType ==
  ASSUME NEW f \in Fsm
  PROVE  AfterError(f) \in Fsm
<1>1. [f EXCEPT !.begun = TRUE] \in Fsm
  BY DEF Fsm
<1> QED
  BY <1>1, ErrorTypes, ConstantRecordTypes DEF AfterError

LEMMA AfterLossType ==
  ASSUME NEW f \in Fsm
  PROVE  AfterLoss(f) \in Fsm
  BY ErrorTypes, ConstantRecordTypes DEF AfterLoss

LEMMA FinishingType ==
  ASSUME NEW f \in Fsm
  PROVE  Finishing(f, NextStage(f.stage)) \in Fsm
<1>1. f.stage \in Stage
  BY DEF Fsm
<1> QED
  BY <1>1, NextStageType DEF Finishing, Fsm, Pc

LEMMA AfterBuildsType ==
  ASSUME NEW f \in Fsm, NEW found
  PROVE  AfterBuilds(f, found) \in Fsm
<1>1. [f EXCEPT !.pc = "select", !.comparisons = TRUE] \in Fsm /\ [f EXCEPT !.pc = "select"] \in Fsm
  BY DEF Fsm, Pc
<1> QED
  BY <1>1, FinishingType DEF AfterBuilds

LEMMA BeginStageType ==
  ASSUME NEW f \in Fsm
  PROVE  BeginStage(f) \in Fsm
  BY ConstantRecordTypes DEF BeginStage, Fsm, Pc

LEMMA MoveType ==
  ASSUME TypeOK, NEW g \in Try, NEW f \in Fsm, Move(g, f)
  PROVE  fsm' \in [Try -> Fsm]
  BY DEF TypeOK, Move

LEMMA FailureType ==
  ASSUME TypeOK, failures < FailureLimit
  PROVE  failures + 1 \in 0 .. FailureLimit
  BY MigrationAssumption DEF TypeOK

LEMMA BuildType ==
  ASSUME TypeOK, NEW g \in Try, NEW x \in Item, NEW s \in BuildStatus
  PROVE  [build EXCEPT ![g][x] = s] \in [Try -> [Item -> BuildStatus]]
  BY DEF TypeOK

LEMMA StoredType ==
  ASSUME TypeOK, NEW g \in Try, NEW x \in Item
  PROVE  [build EXCEPT ![g][x] = IF @ = "none" THEN "queued" ELSE @]
           \in [Try -> [Item -> BuildStatus]]
  BY DEF TypeOK, BuildStatus

LEMMA RowTypes ==
  ASSUME NEW r \in Run, NEW s \in Stage
  PROVE  /\ [r EXCEPT !.stale = TRUE] \in Run
         /\ [r EXCEPT !.stale = FALSE] \in Run
         /\ [r EXCEPT !.begun = TRUE, !.stale = FALSE] \in Run
         /\ [r EXCEPT !.stage = s, !.begun = TRUE, !.stale = FALSE] \in Run
         /\ [r EXCEPT !.status = "complete", !.stage = "done"] \in Run
         /\ [r EXCEPT !.status = "cancelled", !.stage = "cancelled"] \in Run
         /\ [r EXCEPT !.status = "failed"] \in Run
         /\ [r EXCEPT !.status = "cancelling"] \in Run
  BY DEF Run, Unfinished, Settled

LEMMA BegunType ==
  ASSUME TypeOK, NEW f \in Fsm
  PROVE  Begun(f) \in Run
<1>1. f.stage \in Stage /\ run \in Run
  BY DEF TypeOK, Fsm
<1> QED
  BY <1>1, RowTypes DEF Begun

LEMMA SettledAsType ==
  ASSUME TypeOK, NEW goal
  PROVE  SettledAs(goal) \in Run
<1>1. run \in Run /\ "starting" \in Stage
  BY DEF TypeOK, Stage
<1> QED
  BY <1>1, RowTypes DEF SettledAs

LEMMA AfterCancelType ==
  ASSUME TypeOK, NEW g
  PROVE  AfterCancel(g) \in [Try -> [Item -> BuildStatus]]
  BY DEF AfterCancel, TypeOK, BuildStatus

LEMMA TypeInit == Init => TypeOK
<1> SUFFICES ASSUME Init PROVE TypeOK
  OBVIOUS
<1>1. run \in Run
  BY TryType DEF Init, Run, Unfinished, Stage
<1>2. build \in [Try -> [Item -> BuildStatus]]
  BY DEF Init, BuildStatus
<1>3. fsm \in [Try -> Fsm]
  BY ConstantRecordTypes DEF Init
<1>4. failures \in 0 .. FailureLimit
  BY MigrationAssumption DEF Init
<1> QED
  BY ZenonT(30), <1>1, <1>2, <1>3, <1>4 DEF Init, TypeOK

LEMMA TypeNext == TypeOK /\ Bookkeeping /\ [Next]_vars => TypeOK'
<1> SUFFICES ASSUME TypeOK, Bookkeeping, [Next]_vars PROVE TypeOK'
  OBVIOUS
<1>1. ASSUME NEW g \in Try, VerifyOwnership(g) PROVE TypeOK'
  <2>1. fsm[g] \in Fsm /\ BeginStage(fsm[g]) \in Fsm /\ Ended \in Fsm
    BY BeginStageType, ConstantRecordTypes DEF TypeOK
  <2>2. fsm' \in [Try -> Fsm]
    BY <1>1, <2>1, MoveType DEF VerifyOwnership
  <2> QED
    BY <1>1, <2>2, FailureType DEF TypeOK, VerifyOwnership
<1>2. ASSUME NEW g \in Try, Halt(g) PROVE TypeOK'
  <2>1. [fsm[g] EXCEPT !.pc = "start", !.stage = "cancelling"] \in Fsm
    BY FsmUpdates DEF TypeOK, Pc, Stage
  <2>2. fsm' \in [Try -> Fsm]
    BY <1>2, <2>1, MoveType DEF Halt
  <2> QED
    BY <1>2, <2>2 DEF TypeOK, Halt, Run
<1>3. ASSUME NEW g \in Try, HandleStageStart(g) PROVE TypeOK'
  <2>1. [fsm[g] EXCEPT !.pc = Entry(fsm[g].stage), !.begun = TRUE, !.comparisons = FALSE] \in Fsm
    BY ZenonT(30), FsmUpdates DEF TypeOK, Pc, Entry, Stage
  <2>2. fsm' \in [Try -> Fsm]
    BY <1>3, <2>1, MoveType DEF HandleStageStart
  <2>3. fsm[g] \in Fsm
    BY DEF TypeOK
  <2>4. run' \in Run
    BY <1>3, <2>3, BegunType DEF HandleStageStart
  <2> QED
    BY <1>3, <2>2, <2>4 DEF TypeOK, HandleStageStart
<1>4. ASSUME NEW g \in Try, Work(g) PROVE TypeOK'
  <2>1. Failing(fsm[g]) \in Fsm /\ Finishing(fsm[g], NextStage(fsm[g].stage)) \in Fsm
    BY ErrorTypes, FinishingType DEF TypeOK
  <2>2. fsm' \in [Try -> Fsm]
    BY <1>4, <2>1, MoveType DEF Work
  <2> QED
    BY <1>4, <2>2 DEF TypeOK, Work
<1>5. ASSUME NEW g \in Try, Recover(g) PROVE TypeOK'
  <2>1. [fsm[g] EXCEPT !.pc = "select"] \in Fsm
    BY FsmUpdates DEF TypeOK, Pc, Stage
  <2>2. fsm' \in [Try -> Fsm]
    BY <1>5, <2>1, MoveType DEF Recover
  <2> QED
    BY <1>5, <2>2 DEF TypeOK, Recover
<1>6. ASSUME NEW g \in Try, SelectItems(g) PROVE TypeOK'
  <2>1. AfterBuilds(fsm[g], FALSE) \in Fsm
    BY AfterBuildsType DEF TypeOK
  <2>2. [fsm[g] EXCEPT !.pc = "create", !.todo = Selected(fsm[g])] \in Fsm
    <3>1. Selected(fsm[g]) \in SUBSET Item /\ "create" \in Pc
      BY DEF Selected, Pc
    <3> QED
      BY <3>1, FsmUpdates DEF TypeOK, Stage
  <2>3. fsm' \in [Try -> Fsm]
    BY <1>6, <2>1, <2>2, MoveType DEF SelectItems
  <2> QED
    BY <1>6, <2>3 DEF TypeOK, SelectItems
<1>7. ASSUME NEW g \in Try, NEW x \in Item, CreateBuild(g, x) PROVE TypeOK'
  <2> DEFINE rest == fsm[g].todo \ {x}
  <2>1. [fsm[g] EXCEPT !.todo = rest, !.pc = IF rest = {} THEN "wait" ELSE "create"] \in Fsm
    <3>1. rest \in SUBSET Item /\ "wait" \in Pc /\ "create" \in Pc
      BY DEF TypeOK, Fsm, Pc
    <3> HIDE DEF rest
    <3> QED
      BY <3>1, FsmUpdates DEF TypeOK, Stage
  <2>2. fsm' \in [Try -> Fsm]
    BY <1>7, <2>1, MoveType DEF CreateBuild
  <2> QED
    BY <1>7, <2>2, StoredType DEF TypeOK, CreateBuild
<1>8. ASSUME NEW g \in Try, WaitForBuilds(g) PROVE TypeOK'
  <2>1. AfterBuilds(fsm[g], TRUE) \in Fsm
    BY AfterBuildsType DEF TypeOK
  <2>2. fsm' \in [Try -> Fsm]
    BY <1>8, <2>1, MoveType DEF WaitForBuilds
  <2> QED
    BY <1>8, <2>2 DEF TypeOK, WaitForBuilds
<1>9. ASSUME NEW g \in Try, CancelBuilds(g) PROVE TypeOK'
  <2>1. Finishing(fsm[g], "cancelled") \in Fsm
    <3>1. \A f \in Fsm : Finishing(f, "cancelled") \in Fsm
      BY ZenonT(30) DEF Fsm, Pc, Finishing
    <3> QED
      BY <3>1 DEF TypeOK
  <2>2. fsm' \in [Try -> Fsm]
    BY <1>9, <2>1, MoveType DEF CancelBuilds
  <2>3. build' \in [Try -> [Item -> BuildStatus]]
    BY <1>9, AfterCancelType DEF CancelBuilds
  <2> QED
    BY <1>9, <2>2, <2>3 DEF TypeOK, CancelBuilds
<1>10. ASSUME NEW g \in Try, HandleStageFinish(g) PROVE TypeOK'
  <2>1. fsm[g].goal \in Stage \cup {"done", "cancelled"}
    BY <1>10 DEF HandleStageFinish, At, Bookkeeping, TypeOK, Fsm
  <2>2. /\ [fsm[g] EXCEPT !.pc = "drop"] \in Fsm
        /\ fsm[g].goal \in Stage =>
             [fsm[g] EXCEPT !.pc = "verify", !.stage = fsm[g].goal, !.goal = "done"] \in Fsm
    <3>1. fsm[g] \in Fsm /\ "drop" \in Pc /\ "verify" \in Pc /\ "starting" \in Stage
      BY DEF TypeOK, Pc, Stage
    <3> QED
      BY <3>1, FsmUpdates
  <2>3. fsm' \in [Try -> Fsm]
    BY <1>10, <2>1, <2>2, MoveType DEF HandleStageFinish
  <2> QED
    BY <1>10, <2>3 DEF TypeOK, HandleStageFinish, Run
<1>11. ASSUME NEW g \in Try, DropTables(g) PROVE TypeOK'
  <2>1. fsm' \in [Try -> Fsm]
    BY <1>11, ErrorTypes, MoveType DEF DropTables, TypeOK
  <2> QED
    BY <1>11, <2>1 DEF TypeOK, DropTables
<1>12. ASSUME NEW g \in Try, Settle(g) PROVE TypeOK'
  <2>1. fsm' \in [Try -> Fsm]
    BY <1>12, ConstantRecordTypes, MoveType DEF Settle
  <2>2. run' \in Run
    BY <1>12, SettledAsType DEF Settle
  <2> QED
    BY <1>12, <2>1, <2>2 DEF TypeOK, Settle
<1>13. ASSUME NEW g \in Try, ContextCancelled(g) PROVE TypeOK'
  <2>1. fsm' \in [Try -> Fsm]
    BY <1>13, AfterErrorType, MoveType DEF ContextCancelled, TypeOK
  <2> QED
    BY <1>13, <2>1 DEF TypeOK, ContextCancelled
<1>14. ASSUME NEW g \in Try, VerifyBeforeRetry(g) PROVE TypeOK'
  <2>1. [fsm[g] EXCEPT !.check = FALSE] \in Fsm
    BY FsmUpdates DEF TypeOK, Pc, Stage
  <2>2. fsm' \in [Try -> Fsm]
    BY <1>14, <2>1, AfterErrorType, AfterLossType, MoveType DEF VerifyBeforeRetry, TypeOK
  <2> QED
    BY <1>14, <2>2 DEF TypeOK, VerifyBeforeRetry
<1>15. ASSUME NEW g \in Try, NEW x \in Item, CreateUnanswered(g, x) PROVE TypeOK'
  <2>1. [fsm[g] EXCEPT !.check = TRUE] \in Fsm
    BY FsmUpdates DEF TypeOK, Pc, Stage
  <2>2. fsm' \in [Try -> Fsm]
    BY <1>15, <2>1, MoveType DEF CreateUnanswered
  <2> QED
    BY <1>15, <2>2, StoredType, FailureType DEF TypeOK, CreateUnanswered
<1>16. ASSUME NEW g \in Try, WaitTimesOut(g) PROVE TypeOK'
  <2>1. fsm' \in [Try -> Fsm]
    BY <1>16, AfterErrorType, MoveType DEF WaitTimesOut, TypeOK
  <2> QED
    BY <1>16, <2>1, FailureType DEF TypeOK, WaitTimesOut
<1>17. ASSUME NEW g \in Try, StatementFails(g) PROVE TypeOK'
  <2>1. fsm' \in [Try -> Fsm]
    BY <1>17, AfterErrorType, MoveType DEF StatementFails, TypeOK
  <2> QED
    BY <1>17, <2>1, FailureType DEF TypeOK, StatementFails
<1>18. ASSUME NEW g \in Try, DatabaseUnavailable(g) PROVE TypeOK'
  <2>1. [fsm[g] EXCEPT !.check = TRUE] \in Fsm
    BY FsmUpdates DEF TypeOK, Pc, Stage
  <2>2. fsm' \in [Try -> Fsm]
    BY <1>18, <2>1, AfterErrorType, MoveType DEF DatabaseUnavailable, TypeOK
  <2> QED
    BY <1>18, <2>2, FailureType DEF TypeOK, DatabaseUnavailable
<1>27. ASSUME NEW g \in Try, AnswerLost(g) PROVE TypeOK'
  <2>1. [fsm[g] EXCEPT !.check = TRUE] \in Fsm /\ fsm[g] \in Fsm
    BY FsmUpdates DEF TypeOK, Pc, Stage
  <2>2. fsm' \in [Try -> Fsm]
    BY <1>27, <2>1, AfterErrorType, MoveType DEF AnswerLost
  <2>3. run' \in Run
    <3>1. \A r \in Run : [r EXCEPT !.stale = FALSE] \in Run
      BY DEF Run
    <3> QED
      BY <1>27, <2>1, <3>1, BegunType, SettledAsType DEF AnswerLost, TypeOK
  <2>4. build' \in [Try -> [Item -> BuildStatus]]
    BY <1>27, AfterCancelType DEF AnswerLost, TypeOK
  <2>5. tables' \in BOOLEAN
    BY <1>27 DEF AnswerLost, TypeOK
  <2> QED
    BY <1>27, <2>2, <2>3, <2>4, <2>5, FailureType DEF TypeOK, AnswerLost
<1>19. ASSUME NEW g \in Try, KeepAliveStops(g) PROVE TypeOK'
  BY <1>19, FailureType DEF TypeOK, KeepAliveStops
<1>20. ASSUME NEW g \in Try, KeepAlive(g) PROVE TypeOK'
  <2>1. [fsm EXCEPT ![g].cancelled = TRUE] \in [Try -> Fsm]
    BY FsmUpdates DEF TypeOK, Pc, Stage
  <2>2. fsm' \in [Try -> Fsm]
    BY <1>20, <2>1 DEF KeepAlive, TypeOK
  <2>3. run' \in Run
    <3>1. run' \in {run, [run EXCEPT !.stale = FALSE]} /\ run \in Run
      BY <1>20 DEF KeepAlive, TypeOK
    <3> QED
      BY <3>1, RowTypes DEF Stage
  <2> QED
    BY <1>20, <2>2, <2>3 DEF TypeOK, KeepAlive, OnCancellation
<1>21. ASSUME NEW g \in Try, NEW x \in Item, FinishBuild(g, x) PROVE TypeOK'
  BY <1>21, BuildType DEF TypeOK, FinishBuild, BuildStatus
<1>22. ASSUME NEW i \in Instance, RestartMigrations(i) PROVE TypeOK'
  <2>1. CASE RetriesExhausted
    <3>1. run' \in Run
      BY <1>22, <2>1 DEF RestartMigrations, TypeOK, Run, Settled
    <3> QED
      BY <1>22, <2>1, <3>1 DEF RestartMigrations, TypeOK
  <2>2. CASE ~RetriesExhausted
    <3> DEFINE g == run.retries + 1
    <3>1. g \in Try
      BY <2>2, TryType DEF RetriesExhausted, TypeOK, Run, Try
    <3>2. run.stage \in Stage
      BY <1>22 DEF RestartMigrations, StaleFor, Bookkeeping
    <3>3. Restarted(run.stage, run.begun) \in Fsm
      BY <3>2, ConstantRecordTypes DEF Restarted, TypeOK, Run, Fsm
    <3>4. fsm' \in [Try -> Fsm]
      BY <1>22, <2>2, <3>1, <3>3, MoveType DEF RestartMigrations
    <3>5. run' \in Run
      <4>1. \A r \in Run : [r EXCEPT !.owner = i, !.retries = g, !.stale = FALSE] \in Run
        BY <3>1 DEF Run
      <4> QED
        BY <1>22, <2>2, <4>1 DEF RestartMigrations, TypeOK
    <3> QED
      BY <1>22, <2>2, <3>1, <3>4, <3>5 DEF RestartMigrations, TypeOK
  <2> QED
    BY <2>1, <2>2
<1>23. ASSUME NEW i \in Instance, Crash(i) PROVE TypeOK'
  BY <1>23, ConstantRecordTypes DEF TypeOK, Crash
<1>24. CASE BecomeStale
  <2>1. run' \in Run
    BY <1>24 DEF BecomeStale, TypeOK, Run
  <2> QED
    BY <1>24, <2>1, FailureType DEF TypeOK, BecomeStale
<1>25. CASE CancelRunningMigrations
  <2>1. run' \in Run
    BY <1>25 DEF CancelRunningMigrations, TypeOK, Run, Unfinished
  <2> QED
    BY <1>25, <2>1 DEF TypeOK, CancelRunningMigrations
<1>26. CASE UNCHANGED vars
  BY <1>26 DEF TypeOK, vars
<1> QED
  BY <1>1, <1>2, <1>3, <1>4, <1>5, <1>6, <1>7, <1>8, <1>9, <1>10, <1>11, <1>12, <1>13, <1>14,
     <1>15, <1>16, <1>17, <1>18, <1>19, <1>20, <1>21, <1>22, <1>23, <1>24, <1>25, <1>26,
     <1>27
  DEF Next, Step, Failure

-------------------------------------------------------------------------------
(***************************************************************************)
(* Who works on the migration.                                             *)
(***************************************************************************)
\* What an error of a statement makes of goroutine f.
Last == {"drop", "settle"}
ErrorOutcome(f, e) ==
  \/ e.pc \in {"end", "abandoned"}
  \/ /\ e.restartStage = f.restartStage
     /\ \/ e.pc = "settle" /\ f.pc = "drop" /\ e.goal = f.goal /\ e.stage = f.stage
        \/ e.pc = "cancel" /\ e.stage = "cancelling" /\ f.pc \notin Last
        \/ e.pc = "finish" /\ e.goal = "cancelling" /\ e.stage = f.stage /\ f.pc \notin Last
        \/ e.pc = "drop" /\ e.goal = "failed" /\ e.stage = f.stage

LEMMA ErrorOutcomes ==
  ASSUME NEW f \in Fsm
  PROVE  /\ ErrorOutcome(f, Failing(f))
         /\ f.pc \notin Last => ErrorOutcome(f, Cancelling(f))
         /\ f.pc = "drop" => ErrorOutcome(f, Settling(f))
         /\ f.pc \notin Last => ErrorOutcome(f, CancelNow(f))
         /\ ErrorOutcome(f, Ended) /\ ErrorOutcome(f, Abandoned)
<1>1. ErrorOutcome(f, Failing(f))
  BY DEF ErrorOutcome, Failing, Fsm
<1>2. f.pc \notin Last => ErrorOutcome(f, Cancelling(f))
  BY DEF ErrorOutcome, Cancelling, Fsm
<1>3. f.pc = "drop" => ErrorOutcome(f, Settling(f))
  BY DEF ErrorOutcome, Settling, Fsm
<1>4. f.pc \notin Last => ErrorOutcome(f, CancelNow(f))
  BY DEF ErrorOutcome, CancelNow, Fsm
<1>5. ErrorOutcome(f, Ended) /\ ErrorOutcome(f, Abandoned)
  BY DEF ErrorOutcome, Ended, Abandoned, Idle
<1> QED
  BY <1>1, <1>2, <1>3, <1>4, <1>5

LEMMA AfterErrorOutcome ==
  ASSUME NEW f \in Fsm
  PROVE  ErrorOutcome(f, AfterError(f))
<1> DEFINE b == [f EXCEPT !.begun = TRUE]
<1>1. b \in Fsm
  BY DEF Fsm
<1>2. ErrorOutcome(f, Failing(b))
  BY DEF ErrorOutcome, Failing, Fsm
<1> QED
  BY <1>2, ErrorOutcomes DEF AfterError, Body, Last

LEMMA AfterLossOutcome ==
  ASSUME NEW f \in Fsm
  PROVE  ErrorOutcome(f, AfterLoss(f))
  BY ErrorOutcomes DEF AfterLoss, Body, Last

\* A goroutine works on a migration that is not settled, or has not heard that it is.
Engaged(g) == (keepalive[g] # "off" /\ run.status \in Unfinished) \/ Unheard(g)

LEMMA Alone ==
  ASSUME TypeOK, LastOneWorks, ~late, NEW g \in Try, fsm[g].pc \notin {"none", "end"}
  PROVE  /\ Engaged(g) /\ g = run.retries
         /\ fsm[g].pc \notin Last \cup {"abandoned"} =>
              keepalive[g] # "off" /\ run.status \in Unfinished
         /\ \A h \in Try : h # g => fsm[h].pc \in {"none", "end"}
  BY DEF LastOneWorks, Engaged, Unheard, Last

\* A statement of goroutine g leaves the control of the migration intact.
LEMMA StepControl ==
  ASSUME TypeOK, Bookkeeping, LastOneWorks,
         NEW g \in Try, fsm[g].pc \notin {"none", "end"},
         NEW e \in Fsm, Move(g, e), UNCHANGED <<host, keepalive, late>>,
         e.pc = "finish" => e.goal # "failed",
         run'.owner = run.owner, run'.retries = run.retries,
         run'.stale => run.stale,
         run'.status = run.status \/ run'.status \in Settled,
         \/ run'.status = run.status /\ fsm[g].pc \notin Last \cup {"abandoned"}
         \/ ~late /\ e.pc # "end" => Engaged(g)',
         run'.status \in Unfinished => run'.stage \in Stage
  PROVE  Bookkeeping' /\ LastOneWorks'
<1>1. fsm' = [fsm EXCEPT ![g] = e]
  BY DEF Move
<1>2. fsm'[g] = e /\ \A h \in Try : h # g => fsm'[h] = fsm[h]
  BY <1>1 DEF TypeOK
<1>3. run.retries \in Nat /\ run'.retries \in Nat /\ run.retries \in Try
  BY TryType DEF TypeOK, Run
<1>4. ~(g > run.retries)
  BY DEF Bookkeeping
<1>5. Bookkeeping'
  <2>1. ASSUME NEW h \in Try
        PROVE  /\ h > run'.retries => fsm'[h].pc = "none" /\ keepalive'[h] = "off"
               /\ fsm'[h].pc = "finish" => fsm'[h].goal # "failed"
               /\ keepalive'[h] = "cancelling" => run'.status # "running"
    BY <1>2, <1>4 DEF Bookkeeping, Settled
  <2> QED
    BY <2>1 DEF Bookkeeping
<1>6. ASSUME ~late' PROVE /\ run'.stale => keepalive'[run'.retries] = "off"
                          /\ \A h \in Try :
                               /\ keepalive'[h] # "off" => h = run'.retries
                               /\ fsm'[h].pc \notin {"none", "end"} => Engaged(h)'
  <2>1. /\ run'.stale => keepalive'[run'.retries] = "off"
        /\ \A h \in Try : keepalive'[h] # "off" => h = run'.retries
    BY <1>6 DEF LastOneWorks
  <2>2. fsm'[g].pc \notin {"none", "end"} => Engaged(g)'
    BY <1>2, <1>6, Alone DEF Engaged
  <2>3. \A h \in Try : h # g => fsm'[h].pc \in {"none", "end"}
    BY <1>2, <1>6, Alone
  <2> QED
    BY <2>1, <2>2, <2>3
<1> QED
  BY <1>5, <1>6 DEF LastOneWorks, Engaged

\* The row, but for its freshness, and how far the builds are.
RowStays ==
  /\ run'.owner = run.owner /\ run'.retries = run.retries
  /\ run'.status = run.status /\ run'.stage = run.stage
  /\ run'.stale => run.stale
BuildsStay ==
  /\ Queued' \subseteq Queued
  /\ \A h \in Try, x \in Item : build'[h][x] = "none" <=> build[h][x] = "none"

\* An error, or another attempt, of a goroutine that has not heard.
LEMMA StaysEngaged ==
  ASSUME TypeOK, LastOneWorks, ~late, NEW g \in Try, Working(g), NEW e \in Fsm, Move(g, e),
         ErrorOutcome(fsm[g], e) \/ (e.pc = fsm[g].pc /\ e.goal = fsm[g].goal),
         e.pc # "end", RowStays, failures' \in {failures, failures + 1},
         UNCHANGED keepalive
  PROVE  Engaged(g)'
<1>1. fsm'[g] = e
  BY DEF Move, TypeOK
<1>2. Engaged(g)
  BY Alone DEF Working
<1>3. failures \in Nat /\ (failures > 0 => failures' > 0)
  BY MigrationAssumption DEF TypeOK
<1>4. ASSUME Unheard(g) PROVE Unheard(g)'
  <2>1. \/ e.pc = "abandoned"
        \/ e.pc \in {"drop", "settle"} /\ e.goal \notin {"done", "cancelled"}
        \/ e.pc = fsm[g].pc /\ e.goal = fsm[g].goal
    BY <1>4 DEF Unheard, ErrorOutcome, Last, Working
  <2> QED
    BY <1>1, <1>3, <1>4, <2>1 DEF Unheard, RowStays, Working
<1> QED
  BY <1>2, <1>4 DEF Engaged, RowStays

\* The builds are looked after by the goroutine that moves, as no other works.
LEMMA MoverInOrder ==
  ASSUME TypeOK, LastOneWorks, ~late, NEW g \in Try, fsm[g].pc \notin {"none", "end"},
         NEW e, Move(g, e), Working(g)' => InOrder(g)'
  PROVE  \A h \in Try : Working(h)' => InOrder(h)'
<1>1. \A h \in Try : h # g => fsm'[h] = fsm[h]
  BY DEF Move, TypeOK
<1> QED
  BY <1>1, Alone DEF Working

BuildsInOrder == StagesInOrder /\ RebuiltOnce /\ StagesDoNotOverlap /\ SettledHasNoBuilds

\* A statement that leaves builds, stage and status alone.
LEMMA QuietStep ==
  ASSUME TypeOK, LastOneWorks, BuildsInOrder,
         NEW g \in Try, fsm[g].pc \notin {"none", "end"},
         NEW e, Move(g, e), UNCHANGED build \/ BuildsStay, UNCHANGED late,
         run'.status = run.status, run'.stage = run.stage,
         ~late => (Working(g)' => InOrder(g)')
  PROVE  BuildsInOrder'
<1>1. Queued' \subseteq Queued /\ \A x \in Item : Built(x)' <=> Built(x)
  BY DEF Queued, Built, BuildsStay
<1>2. RebuiltOnce' /\ SettledHasNoBuilds'
  BY <1>1 DEF BuildsInOrder, RebuiltOnce, SettledHasNoBuilds, BuildsStay
<1>3. StagesDoNotOverlap'
  BY <1>1 DEF BuildsInOrder, StagesDoNotOverlap
<1>4. StagesInOrder'
  BY <1>1, MoverInOrder DEF BuildsInOrder, StagesInOrder
<1> QED
  BY <1>2, <1>3, <1>4 DEF BuildsInOrder

\* The order depends on few fields, on the queued builds and on which builds exist.
LEMMA InOrderFrame ==
  ASSUME NEW g \in Try, InOrder(g), run'.stage = run.stage,
         Queued' \subseteq Queued,
         \A h \in Try, x \in Item : build'[h][x] = "none" <=> build[h][x] = "none",
         fsm'[g].pc = fsm[g].pc, fsm'[g].stage = fsm[g].stage,
         fsm'[g].goal = fsm[g].goal, fsm'[g].restartStage = fsm[g].restartStage,
         fsm'[g].todo = fsm[g].todo, fsm[g].todo \subseteq Item
  PROVE  InOrder(g)'
<1>1. \A x \in Item : Built(x)' <=> Built(x)
  BY DEF Built
<1>2. \A s : BuiltBefore(s) => BuiltBefore(s)'
  BY <1>1 DEF BuiltBefore
<1> QED
  BY <1>1, <1>2 DEF InOrder

LEMMA CancellingIsLast == \A s \in Stage : Rank[s] <= Rank["cancelling"]
  BY DEF Rank, Stage, BuildStage

LEMMA BuiltBeforeCancelling == TypeOK => BuiltBefore("cancelling")
  BY BuildStageRank, MigrationAssumption DEF BuiltBefore

LEMMA ErrorInOrder ==
  ASSUME TypeOK, NEW g \in Try, InOrder(g), NEW e \in Fsm, Move(g, e),
         ErrorOutcome(fsm[g], e), UNCHANGED build \/ BuildsStay, run'.stage = run.stage,
         Working(g)'
  PROVE  InOrder(g)'
<1>1. fsm'[g] = e
  BY DEF Move, TypeOK
<1>2. Queued' \subseteq Queued /\ BuiltBefore("cancelling")'
  <2>1. Queued' \subseteq Queued /\ \A x \in Item : Built(x)' <=> Built(x)
    BY DEF Queued, Built, BuildsStay
  <2> QED
    BY <2>1, BuiltBeforeCancelling DEF BuiltBefore
<1>3. fsm[g].restartStage # "none" =>
        Rank[fsm[g].restartStage] <= Rank["cancelling"] /\ Rank[fsm[g].stage] <= Rank["cancelling"]
  BY CancellingIsLast DEF TypeOK, Fsm
<1>4. Rank[fsm[g].stage] <= Rank["cancelling"]
  BY CancellingIsLast DEF TypeOK, Fsm
<1>5. fsm[g].restartStage = "cancelling" =>
        fsm[g].stage = "cancelling" /\ (fsm[g].pc \notin Last => run.stage = "cancelling")
  BY DEF InOrder, Last
<1>6. e.restartStage = fsm[g].restartStage
  BY <1>1 DEF ErrorOutcome, Working
<1>7. CASE e.pc = "settle" /\ fsm[g].pc = "drop" /\ e.goal = fsm[g].goal /\ e.stage = fsm[g].stage
  BY <1>1, <1>2, <1>5, <1>6, <1>7 DEF InOrder
<1>8. CASE e.pc = "cancel" /\ e.stage = "cancelling" /\ fsm[g].pc \notin Last
  BY <1>1, <1>2, <1>3, <1>5, <1>6, <1>8 DEF InOrder
<1>9. CASE e.pc = "finish" /\ e.goal = "cancelling" /\ e.stage = fsm[g].stage /\ fsm[g].pc \notin Last
  BY <1>1, <1>2, <1>4, <1>5, <1>6, <1>9 DEF InOrder
<1>10. CASE e.pc = "drop" /\ e.goal = "failed" /\ e.stage = fsm[g].stage
  BY <1>1, <1>5, <1>6, <1>10 DEF InOrder
<1> QED
  BY <1>1, <1>7, <1>8, <1>9, <1>10 DEF ErrorOutcome, Working

-------------------------------------------------------------------------------
(***************************************************************************)
(* The steps of a goroutine.                                               *)
(***************************************************************************)
Promise == Bookkeeping /\ LastOneWorks /\ BuildsInOrder

\* What the lemmas below know of a goroutine that works.
LEMMA Mover ==
  ASSUME TypeOK, Promise, NEW g \in Try, Working(g)
  PROVE  /\ fsm[g].pc \notin {"none", "end"}
         /\ fsm[g] \in Fsm /\ fsm[g].stage \in Stage
         /\ run \in Run /\ run.stale \in BOOLEAN
         /\ ~late => InOrder(g)
         /\ ~late /\ fsm[g].pc \notin Last => run.status \in Unfinished
  BY Alone DEF Promise, BuildsInOrder, StagesInOrder, Working, TypeOK, Fsm, Run

LEMMA VerifyOwnershipKeeps ==
  ASSUME TypeOK, Promise, NEW g \in Try, VerifyOwnership(g)
  PROVE  Promise'
<1>1. PICK e : Move(g, e) /\ e \in {Ended, BeginStage(fsm[g])}
  BY DEF VerifyOwnership
<1>2. Working(g) /\ fsm[g].pc = "verify"
  BY DEF VerifyOwnership, At, Working
<1>3. e \in Fsm /\ fsm'[g] = e
  BY <1>1, BeginStageType, ConstantRecordTypes DEF TypeOK, Move
<1>4. \/ e.pc \in {"end", "abandoned"}
      \/ /\ e.pc \in {"halt", "start"} /\ e.stage = fsm[g].stage
         /\ e.restartStage = fsm[g].restartStage
  BY <1>1, <1>2, Mover DEF BeginStage, Ended, Abandoned, Idle, Fsm
<1>5. UNCHANGED <<run, build, host, keepalive, late>>
  BY DEF VerifyOwnership
<1>6. Bookkeeping' /\ LastOneWorks'
  BY <1>1, <1>2, <1>3, <1>4, <1>5, StepControl, Mover DEF Promise, Bookkeeping, Last
<1>7. Queued' = Queued /\ \A s : BuiltBefore(s)' <=> BuiltBefore(s)
  BY <1>5 DEF Queued, BuiltBefore, Built
<1>8. ~late => (Working(g)' => InOrder(g)')
  BY <1>2, <1>3, <1>4, <1>5, <1>7, Mover DEF InOrder, Working
<1> QED
  BY <1>1, <1>2, <1>5, <1>6, <1>8, QuietStep, Mover DEF Promise

LEMMA HaltKeeps ==
  ASSUME TypeOK, Promise, NEW g \in Try, Halt(g)
  PROVE  Promise'
<1> DEFINE e == [fsm[g] EXCEPT !.pc = "start", !.stage = "cancelling"]
<1>1. Move(g, e) /\ fsm[g].pc = "halt" /\ Working(g) /\ run' = [run EXCEPT !.stale = FALSE]
  BY DEF Halt, At, Working
<1>2. e \in Fsm /\ fsm'[g] = e
  BY <1>1, FsmUpdates DEF TypeOK, Pc, Stage, Move
<1>3. e.pc = "start" /\ e.stage = "cancelling" /\ e.restartStage = fsm[g].restartStage
  BY <1>1, Mover DEF Fsm
<1>4. UNCHANGED <<build, host, keepalive, late>>
  BY DEF Halt
<1>5. /\ run'.owner = run.owner /\ run'.retries = run.retries /\ ~run'.stale
      /\ run'.status = run.status /\ run'.stage = run.stage
  BY <1>1, Mover DEF Run
<1> HIDE DEF e
<1>6. Bookkeeping' /\ LastOneWorks'
  BY <1>1, <1>2, <1>3, <1>4, <1>5, StepControl, Mover DEF Promise, Bookkeeping, Last
<1>7. BuiltBefore("cancelling")'
  BY <1>4, BuiltBeforeCancelling DEF BuiltBefore, Built
<1>8. fsm[g].restartStage # "none" => Rank[fsm[g].restartStage] <= Rank["cancelling"]
  BY CancellingIsLast, Mover, <1>1 DEF Fsm
<1>9. ~late => (Working(g)' => InOrder(g)')
  BY <1>1, <1>2, <1>3, <1>5, <1>7, <1>8, Mover DEF InOrder, Working
<1> QED
  BY <1>1, <1>4, <1>5, <1>6, <1>9, QuietStep, Mover DEF Promise

\* The row names the stage of goroutine g, which begins it or tries so again.
LEMMA StageBegins ==
  ASSUME TypeOK, Promise, NEW g \in Try, Working(g), fsm[g].pc = "start",
         run' = Begun(fsm[g]), NEW e \in Fsm, Move(g, e), e.pc # "finish",
         UNCHANGED <<build, host, keepalive, late>>,
         ~late /\ run'.stage = fsm[g].stage => InOrder(g)'
  PROVE  Promise'
<1> DEFINE f == fsm[g]
<1>1. /\ run'.owner = run.owner /\ run'.retries = run.retries /\ (run'.stale => run.stale)
      /\ run'.status = run.status
      /\ run'.stage = IF f.restartStage = f.stage THEN run.stage ELSE f.stage
  BY Mover DEF Run, Begun
<1>2. Bookkeeping' /\ LastOneWorks'
  BY <1>1, StepControl, Mover DEF Promise, Bookkeeping, Last
<1>3. Queued' = Queued /\ \A x \in Item : Built(x)' <=> Built(x)
  BY DEF Queued, Built
<1>4. \A x \in Item : Rank[StageOf[x]] \in Nat
  BY RankType, BuildStageRank, MigrationAssumption
<1>5. ~late => InOrder(g) /\ run'.stage = f.stage
  BY <1>1, Mover DEF InOrder
<1>6. StagesInOrder'
  <2>1. ASSUME ~late', run'.status \in Unfinished, NEW x \in Item, Built(x)'
        PROVE  Rank[StageOf[x]] <= Rank[run'.stage]
    <3>1. InOrder(g) /\ f.stage \in Stage /\ Rank[f.stage] \in Nat /\ Rank[StageOf[x]] \in Nat
      BY <1>4, <2>1, Mover, RankType
    <3> QED
      BY <1>1, <1>3, <2>1, <3>1
      DEF InOrder, BuiltBefore, Promise, BuildsInOrder, StagesInOrder
  <2>2. ~late => \A h \in Try : Working(h)' => InOrder(h)'
    BY <1>5, MoverInOrder, Mover DEF Promise
  <2> QED
    BY <2>1, <2>2 DEF StagesInOrder
<1>7. StagesDoNotOverlap'
  <2>1. ASSUME ~late', run'.status \in Unfinished, NEW b \in Queued'
        PROVE  run'.stage \in {StageOf[b[2]], "cancelling"}
    <3>1. InOrder(g)
      BY <2>1, Mover
    <3> QED
      BY <1>1, <1>3, <2>1, <3>1 DEF InOrder, Promise, BuildsInOrder, StagesDoNotOverlap
  <2> QED
    BY <2>1 DEF StagesDoNotOverlap
<1>8. RebuiltOnce' /\ SettledHasNoBuilds'
  BY <1>1, <1>3 DEF Promise, BuildsInOrder, RebuiltOnce, SettledHasNoBuilds
<1> QED
  BY <1>2, <1>6, <1>7, <1>8 DEF Promise, BuildsInOrder

LEMMA HandleStageStartKeeps ==
  ASSUME TypeOK, Promise, NEW g \in Try, HandleStageStart(g)
  PROVE  Promise'
<1> DEFINE f == fsm[g]
           e == [f EXCEPT !.pc = Entry(f.stage), !.begun = TRUE, !.comparisons = FALSE]
<1>1. /\ Move(g, e) /\ f.pc = "start" /\ Working(g) /\ run' = Begun(f)
      /\ UNCHANGED <<build, host, keepalive, late>>
  BY DEF HandleStageStart, At, Working
<1>2. e \in Fsm /\ fsm'[g] = e
  <2>1. f \in Fsm /\ Entry(f.stage) \in Pc /\ "starting" \in Stage
    BY DEF TypeOK, Entry, Pc, Stage
  <2>2. e \in Fsm
    BY <2>1, FsmUpdates
  <2> QED
    BY <1>1, <2>2 DEF Move, TypeOK
<1>3. e.pc = Entry(f.stage) /\ e.stage = f.stage /\ e.restartStage = f.restartStage
  BY <1>1, Mover DEF Fsm
<1> HIDE DEF e
<1>4. /\ Queued' = Queued /\ \A x \in Item : Built(x)' <=> Built(x)
      /\ \A s : BuiltBefore(s)' <=> BuiltBefore(s)
  BY <1>1 DEF Queued, BuiltBefore, Built
<1>5. \A x \in Item : Rank[StageOf[x]] \in Nat /\ StageOf[x] \in BuildStage
  BY RankType, BuildStageRank, MigrationAssumption
<1>6. ASSUME ~late, run'.stage = f.stage PROVE InOrder(g)'
  <2>1. InOrder(g) /\ f.stage \in Stage
    BY <1>1, <1>6, Mover
  <2>2. f.restartStage # f.stage => BuiltBefore(f.stage)
    BY <1>1, <2>1 DEF InOrder
  <2>3. f.restartStage # f.stage => \A x \in Item : StageOf[x] = f.stage => ~Built(x)
    BY <1>5, <2>2 DEF BuiltBefore
  <2> QED
    BY <1>2, <1>3, <1>4, <1>6, <2>1, <2>3 DEF InOrder, Entry
<1>7. e.pc # "finish"
  BY <1>3 DEF Entry
<1> QED
  BY <1>1, <1>2, <1>6, <1>7, StageBegins

\* A stage ends in order: nothing is queued, and the next stage is behind it.
LEMMA FinishingInOrder ==
  ASSUME TypeOK, Promise, NEW g \in Try, Working(g), ~late,
         fsm[g].pc \in {"work", "select", "wait"}, Queued = {},
         Move(g, Finishing(fsm[g], NextStage(fsm[g].stage))),
         UNCHANGED <<run, build>>
  PROVE  InOrder(g)'
<1> DEFINE f == fsm[g]
           e == Finishing(f, NextStage(f.stage))
<1>1. fsm'[g] = e
  BY DEF Move, TypeOK
<1>2. /\ e.pc = "finish" /\ e.goal = NextStage(f.stage) /\ e.stage = f.stage
      /\ e.restartStage = f.restartStage
  BY Mover DEF Finishing, Fsm
<1> HIDE DEF e
<1>3. Queued' = Queued /\ \A s : BuiltBefore(s)' <=> BuiltBefore(s)
  BY DEF Queued, BuiltBefore, Built
<1>4. InOrder(g) /\ run.stage = f.stage /\ f.stage \in Stage /\ run.status \in Unfinished
  BY Mover DEF InOrder, Last
<1>5. \A x \in Item : Built(x) => Rank[StageOf[x]] <= Rank[f.stage]
  BY <1>4 DEF Promise, BuildsInOrder, StagesInOrder
<1>6. \A x \in Item : Rank[StageOf[x]] \in Nat
  BY RankType, BuildStageRank, MigrationAssumption
<1>7. ASSUME e.goal \in Stage
      PROVE  /\ BuiltBefore(e.goal) /\ Rank[f.stage] <= Rank[e.goal]
             /\ f.restartStage \in {e.goal, "cancelling"} => e.goal = "cancelling"
  <2>1. Rank[f.stage] \in Nat /\ Rank[e.goal] \in Nat /\ Rank[f.stage] < Rank[e.goal]
    BY <1>2, <1>4, <1>7, RankType, NextStageRank
  <2>2. BuiltBefore(e.goal)
    BY <1>5, <1>6, <2>1 DEF BuiltBefore
  <2>3. f.restartStage # e.goal
    <3>1. CASE f.restartStage = "none"
      BY <3>1, <1>7 DEF Stage, BuildStage
    <3>2. CASE f.restartStage # "none"
      BY <3>2, <1>4, <2>1 DEF InOrder
    <3> QED
      BY <3>1, <3>2
  <2>4. f.restartStage # "cancelling"
    BY <1>2, <1>4, <1>7, OnlyCancellingIsCancelled DEF InOrder, Stage, BuildStage
  <2> QED
    BY <2>1, <2>2, <2>3, <2>4
<1> QED
  BY <1>1, <1>2, <1>3, <1>4, <1>7 DEF InOrder

LEMMA WorkKeeps ==
  ASSUME TypeOK, Promise, NEW g \in Try, Work(g)
  PROVE  Promise'
<1> DEFINE f == fsm[g]
           next == Finishing(f, NextStage(f.stage))
<1>1. f.pc = "work" /\ Working(g) /\ UNCHANGED <<run, build, host, keepalive, late>>
  BY DEF Work, At, Working
<1>2. PICK e \in {Failing(f), next} : Move(g, e)
  BY DEF Work
<1>3. e \in Fsm
  BY <1>1, <1>2, ErrorTypes, FinishingType, Mover
<1>4. e.pc = "finish" => e.goal # "failed"
  <2>1. f \in Fsm /\ NextStage(f.stage) # "failed"
    BY <1>1, Mover, NextStageType DEF Stage, BuildStage
  <2>2. Failing(f).pc = "drop" /\ next.goal = NextStage(f.stage)
    BY <2>1 DEF Failing, Finishing, Fsm
  <2> QED
    BY <1>2, <2>1, <2>2
<1>5. Bookkeeping' /\ LastOneWorks'
  BY <1>1, <1>2, <1>3, <1>4, StepControl, Mover DEF Promise, Bookkeeping, Last
<1>6. ASSUME ~late, Working(g)' PROVE InOrder(g)'
  <2>1. CASE e = Failing(f)
    BY <1>1, <1>2, <1>3, <1>6, <2>1, ErrorInOrder, ErrorOutcomes, Mover
  <2>2. CASE e = next
    <3>1. InOrder(g) /\ run.status \in Unfinished
      BY <1>1, <1>6, Mover DEF Last
    <3>2. run.stage \notin BuildStage \cup {"cancelling"}
      BY <1>1, <3>1 DEF InOrder
    <3>3. \A b \in Queued : StageOf[b[2]] \in BuildStage
      BY MigrationAssumption DEF Queued
    <3>4. Queued = {}
      BY <1>6, <3>1, <3>2, <3>3 DEF Promise, BuildsInOrder, StagesDoNotOverlap
    <3> QED
      BY <1>1, <1>2, <1>6, <2>2, <3>4, FinishingInOrder
  <2> QED
    BY <1>2, <2>1, <2>2
<1> QED
  BY <1>1, <1>2, <1>5, <1>6, QuietStep, Mover DEF Promise

LEMMA RecoverKeeps ==
  ASSUME TypeOK, Promise, NEW g \in Try, Recover(g)
  PROVE  Promise'
<1> DEFINE e == [fsm[g] EXCEPT !.pc = "select"]
<1>1. /\ Move(g, e) /\ fsm[g].pc = "recover" /\ Working(g) /\ Queued = {}
      /\ UNCHANGED <<run, build, host, keepalive, late>>
  BY DEF Recover, At, Working
<1>2. e \in Fsm /\ fsm'[g] = e
  BY <1>1, FsmUpdates DEF TypeOK, Pc, Stage, Move
<1>3. e.pc = "select" /\ e.stage = fsm[g].stage /\ e.restartStage = fsm[g].restartStage
  BY <1>1, Mover DEF Fsm
<1> HIDE DEF e
<1>4. Bookkeeping' /\ LastOneWorks'
  BY <1>1, <1>2, <1>3, StepControl, Mover DEF Promise, Bookkeeping, Last
<1>5. Queued' = Queued /\ \A x \in Item : Built(x)' <=> Built(x)
  BY <1>1 DEF Queued, Built
<1>6. ~late => (Working(g)' => InOrder(g)')
  BY <1>1, <1>2, <1>3, <1>5, Mover DEF InOrder
<1> QED
  BY <1>1, <1>4, <1>6, QuietStep, Mover DEF Promise

\* Both parts of a stage and each of its rounds end with nothing queued.
LEMMA AfterBuildsKeeps ==
  ASSUME TypeOK, Promise, NEW g \in Try, Working(g), NEW found \in BOOLEAN,
         fsm[g].pc \in {"select", "wait"}, ~late => Queued = {},
         Move(g, AfterBuilds(fsm[g], found)),
         UNCHANGED <<run, build, host, keepalive, late>>
  PROVE  Promise'
<1> DEFINE f == fsm[g]
           e == AfterBuilds(f, found)
           next == Finishing(f, NextStage(f.stage))
<1>1. e \in Fsm /\ fsm'[g] = e
  BY AfterBuildsType, Mover DEF Move, TypeOK
<1>2. \/ e = next
      \/ /\ e.pc = "select" /\ e.stage = f.stage /\ e.restartStage = f.restartStage
         /\ f.stage \in LeavesOutBuilt
  BY Mover DEF AfterBuilds, LeavesOutBuilt, Fsm
<1>3. e.pc = "finish" => e.goal # "failed"
  <2>1. next.goal = NextStage(f.stage) /\ NextStage(f.stage) # "failed"
    BY Mover, OnlyCancellingIsCancelled DEF Finishing, Fsm
  <2> HIDE DEF e, next
  <2> QED
    BY <1>2, <2>1
<1>4. Bookkeeping' /\ LastOneWorks'
  BY <1>1, <1>3, StepControl, Mover DEF Promise, Bookkeeping, Last
<1>5. Queued' = Queued
  BY DEF Queued
<1>6. ASSUME ~late PROVE InOrder(g)'
  <2>1. CASE e = next
    BY <1>6, <2>1, FinishingInOrder
  <2>2. CASE e # next
    <3> HIDE DEF e
    <3> QED
      BY <1>1, <1>2, <1>5, <1>6, <2>2, Mover DEF InOrder
  <2> QED
    BY <2>1, <2>2
<1> QED
  BY <1>4, <1>6, QuietStep, Mover DEF Promise

LEMMA SelectItemsKeeps ==
  ASSUME TypeOK, Promise, NEW g \in Try, SelectItems(g)
  PROVE  Promise'
<1> DEFINE f == fsm[g]
           found == Selected(f)
           e == [f EXCEPT !.pc = "create", !.todo = found]
<1>1. f.pc = "select" /\ Working(g) /\ UNCHANGED <<run, build, host, keepalive, late>>
  BY DEF SelectItems, At, Working
<1>2. CASE found = {}
  <2>1. Move(g, AfterBuilds(f, FALSE))
    BY <1>2 DEF SelectItems
  <2>2. ~late => Queued = {}
    BY <1>1, Mover DEF InOrder
  <2> QED
    BY <1>1, <2>1, <2>2, AfterBuildsKeeps
<1>3. CASE found # {}
  <2>1. Move(g, e)
    BY <1>3 DEF SelectItems
  <2>2. found \subseteq Item
    BY DEF Selected
  <2>3. e \in Fsm /\ fsm'[g] = e
    BY <2>1, <2>2, FsmUpdates DEF TypeOK, Pc, Stage, Move
  <2>4. /\ e.pc = "create" /\ e.stage = f.stage /\ e.restartStage = f.restartStage
        /\ e.todo = found
    BY <1>1, Mover DEF Fsm
  <2>5. ASSUME ~late, NEW x \in found
        PROVE  StageOf[x] = f.stage /\ \A h \in Try : build[h][x] = "none"
    <3>1. StageOf[x] = f.stage
      BY DEF Selected
    <3>2. ~Built(x)
      BY <1>1, <2>5, <3>1, Mover DEF Selected, InOrder
    <3> QED
      BY <3>1, <3>2 DEF Built
  <2> HIDE DEF e, found
  <2>6. Bookkeeping' /\ LastOneWorks'
    BY <1>1, <2>1, <2>3, <2>4, StepControl, Mover DEF Promise, Bookkeeping, Last
  <2>7. ~late => (Working(g)' => InOrder(g)')
    BY <1>1, <2>3, <2>4, <2>5, Mover DEF InOrder
  <2> QED
    BY <1>1, <2>1, <2>6, <2>7, QuietStep, Mover DEF Promise
<1> QED
  BY <1>2, <1>3

LEMMA WaitForBuildsKeeps ==
  ASSUME TypeOK, Promise, NEW g \in Try, WaitForBuilds(g)
  PROVE  Promise'
<1>1. /\ fsm[g].pc = "wait" /\ Working(g) /\ Queued = {}
      /\ Move(g, AfterBuilds(fsm[g], TRUE))
      /\ UNCHANGED <<run, build, host, keepalive, late>>
  BY DEF WaitForBuilds, At, Working, BuildsAreDone
<1> QED
  BY <1>1, AfterBuildsKeeps

\* A build of goroutine g for an item of its list, stored once.
LEMMA StoredBuild ==
  ASSUME TypeOK, Promise, NEW g \in Try, Working(g), fsm[g].pc = "create",
         NEW x \in fsm[g].todo, NEW e \in Fsm, Move(g, e),
         build' = [build EXCEPT ![g][x] = IF @ = "none" THEN "queued" ELSE @],
         e.pc \in {"create", "wait"}, e.stage = fsm[g].stage,
         e.restartStage = fsm[g].restartStage, e.todo \subseteq fsm[g].todo,
         UNCHANGED <<run, host, keepalive, late>>
  PROVE  Promise'
<1> DEFINE f == fsm[g]
<1>1. fsm'[g] = e
  BY DEF Move, TypeOK
<1>2. x \in Item
  BY Mover DEF Fsm
<1>3. \A h \in Try, y \in Item :
        /\ <<h, y>> # <<g, x>> => build'[h][y] = build[h][y]
        /\ build[h][y] # "none" => build'[h][y] = build[h][y]
  BY <1>2 DEF TypeOK
<1>4. Bookkeeping' /\ LastOneWorks'
  BY <1>1, StepControl, Mover DEF Promise, Bookkeeping, Last
<1>5. \A y \in Item : Built(y)' => Built(y) \/ y = x
  BY <1>3 DEF Built
<1>6. \A b \in Queued' : b \in Queued \/ b = <<g, x>>
  BY <1>3 DEF Queued
<1>7. ASSUME ~late
      PROVE  /\ StageOf[x] = f.stage /\ run.stage = f.stage /\ run.status \in Unfinished
             /\ \A h \in Try : h # g => build[h][x] = "none"
  BY <1>7, Mover DEF InOrder, Last
<1>8. ~late => (Working(g)' => InOrder(g)')
  <2> SUFFICES ASSUME ~late PROVE InOrder(g)'
    OBVIOUS
  <2>1. InOrder(g) /\ f.todo \subseteq Item
    BY Mover DEF Fsm
  <2>2. \A y \in e.todo : StageOf[y] = f.stage /\ \A h \in Try : h # g => build'[h][y] = "none"
    BY <1>3, <2>1 DEF InOrder
  <2> QED
    BY <1>1, <1>7, <2>1, <2>2 DEF InOrder
<1>9. StagesInOrder'
  <2>1. ASSUME ~late', run'.status \in Unfinished, NEW y \in Item, Built(y)'
        PROVE  Rank[StageOf[y]] <= Rank[run'.stage]
    <3>1. CASE y = x
      BY <1>7, <2>1, <3>1, RankType, Mover
    <3>2. CASE Built(y)
      BY <2>1, <3>2 DEF Promise, BuildsInOrder, StagesInOrder
    <3> QED
      BY <1>5, <2>1, <3>1, <3>2
  <2>2. ~late => \A h \in Try : Working(h)' => InOrder(h)'
    BY <1>8, MoverInOrder, Mover DEF Promise
  <2> QED
    BY <2>1, <2>2 DEF StagesInOrder
<1>10. RebuiltOnce'
  BY <1>2, <1>3, <1>7 DEF Promise, BuildsInOrder, RebuiltOnce
<1>11. StagesDoNotOverlap'
  BY <1>6, <1>7 DEF Promise, BuildsInOrder, StagesDoNotOverlap
<1>12. SettledHasNoBuilds'
  BY <1>7 DEF SettledHasNoBuilds, Unfinished
<1> QED
  BY <1>4, <1>9, <1>10, <1>11, <1>12 DEF Promise, BuildsInOrder

LEMMA CreateBuildKeeps ==
  ASSUME TypeOK, Promise, NEW g \in Try, NEW x \in Item, CreateBuild(g, x)
  PROVE  Promise'
<1> DEFINE rest == fsm[g].todo \ {x}
           pc == IF rest = {} THEN "wait" ELSE "create"
           e == [fsm[g] EXCEPT !.todo = rest, !.pc = pc]
<1>1. Move(g, e) /\ fsm[g].pc = "create" /\ x \in fsm[g].todo /\ Working(g)
  BY DEF CreateBuild, At, Working
<1>2. rest \in SUBSET Item /\ pc \in Pc /\ pc \in {"create", "wait"}
  BY <1>1, Mover DEF Fsm, Pc
<1>3. e \in Fsm
  <2> HIDE DEF rest, pc
  <2> QED
    BY <1>1, <1>2, FsmUpdates, Mover DEF Stage
<1>4. /\ e.pc = pc /\ e.stage = fsm[g].stage /\ e.restartStage = fsm[g].restartStage
      /\ e.todo = rest
  BY <1>1, Mover DEF Fsm
<1>5. e.todo \subseteq fsm[g].todo
  BY <1>4
<1> HIDE DEF e
<1> QED
  BY <1>1, <1>2, <1>3, <1>4, <1>5, StoredBuild DEF CreateBuild

LEMMA CreateUnansweredKeeps ==
  ASSUME TypeOK, Promise, NEW g \in Try, NEW x \in Item, CreateUnanswered(g, x)
  PROVE  Promise'
<1> DEFINE e == [fsm[g] EXCEPT !.check = TRUE]
<1>1. Move(g, e) /\ fsm[g].pc = "create" /\ x \in fsm[g].todo /\ Working(g)
  BY DEF CreateUnanswered, At, Working
<1>2. e \in Fsm
  BY <1>1, FsmUpdates, Mover DEF Pc, Stage
<1>3. /\ e.pc = "create" /\ e.stage = fsm[g].stage /\ e.restartStage = fsm[g].restartStage
      /\ e.todo = fsm[g].todo
  BY <1>1, Mover DEF Fsm
<1> HIDE DEF e
<1> QED
  BY <1>1, <1>2, <1>3, StoredBuild DEF CreateUnanswered

LEMMA CancelledBuildsEnd ==
  ASSUME NEW g \in Try, build' = AfterCancel(g)
  PROVE  BuildsStay /\ Queued' = {}
<1>1. \A h \in Try, x \in Item :
        build'[h][x] # "queued" /\ (build'[h][x] = "none" <=> build[h][x] = "none")
  BY DEF AfterCancel, CancelledBuilds, Queued
<1> QED
  BY <1>1 DEF BuildsStay, Queued

LEMMA CancelBuildsKeeps ==
  ASSUME TypeOK, Promise, NEW g \in Try, CancelBuilds(g)
  PROVE  Promise'
<1> DEFINE f == fsm[g]
           e == Finishing(f, "cancelled")
<1>1. /\ Move(g, e) /\ f.pc = "cancel" /\ Working(g)
      /\ UNCHANGED <<run, host, keepalive, late>>
  BY DEF CancelBuilds, At, Working
<1>2. /\ e.pc = "finish" /\ e.goal = "cancelled" /\ e.stage = f.stage
      /\ e.restartStage = f.restartStage
  BY <1>1, Mover DEF Finishing, Fsm
<1>3. e \in Fsm /\ fsm'[g] = e
  <2>1. \A r \in Fsm : Finishing(r, "cancelled") \in Fsm
    BY ZenonT(30) DEF Finishing, Fsm, Pc
  <2> QED
    BY <1>1, <2>1 DEF TypeOK, Move
<1> HIDE DEF e
<1>4. Bookkeeping' /\ LastOneWorks'
  BY <1>1, <1>2, <1>3, StepControl, Mover DEF Promise, Bookkeeping, Last
<1>5. BuildsStay /\ Queued' = {}
  BY CancelledBuildsEnd DEF CancelBuilds
<1>6. Queued' = {} /\ \A x \in Item : Built(x)' <=> Built(x)
  BY <1>5 DEF BuildsStay, Built
<1>7. ~late => (Working(g)' => InOrder(g)')
  <2>1. "cancelled" \notin Stage
    BY DEF Stage, BuildStage
  <2> QED
    BY <1>1, <1>2, <1>3, <1>6, <2>1, Mover DEF InOrder
<1>8. StagesInOrder'
  BY <1>1, <1>6, <1>7, MoverInOrder, Mover DEF Promise, BuildsInOrder, StagesInOrder
<1>9. RebuiltOnce'
  BY <1>1, <1>5 DEF BuildsStay, Promise, BuildsInOrder, RebuiltOnce
<1>10. StagesDoNotOverlap' /\ SettledHasNoBuilds'
  BY <1>6 DEF StagesDoNotOverlap, SettledHasNoBuilds
<1> QED
  BY <1>4, <1>8, <1>9, <1>10 DEF Promise, BuildsInOrder

LEMMA HandleStageFinishKeeps ==
  ASSUME TypeOK, Promise, NEW g \in Try, HandleStageFinish(g)
  PROVE  Promise'
<1> DEFINE f == fsm[g]
           over == [f EXCEPT !.pc = "drop"]
           next == [f EXCEPT !.pc = "verify", !.stage = f.goal, !.goal = "done"]
<1>1. /\ f.pc = "finish" /\ Working(g) /\ run' = [run EXCEPT !.stale = FALSE]
      /\ UNCHANGED <<build, host, keepalive, late>>
  BY DEF HandleStageFinish, At, Working
<1>2. f.goal \in Stage \cup {"done", "cancelled"}
  BY <1>1, Mover DEF Promise, Bookkeeping, Fsm
<1>3. PICK e : /\ Move(g, e)
               /\ \/ f.goal \in {"done", "cancelled"} /\ e = over
                  \/ f.goal \in Stage /\ e = next
  BY <1>2 DEF HandleStageFinish
<1>4. e \in Fsm
  <2>1. over \in Fsm
    BY <1>1, FsmUpdates, Mover DEF Pc, Stage
  <2>2. f.goal \in Stage => next \in Fsm
    BY ZenonT(30), <1>1, FsmUpdates, Mover DEF Pc
  <2> QED
    BY <1>3, <2>1, <2>2
<1>5. /\ fsm'[g] = e /\ e.restartStage = f.restartStage
      /\ \/ /\ e.pc = "drop" /\ e.stage = f.stage /\ e.goal = f.goal
            /\ f.goal \in {"done", "cancelled"}
         \/ e.pc = "verify" /\ e.stage = f.goal /\ f.goal \in Stage
  BY ZenonT(30), <1>1, <1>3, Mover DEF Fsm, Move, TypeOK
<1>6. /\ run'.owner = run.owner /\ run'.retries = run.retries /\ ~run'.stale
      /\ run'.status = run.status /\ run'.stage = run.stage
  BY <1>1, Mover DEF Run
<1> HIDE DEF over, next
<1>7. Bookkeeping' /\ LastOneWorks'
  BY <1>1, <1>3, <1>4, <1>5, <1>6, StepControl, Mover DEF Promise, Bookkeeping, Last
<1>8. Queued' = Queued /\ \A s : BuiltBefore(s)' <=> BuiltBefore(s)
  BY <1>1 DEF Queued, BuiltBefore, Built
<1>9. ASSUME ~late PROVE InOrder(g)'
  <2>1. InOrder(g)
    BY <1>1, <1>9, Mover
  <2>2. CASE e.pc = "drop"
    BY <1>1, <1>5, <1>6, <1>8, <2>1, <2>2 DEF InOrder
  <2>3. CASE e.pc = "verify" /\ e.stage = f.goal /\ f.goal \in Stage
    <3>1. f.restartStage # "none" => Rank[f.restartStage] <= Rank[f.goal]
      <4>1. f.restartStage # "none" =>
              Rank[f.restartStage] \in Nat /\ Rank[f.stage] \in Nat /\ Rank[f.goal] \in Nat
        BY <1>1, <2>3, RankType, Mover DEF Fsm
      <4> QED
        BY <1>1, <2>1, <2>3, <4>1 DEF InOrder
    <3>2. f.restartStage = f.goal => f.goal = "cancelling" /\ run.stage = "cancelling"
      BY <1>1, <2>1, <2>3 DEF InOrder
    <3>3. BuiltBefore(f.goal) /\ (f.goal # "cancelling" => Queued = {})
      BY <1>1, <2>1, <2>3 DEF InOrder
    <3>4. f.restartStage = "cancelling" => f.goal = "cancelling" /\ run.stage = "cancelling"
      BY <1>1, <2>1, <2>3 DEF InOrder
    <3> QED
      BY <1>5, <1>6, <1>8, <2>3, <3>1, <3>2, <3>3, <3>4 DEF InOrder
  <2> QED
    BY <1>5, <2>2, <2>3
<1> QED
  BY <1>1, <1>3, <1>6, <1>7, <1>9, QuietStep, Mover DEF Promise

LEMMA DropTablesKeeps ==
  ASSUME TypeOK, Promise, NEW g \in Try, DropTables(g)
  PROVE  Promise'
<1> DEFINE e == Settling(fsm[g])
<1>1. /\ Move(g, e) /\ fsm[g].pc = "drop" /\ Working(g)
      /\ UNCHANGED <<run, build, host, keepalive, failures, late>> /\ RowStays
  BY DEF DropTables, At, Working, RowStays
<1>2. e \in Fsm /\ ErrorOutcome(fsm[g], e) /\ e.pc = "settle"
  <2>1. e.pc = "settle"
    BY <1>1, Mover DEF Settling, Fsm
  <2> QED
    BY <1>1, <2>1, ErrorTypes, ErrorOutcomes, Mover
<1> HIDE DEF e
<1>3. Bookkeeping' /\ LastOneWorks'
  <2>1. ~late => Engaged(g)'
    BY <1>1, <1>2, StaysEngaged DEF Promise
  <2> QED
    BY <1>1, <1>2, <2>1, StepControl, Mover DEF Promise, Bookkeeping
<1>4. ~late => (Working(g)' => InOrder(g)')
  BY <1>1, <1>2, ErrorInOrder, Mover
<1> QED
  BY <1>1, <1>3, <1>4, QuietStep, Mover DEF Promise

LEMMA SettleKeeps ==
  ASSUME TypeOK, Promise, NEW g \in Try, Settle(g)
  PROVE  Promise'
<1> DEFINE goal == fsm[g].goal
<1>1. /\ Move(g, Ended) /\ fsm[g].pc = "settle" /\ Working(g)
      /\ UNCHANGED <<build, host, keepalive, late>>
  BY DEF Settle, At, Working
<1>2. Ended \in Fsm /\ Ended.pc = "end" /\ fsm'[g] = Ended
  BY <1>1, ConstantRecordTypes DEF Ended, Idle, Move, TypeOK
<1>3. /\ run'.owner = run.owner /\ run'.retries = run.retries /\ run'.stale = run.stale
      /\ run'.status \in Settled
      /\ run'.status \in {"complete", "cancelled"} => goal # "failed"
  BY <1>1, Mover DEF Settle, SettledAs, Run, Settled
<1>4. run'.status \notin Unfinished
  BY <1>3 DEF Settled, Unfinished
<1>5. Bookkeeping' /\ LastOneWorks'
  BY <1>1, <1>2, <1>3, <1>4, StepControl, Mover DEF Promise
<1>6. Queued' = Queued
  BY <1>1 DEF Queued
<1>7. StagesInOrder' /\ StagesDoNotOverlap'
  BY <1>1, <1>2, <1>4, MoverInOrder, Mover DEF Promise, StagesInOrder, StagesDoNotOverlap, Working
<1>8. RebuiltOnce'
  BY <1>1 DEF Promise, BuildsInOrder, RebuiltOnce
<1>9. SettledHasNoBuilds'
  BY <1>1, <1>3, <1>6, Mover DEF SettledHasNoBuilds, InOrder
<1> QED
  BY <1>5, <1>7, <1>8, <1>9 DEF Promise, BuildsInOrder

-------------------------------------------------------------------------------
(***************************************************************************)
(* Statements that do not go well.                                         *)
(***************************************************************************)
LEMMA ErrorKeeps ==
  ASSUME TypeOK, Promise, NEW g \in Try, Working(g), NEW e \in Fsm, Move(g, e),
         ErrorOutcome(fsm[g], e), RowStays, UNCHANGED build \/ BuildsStay,
         failures' \in {failures, failures + 1}, UNCHANGED <<host, keepalive, late>>
  PROVE  Promise'
<1>1. e.pc = "finish" => e.goal # "failed"
  BY DEF ErrorOutcome
<1>2. Bookkeeping' /\ LastOneWorks'
  <2>1. ~late /\ e.pc # "end" => Engaged(g)'
    BY StaysEngaged DEF Promise
  <2> QED
    BY <1>1, <2>1, StepControl, Mover DEF Promise, Bookkeeping, RowStays
<1>3. run'.status = run.status /\ run'.stage = run.stage
  BY DEF RowStays
<1>4. ~late => (Working(g)' => InOrder(g)')
  BY <1>3, ErrorInOrder, Mover
<1> QED
  BY <1>2, <1>3, <1>4, QuietStep, Mover DEF Promise

LEMMA CheckKeeps ==
  ASSUME TypeOK, Promise, NEW g \in Try, Working(g), NEW b \in BOOLEAN,
         Move(g, [fsm[g] EXCEPT !.check = b]), RowStays, UNCHANGED build \/ BuildsStay,
         failures' \in {failures, failures + 1}, UNCHANGED <<host, keepalive, late>>
  PROVE  Promise'
<1> DEFINE e == [fsm[g] EXCEPT !.check = b]
<1>1. e \in Fsm /\ fsm'[g] = e /\ Move(g, e)
  BY ZenonT(30), FsmUpdates, Mover DEF Pc, Stage, Move, TypeOK
<1>2. /\ e.pc = fsm[g].pc /\ e.stage = fsm[g].stage /\ e.goal = fsm[g].goal
      /\ e.restartStage = fsm[g].restartStage /\ e.todo = fsm[g].todo
      /\ fsm[g].todo \subseteq Item /\ fsm[g].pc # "end"
  BY Mover DEF Fsm
<1> HIDE DEF e
<1>3. Bookkeeping' /\ LastOneWorks'
  <2>1. e.pc = "finish" => e.goal # "failed"
    BY <1>2 DEF Promise, Bookkeeping
  <2>2. ~late => Engaged(g)'
    BY <1>1, <1>2, StaysEngaged DEF Promise
  <2> QED
    BY <1>1, <2>1, <2>2, StepControl, Mover DEF Promise, Bookkeeping, RowStays
<1>4. /\ Queued' \subseteq Queued
      /\ \A h \in Try, x \in Item : build'[h][x] = "none" <=> build[h][x] = "none"
  BY DEF Queued, BuildsStay
<1>5. run'.status = run.status /\ run'.stage = run.stage
  BY DEF RowStays
<1>6. ~late => (Working(g)' => InOrder(g)')
  BY <1>1, <1>2, <1>4, <1>5, InOrderFrame, Mover
<1> QED
  BY <1>1, <1>3, <1>5, <1>6, QuietStep, Mover DEF Promise

LEMMA FailureKeeps ==
  ASSUME TypeOK, Promise, NEW g \in Try,
         \/ ContextCancelled(g) \/ VerifyBeforeRetry(g) \/ WaitTimesOut(g)
         \/ StatementFails(g) \/ DatabaseUnavailable(g)
  PROVE  Promise'
<1> Working(g)
  BY DEF ContextCancelled, VerifyBeforeRetry, WaitTimesOut, StatementFails, DatabaseUnavailable,
     At, TakesContext, Statement, Body, Working
<1>1. /\ UNCHANGED <<run, build, host, keepalive, late>> /\ RowStays
      /\ failures' \in {failures, failures + 1}
  BY DEF ContextCancelled, VerifyBeforeRetry, WaitTimesOut, StatementFails, DatabaseUnavailable,
     RowStays
<1>2. \/ \E b \in BOOLEAN : Move(g, [fsm[g] EXCEPT !.check = b])
      \/ Move(g, AfterError(fsm[g])) \/ Move(g, AfterLoss(fsm[g]))
  BY DEF ContextCancelled, VerifyBeforeRetry, WaitTimesOut, StatementFails, DatabaseUnavailable
<1>3. CASE \E b \in BOOLEAN : Move(g, [fsm[g] EXCEPT !.check = b])
  BY <1>1, <1>3, CheckKeeps
<1>4. CASE Move(g, AfterError(fsm[g]))
  BY <1>1, <1>4, ErrorKeeps, AfterErrorType, AfterErrorOutcome, Mover
<1>5. CASE Move(g, AfterLoss(fsm[g]))
  BY <1>1, <1>5, ErrorKeeps, AfterLossType, AfterLossOutcome, Mover
<1> QED
  BY <1>2, <1>3, <1>4, <1>5

\* The last statement is executed and its answer lost: the migration is settled.
LEMMA SettledUnheard ==
  ASSUME TypeOK, Promise, NEW g \in Try, Working(g), fsm[g].pc = "settle",
         run' = SettledAs(fsm[g].goal), NEW e \in Fsm, Move(g, e),
         failures' = failures + 1, UNCHANGED <<build, host, keepalive, late>>,
         \/ e.pc = "abandoned"
         \/ /\ e.restartStage = fsm[g].restartStage /\ e.stage = fsm[g].stage
            /\ \/ e.pc = "drop" /\ e.goal = "failed"
               \/ e.pc = "settle" /\ e.goal = fsm[g].goal
  PROVE  Promise'
<1> DEFINE f == fsm[g]
<1>1. fsm'[g] = e /\ f.goal \in Stage \cup {"done", "cancelled", "failed"}
  BY Mover DEF Move, TypeOK, Fsm
<1>2. /\ run'.owner = run.owner /\ run'.retries = run.retries /\ run'.stale = run.stale
      /\ run'.status \in Settled
      /\ run'.status \in {"complete", "cancelled"} => f.goal # "failed"
      /\ f.goal = "done" => run'.status = "complete" /\ run'.stage = "done"
      /\ f.goal = "cancelled" => run'.status = "cancelled" /\ run'.stage = "cancelled"
  BY Mover DEF SettledAs, Run, Settled
<1>3. run'.status \notin Unfinished
  BY <1>2 DEF Settled, Unfinished
<1>5. ~late => Engaged(g)'
  <2>1. failures' > 0
    BY MigrationAssumption DEF TypeOK
  <2>2. ~late => g = run'.retries
    BY <1>2, Alone DEF Promise, Working
  <2> QED
    BY <1>1, <1>2, <2>1, <2>2 DEF Engaged, Unheard
<1>6. Bookkeeping' /\ LastOneWorks'
  BY <1>2, <1>3, <1>5, StepControl, Mover DEF Promise
<1>7. Queued' = Queued
  BY DEF Queued
<1>8. ~late => (Working(g)' => InOrder(g)')
  BY <1>1, <1>7, Mover DEF InOrder, Working
<1>9. StagesInOrder' /\ StagesDoNotOverlap'
  BY <1>3, <1>8, MoverInOrder, Mover DEF Promise, StagesInOrder, StagesDoNotOverlap
<1>10. RebuiltOnce'
  BY DEF Promise, BuildsInOrder, RebuiltOnce
<1>11. SettledHasNoBuilds'
  BY <1>2, <1>7, Mover DEF SettledHasNoBuilds, InOrder
<1> QED
  BY <1>6, <1>9, <1>10, <1>11 DEF Promise, BuildsInOrder

\* A goroutine with a cancelled context reports a lost answer as an error; another
\* repeats the statement.
LEMMA AnswerLostKeeps ==
  ASSUME TypeOK, Promise, NEW g \in Try, AnswerLost(g)
  PROVE  Promise'
<1> DEFINE f == fsm[g]
           again == [f EXCEPT !.check = TRUE]
<1>1. /\ Working(g) /\ UNCHANGED <<host, keepalive, late>> /\ failures' = failures + 1
      /\ Move(g, AfterError(f)) \/ Move(g, again)
  BY DEF AnswerLost, At, Working
<1>2. again \in Fsm /\ AfterError(f) \in Fsm /\ f \in Fsm
  BY <1>1, FsmUpdates, AfterErrorType, Mover DEF Pc, Stage
<1>3. /\ again.pc = f.pc /\ again.stage = f.stage /\ again.goal = f.goal
      /\ again.restartStage = f.restartStage
  BY <1>2 DEF Fsm
<1>4. CASE f.pc = "start"
  <2>1. run' = Begun(f) /\ UNCHANGED build
    BY <1>4 DEF AnswerLost, At
  <2>2. PICK e \in {again, CancelNow(f)} : Move(g, e)
    BY <1>4 DEF AnswerLost, AfterError, Body
  <2>3. e \in Fsm /\ fsm'[g] = e
    BY <1>1, <1>2, <2>2, ErrorTypes DEF Move, TypeOK
  <2>4. /\ e.restartStage = f.restartStage
        /\ \/ e.pc = "start" /\ e.stage = f.stage
           \/ e.pc = "cancel" /\ e.stage = "cancelling"
    BY <1>2, <1>3, <1>4, <2>2 DEF CancelNow, Fsm
  <2> HIDE DEF again
  <2>5. ASSUME ~late, run'.stage = f.stage PROVE InOrder(g)'
    <3>1. InOrder(g)
      BY <1>1, <2>5, Mover
    <3>2. Queued' = Queued /\ \A s : BuiltBefore(s)' <=> BuiltBefore(s)
      BY <2>1 DEF Queued, BuiltBefore, Built
    <3>3. f.restartStage # "none" => Rank[f.restartStage] <= Rank["cancelling"]
      BY <1>2, CancellingIsLast DEF Fsm
    <3> QED
      BY <1>4, <2>3, <2>4, <2>5, <3>1, <3>2, <3>3 DEF InOrder
  <2> QED
    BY <1>1, <1>4, <2>1, <2>2, <2>3, <2>4, <2>5, StageBegins
<1>5. CASE f.pc = "settle"
  <2>1. run' = SettledAs(f.goal) /\ UNCHANGED build
    BY <1>5 DEF AnswerLost, At
  <2>2. PICK e \in {again, Abandoned, Failing([f EXCEPT !.begun = TRUE])} : Move(g, e)
    BY <1>1, <1>5 DEF AfterError, Body
  <2>3. \/ e.pc = "abandoned"
        \/ /\ e.restartStage = f.restartStage /\ e.stage = f.stage
           /\ \/ e.pc = "drop" /\ e.goal = "failed"
              \/ e.pc = "settle" /\ e.goal = f.goal
    <3>1. CASE e = again
      BY <1>3, <1>5, <3>1
    <3>2. CASE e = Abandoned
      BY <3>2 DEF Abandoned, Idle
    <3>3. CASE e = Failing([f EXCEPT !.begun = TRUE])
      BY <1>2, <3>3 DEF Failing, Fsm
    <3> QED
      BY <2>2, <3>1, <3>2, <3>3
  <2>4. e \in Fsm
    <3>1. [f EXCEPT !.begun = TRUE] \in Fsm
      BY <1>2 DEF Fsm
    <3> QED
      BY <1>2, <2>2, <3>1, ErrorTypes, ConstantRecordTypes
  <2> HIDE DEF again
  <2> QED
    BY <1>1, <1>5, <2>1, <2>2, <2>3, <2>4, SettledUnheard
<1>6. CASE f.pc \notin {"start", "settle"}
  <2>1. RowStays
    <3>1. run' \in {run, [run EXCEPT !.stale = FALSE]} /\ run \in Run
      BY <1>6 DEF AnswerLost, At, TypeOK
    <3> QED
      BY <3>1 DEF RowStays, Run
  <2>2. UNCHANGED build \/ BuildsStay
    BY CancelledBuildsEnd DEF AnswerLost
  <2>3. CASE Move(g, again)
    BY <1>1, <2>1, <2>2, <2>3, CheckKeeps
  <2>4. CASE Move(g, AfterError(f))
    BY <1>1, <1>2, <2>1, <2>2, <2>4, ErrorKeeps, AfterErrorOutcome
  <2> QED
    BY <1>1, <2>3, <2>4
<1> QED
  BY <1>4, <1>5, <1>6

-------------------------------------------------------------------------------
(***************************************************************************)
(* The keepalive, the other instances, the builders and the administrator. *)
(***************************************************************************)
LEMMA RowFacts ==
  ASSUME TypeOK, Promise
  PROVE  /\ run \in Run /\ run.retries \in Try /\ run.retries \in Nat
         /\ Owns(run.retries)
         /\ \A g \in Try : fsm[g] \in Fsm /\ fsm[g].todo \subseteq Item
  BY TryType DEF TypeOK, Run, Promise, Bookkeeping, Owns, Fsm

\* Builds, stages and goroutines are as before, but for what the keepalive tells them.
LEMMA SameOrder ==
  ASSUME TypeOK, Promise, UNCHANGED <<build, late>>, run'.stage = run.stage,
         run'.status = run.status \/ run'.status \in {"cancelling", "failed"},
         ~late /\ run'.status \in Unfinished => run.status \in Unfinished,
         \A g \in Try : /\ fsm'[g].pc = fsm[g].pc /\ fsm'[g].stage = fsm[g].stage
                        /\ fsm'[g].goal = fsm[g].goal
                        /\ fsm'[g].restartStage = fsm[g].restartStage
                        /\ fsm'[g].todo = fsm[g].todo
  PROVE  BuildsInOrder'
<1>1. Queued' = Queued /\ \A x \in Item : Built(x)' <=> Built(x)
  BY DEF Queued, Built
<1>2. \A g \in Try : InOrder(g) => InOrder(g)'
  BY <1>1, InOrderFrame, RowFacts
<1>3. StagesInOrder'
  BY <1>1, <1>2 DEF Promise, BuildsInOrder, StagesInOrder, Working
<1>4. RebuiltOnce'
  BY DEF Promise, BuildsInOrder, RebuiltOnce
<1>5. StagesDoNotOverlap'
  BY <1>1 DEF Promise, BuildsInOrder, StagesDoNotOverlap
<1>6. SettledHasNoBuilds'
  BY <1>1 DEF Promise, BuildsInOrder, SettledHasNoBuilds
<1> QED
  BY <1>3, <1>4, <1>5, <1>6 DEF BuildsInOrder

LEMMA KeepAliveKeeps ==
  ASSUME TypeOK, Promise, NEW g \in Try, KeepAlive(g)
  PROVE  Promise'
<1>1. keepalive[g] # "off" /\ UNCHANGED <<build, host, late>>
  BY DEF KeepAlive
<1>2. /\ run'.owner = run.owner /\ run'.retries = run.retries /\ run'.status = run.status
      /\ run'.stage = run.stage /\ (run'.stale => run.stale)
  BY RowFacts DEF KeepAlive, Run
<1>3. \A h \in Try :
        /\ fsm'[h].pc = fsm[h].pc /\ fsm'[h].stage = fsm[h].stage
        /\ fsm'[h].goal = fsm[h].goal /\ fsm'[h].restartStage = fsm[h].restartStage
        /\ fsm'[h].todo = fsm[h].todo
  <2>1. fsm' = fsm \/ fsm' = [fsm EXCEPT ![g] = [fsm[g] EXCEPT !.cancelled = TRUE]]
    BY DEF KeepAlive
  <2>2. \A f \in Fsm :
          LET c == [f EXCEPT !.cancelled = TRUE] IN
          /\ c.pc = f.pc /\ c.stage = f.stage /\ c.goal = f.goal
          /\ c.restartStage = f.restartStage /\ c.todo = f.todo
    BY DEF Fsm
  <2>3. \A h \in Try : fsm'[h] = fsm[h] \/ fsm'[h] = [fsm[h] EXCEPT !.cancelled = TRUE]
    BY <2>1 DEF TypeOK
  <2> QED
    BY ZenonT(30), <2>2, <2>3, RowFacts
<1>4. /\ \A h \in Try : h # g => keepalive'[h] = keepalive[h]
      /\ keepalive'[g] \in {keepalive[g], "cancelling", "off"}
      /\ keepalive'[g] = "cancelling" => keepalive[g] = "cancelling" \/ run.status = "cancelling"
      /\ keepalive'[g] = "off" =>
           /\ ~(run.status = Expected(keepalive[g]) /\ Owns(g))
           /\ ~(Owns(g) /\ run.status = "cancelling")
  BY <1>1 DEF KeepAlive, TypeOK, OnCancellation
<1>5. Bookkeeping'
  <2>1. ASSUME NEW h \in Try
        PROVE  /\ h > run'.retries => fsm'[h].pc = "none" /\ keepalive'[h] = "off"
               /\ fsm'[h].pc = "finish" => fsm'[h].goal # "failed"
               /\ keepalive'[h] = "cancelling" => run'.status # "running"
    BY <1>1, <1>2, <1>3, <1>4 DEF Promise, Bookkeeping
  <2> QED
    BY <1>1, <1>2, <2>1 DEF Promise, Bookkeeping
<1>6. LastOneWorks'
  <2> SUFFICES ASSUME ~late
               PROVE  /\ run'.stale => keepalive'[run.retries] = "off"
                      /\ \A h \in Try :
                           /\ keepalive'[h] # "off" => h = run.retries
                           /\ fsm'[h].pc \notin {"none", "end"} =>
                                \/ keepalive'[h] # "off" /\ run.status \in Unfinished
                                \/ Unheard(h)
    <3>1. failures' = failures
      BY DEF KeepAlive
    <3>2. \A h \in Try : Unheard(h) => Unheard(h)'
      BY <1>2, <1>3, <3>1 DEF Unheard
    <3> QED
      BY <1>1, <1>2, <3>2 DEF LastOneWorks
  <2>1. g = run.retries /\ ~run.stale
    BY <1>1, RowFacts DEF Promise, LastOneWorks
  <2>2. keepalive'[g] = "off" => run.status \notin Unfinished
    BY <1>1, <1>4, <2>1, RowFacts DEF Expected, Unfinished, Promise, Bookkeeping, TypeOK
  <2> QED
    BY <1>2, <1>3, <1>4, <2>1, <2>2 DEF Promise, LastOneWorks
<1>7. BuildsInOrder'
  BY <1>1, <1>2, <1>3, SameOrder
<1> QED
  BY <1>5, <1>6, <1>7 DEF Promise

\* The builds owe nothing to a migration whose keepalive has been late.
LEMMA LateKeeps ==
  late' => LastOneWorks' /\ BuildsInOrder'
  BY DEF LastOneWorks, BuildsInOrder, StagesInOrder, RebuiltOnce, StagesDoNotOverlap,
     SettledHasNoBuilds

LEMMA KeepAliveStopsKeeps ==
  ASSUME TypeOK, Promise, NEW g \in Try, KeepAliveStops(g)
  PROVE  Promise'
<1>1. Bookkeeping'
  BY DEF KeepAliveStops, Promise, Bookkeeping, TypeOK
<1> QED
  BY <1>1, LateKeeps DEF KeepAliveStops, Promise

LEMMA BecomeStaleKeeps ==
  ASSUME TypeOK, Promise, BecomeStale
  PROVE  Promise'
<1>1. /\ run' = [run EXCEPT !.stale = TRUE]
      /\ UNCHANGED <<tables, build, host, fsm, keepalive, live>>
  BY DEF BecomeStale
<1>2. /\ run'.owner = run.owner /\ run'.retries = run.retries /\ run'.status = run.status
      /\ run'.stage = run.stage
  BY <1>1, RowFacts DEF Run
<1>3. Bookkeeping'
  BY <1>1, <1>2 DEF Promise, Bookkeeping
<1>4. CASE UNCHANGED late /\ \A g \in Try : Owns(g) => keepalive[g] = "off"
  <2>1. keepalive[run.retries] = "off"
    BY <1>4, RowFacts
  <2>2. LastOneWorks'
    <3>1. run.status \in Unfinished
      BY DEF BecomeStale
    <3>2. \A g \in Try : ~Unheard(g)
      BY <3>1 DEF Unheard, Settled, Unfinished
    <3> QED
      BY <1>1, <1>2, <1>4, <2>1, <3>2 DEF Promise, LastOneWorks
  <2>3. BuildsInOrder'
    BY <1>1, <1>2, <1>4, SameOrder
  <2> QED
    BY <1>3, <2>2, <2>3 DEF Promise
<1>5. CASE late'
  BY <1>3, <1>5, LateKeeps DEF Promise
<1> QED
  BY <1>4, <1>5 DEF BecomeStale

LEMMA RestartMigrationsKeeps ==
  ASSUME TypeOK, Promise, NEW i \in Instance, RestartMigrations(i)
  PROVE  Promise'
<1>1. run.status \in Unfinished /\ run.stale /\ UNCHANGED <<tables, build, live, failures, late>>
  BY DEF RestartMigrations, StaleFor
\* Nobody works on a stale migration.
<1>2. ~late => \A g \in Try : keepalive[g] = "off" /\ fsm[g].pc \in {"none", "end"}
  <2>1. \A g \in Try : ~Unheard(g)
    BY <1>1 DEF Unheard, Settled, Unfinished
  <2> QED
    BY <1>1, <2>1, RowFacts DEF Promise, LastOneWorks, TypeOK
<1>3. CASE RetriesExhausted
  <2>1. /\ run' = [run EXCEPT !.status = "failed"]
        /\ UNCHANGED <<host, fsm, keepalive>>
    BY <1>3 DEF RestartMigrations
  <2>2. /\ run'.owner = run.owner /\ run'.retries = run.retries /\ run'.status = "failed"
        /\ run'.stage = run.stage /\ run'.stale = run.stale
    BY <2>1, RowFacts DEF Run
  <2>3. "failed" \notin Unfinished
    BY DEF Unfinished
  <2>4. Bookkeeping'
    BY <2>1, <2>2, <2>3 DEF Promise, Bookkeeping
  <2>5. LastOneWorks'
    BY <1>1, <1>2, <2>1, <2>2 DEF Promise, LastOneWorks
  <2>6. BuildsInOrder'
    BY <1>1, <2>1, <2>2, <2>3, SameOrder
  <2> QED
    BY <2>4, <2>5, <2>6 DEF Promise
<1>4. CASE ~RetriesExhausted
  <2> PICK g \in Try : g = run.retries + 1
    BY <1>4, TryType, RowFacts DEF RetriesExhausted, Try
  <2> DEFINE e == Restarted(run.stage, run.begun)
  <2>1. /\ run' = [run EXCEPT !.owner = i, !.retries = g, !.stale = FALSE]
        /\ host' = [host EXCEPT ![g] = i]
        /\ Move(g, e)
        /\ keepalive' = [keepalive EXCEPT ![g] = "on"]
    BY <1>4 DEF RestartMigrations
  <2>2. g \in Nat
    BY TryType
  <2>3. /\ run'.owner = i /\ run'.retries = g /\ ~run'.stale /\ run'.status = run.status
        /\ run'.stage = run.stage
    BY <2>1, RowFacts DEF Run
  <2>4. run.stage \in Stage
    BY <1>1 DEF Promise, Bookkeeping
  <2>5. e.pc = "verify" /\ e.stage = run.stage /\ e.restartStage = run.stage
    BY DEF Restarted, Started, Idle
  <2>6. /\ fsm'[g] = e /\ keepalive'[g] = "on" /\ host'[g] = i
        /\ \A h \in Try : h # g => fsm'[h] = fsm[h] /\ keepalive'[h] = keepalive[h]
    BY <2>1, <2>2 DEF Move, TypeOK
  <2> HIDE DEF e
  <2>7. Bookkeeping'
    <3>1. ASSUME NEW h \in Try
          PROVE  /\ h > g => fsm'[h].pc = "none" /\ keepalive'[h] = "off"
                 /\ fsm'[h].pc = "finish" => fsm'[h].goal # "failed"
                 /\ keepalive'[h] = "cancelling" => run.status # "running"
      <4>1. CASE h = g
        BY <2>2, <2>5, <2>6, <4>1
      <4>2. CASE h # g
        <5>1. h > g => h > run.retries
          BY RowFacts, TryType
        <5> QED
          BY <2>6, <4>2, <5>1 DEF Promise, Bookkeeping
      <4> QED
        BY <4>1, <4>2
    <3> QED
      BY <2>3, <2>4, <2>6, <3>1 DEF Bookkeeping
  <2>8. LastOneWorks'
    BY <1>1, <1>2, <2>3, <2>6 DEF LastOneWorks
  <2>9. Queued' = Queued /\ \A x \in Item : Built(x)' <=> Built(x)
    BY <1>1 DEF Queued, Built
  <2>10. InOrder(g)'
    <3>1. Rank[run.stage] \in Nat
      BY <2>4, RankType
    <3>2. fsm'[g].pc = "verify" /\ fsm'[g].stage = run.stage /\ fsm'[g].restartStage = run.stage
      BY <2>5, <2>6
    <3> QED
      BY <2>3, <3>1, <3>2 DEF InOrder
  <2>11. StagesInOrder'
    <3>1. ~late => \A h \in Try : Working(h)' => h = g
      BY <1>2, <2>6 DEF Working
    <3> QED
      BY <1>1, <2>3, <2>9, <2>10, <3>1 DEF Promise, BuildsInOrder, StagesInOrder
  <2>12. RebuiltOnce' /\ StagesDoNotOverlap' /\ SettledHasNoBuilds'
    BY <1>1, <2>3, <2>9
    DEF Promise, BuildsInOrder, RebuiltOnce, StagesDoNotOverlap, SettledHasNoBuilds
  <2> QED
    BY <2>7, <2>8, <2>11, <2>12 DEF Promise, BuildsInOrder
<1> QED
  BY <1>3, <1>4

LEMMA CancelRunningMigrationsKeeps ==
  ASSUME TypeOK, Promise, CancelRunningMigrations
  PROVE  Promise'
<1>1. /\ run.status = "running" /\ run' = [run EXCEPT !.status = "cancelling"]
      /\ UNCHANGED <<tables, build, host, fsm, keepalive, live, failures, late>>
  BY DEF CancelRunningMigrations
<1>2. /\ run'.owner = run.owner /\ run'.retries = run.retries /\ run'.status = "cancelling"
      /\ run'.stage = run.stage /\ run'.stale = run.stale
      /\ run.status \in Unfinished /\ run'.status \in Unfinished
  BY <1>1, RowFacts DEF Run, Unfinished
<1>3. Bookkeeping' /\ LastOneWorks'
  <2>1. \A g \in Try : ~Unheard(g)
    BY <1>1 DEF Unheard, Settled
  <2> QED
    BY <1>1, <1>2, <2>1 DEF Promise, Bookkeeping, LastOneWorks
<1>4. BuildsInOrder'
  BY <1>1, <1>2, SameOrder
<1> QED
  BY <1>3, <1>4 DEF Promise

LEMMA FinishBuildKeeps ==
  ASSUME TypeOK, Promise, NEW g \in Try, NEW x \in Item, FinishBuild(g, x)
  PROVE  Promise'
<1>1. UNCHANGED <<run, tables, host, fsm, keepalive, live, failures, late>>
  BY DEF FinishBuild
<1>2. \A h \in Try, y \in Item :
        /\ build'[h][y] = "none" <=> build[h][y] = "none"
        /\ build'[h][y] = "queued" => build[h][y] = "queued"
  BY DEF FinishBuild, TypeOK
<1>3. Queued' \subseteq Queued /\ \A y \in Item : Built(y)' <=> Built(y)
  BY <1>2 DEF Queued, Built
<1>4. Bookkeeping' /\ LastOneWorks'
  BY <1>1 DEF Promise, Bookkeeping, LastOneWorks, Unheard
<1>5. \A h \in Try : InOrder(h) => InOrder(h)'
  BY <1>1, <1>2, <1>3, InOrderFrame, RowFacts
<1>6. StagesInOrder'
  BY <1>1, <1>3, <1>5 DEF Promise, BuildsInOrder, StagesInOrder, Working
<1>7. RebuiltOnce'
  BY <1>1, <1>2 DEF Promise, BuildsInOrder, RebuiltOnce
<1>8. StagesDoNotOverlap' /\ SettledHasNoBuilds'
  BY <1>1, <1>3 DEF Promise, BuildsInOrder, StagesDoNotOverlap, SettledHasNoBuilds
<1> QED
  BY <1>4, <1>6, <1>7, <1>8 DEF Promise, BuildsInOrder

LEMMA CrashKeeps ==
  ASSUME TypeOK, Promise, NEW i \in Instance, Crash(i)
  PROVE  Promise'
<1>1. UNCHANGED <<run, tables, build, host, failures, late>>
  BY DEF Crash
<1>2. \A g \in Try :
        \/ fsm'[g] = Ended /\ keepalive'[g] = "off" /\ fsm[g].pc # "none"
        \/ fsm'[g] = fsm[g] /\ keepalive'[g] = "off" /\ fsm[g].pc = "none"
        \/ fsm'[g] = fsm[g] /\ keepalive'[g] = keepalive[g]
  BY DEF Crash
<1>3. Ended.pc = "end"
  BY DEF Ended, Idle
<1>4. Bookkeeping' /\ LastOneWorks'
  <2>1. Bookkeeping'
    BY <1>1, <1>2, <1>3 DEF Promise, Bookkeeping
  <2>2. LastOneWorks'
    <3>1. run.retries \in Try
      BY RowFacts
    <3> QED
      BY <1>1, <1>2, <1>3, <3>1 DEF Promise, LastOneWorks, Unheard
  <2> QED
    BY <2>1, <2>2
<1>5. Queued' = Queued /\ \A y \in Item : Built(y)' <=> Built(y)
  BY <1>1 DEF Queued, Built
<1>6. \A g \in Try : Working(g)' => Working(g) /\ fsm'[g] = fsm[g]
  BY <1>2, <1>3 DEF Working
<1>7. \A g \in Try : Working(g)' /\ InOrder(g) => InOrder(g)'
  BY <1>1, <1>5, <1>6, InOrderFrame, RowFacts
<1>8. StagesInOrder'
  BY <1>1, <1>5, <1>6, <1>7 DEF Promise, BuildsInOrder, StagesInOrder
<1>9. RebuiltOnce' /\ StagesDoNotOverlap' /\ SettledHasNoBuilds'
  BY <1>1, <1>5 DEF Promise, BuildsInOrder, RebuiltOnce, StagesDoNotOverlap, SettledHasNoBuilds
<1> QED
  BY <1>4, <1>8, <1>9 DEF Promise, BuildsInOrder

-------------------------------------------------------------------------------
(***************************************************************************)
(* The invariant.                                                          *)
(***************************************************************************)
LEMMA InvariantParts == MigrationInvariant <=> TypeOK /\ Promise
  BY DEF MigrationInvariant, Promise, BuildsInOrder

LEMMA PromiseInit == Init => Promise
<1> SUFFICES ASSUME Init PROVE Promise
  OBVIOUS
<1>1. PICK i \in Instance, only \in BOOLEAN :
        run = [status |-> "running", stage |-> "starting", changelogOnly |-> only,
               owner |-> i, retries |-> 0, begun |-> FALSE, stale |-> FALSE]
  BY DEF Init
<1>2. /\ run.status = "running" /\ run.stage = "starting" /\ run.retries = 0 /\ ~run.stale
      /\ run.owner \in Instance
  BY <1>1
<1>3. Started.pc = "verify" /\ Idle.pc = "none" /\ Started.stage = "starting"
      /\ Started.restartStage = "none"
  BY DEF Started, Idle
<1>4. \A g \in Try : /\ fsm[g] = IF g = 0 THEN Started ELSE Idle
                     /\ keepalive[g] = IF g = 0 THEN "on" ELSE "off"
  BY DEF Init
<1>5. host[run.retries] = run.owner
  BY <1>2, TryType DEF Init
<1>6. Queued = {} /\ \A x \in Item : ~Built(x)
  BY DEF Init, Queued, Built
<1>7. Bookkeeping
  BY <1>2, <1>3, <1>4, <1>5, TryType DEF Bookkeeping, Stage
<1>8. LastOneWorks
  BY <1>2, <1>3, <1>4 DEF LastOneWorks, Unfinished
<1>9. StagesInOrder
  <2>1. ASSUME NEW g \in Try, Working(g) PROVE InOrder(g)
    <3>1. fsm[g] = Started
      BY <1>3, <1>4, <2>1 DEF Working
    <3> QED
      BY <1>3, <1>6, <3>1 DEF InOrder, BuiltBefore
  <2> QED
    BY <1>6, <2>1 DEF StagesInOrder
<1>10. RebuiltOnce /\ StagesDoNotOverlap /\ SettledHasNoBuilds
  BY <1>6 DEF Built, RebuiltOnce, StagesDoNotOverlap, SettledHasNoBuilds
<1> QED
  BY <1>7, <1>8, <1>9, <1>10 DEF Promise, BuildsInOrder

LEMMA PromiseStutter == Promise /\ UNCHANGED vars => Promise'
<1> SUFFICES ASSUME Promise, UNCHANGED vars PROVE Promise'
  OBVIOUS
<1>1. Queued' = Queued /\ \A x : Built(x)' <=> Built(x)
  BY DEF vars, Queued, Built
<1>2. Bookkeeping' /\ LastOneWorks'
  BY DEF vars, Promise, Bookkeeping, LastOneWorks, Unheard
<1>3. \A g : InOrder(g) => InOrder(g)'
  BY <1>1 DEF vars, InOrder, BuiltBefore
<1>4. BuildsInOrder'
  BY <1>1, <1>3 DEF vars, Promise, BuildsInOrder, StagesInOrder, RebuiltOnce,
     StagesDoNotOverlap, SettledHasNoBuilds, Working
<1> QED
  BY <1>2, <1>4 DEF Promise

LEMMA PromiseNext == TypeOK /\ Promise /\ [Next]_vars => Promise'
<1> SUFFICES ASSUME TypeOK, Promise, [Next]_vars PROVE Promise'
  OBVIOUS
<1>1. ASSUME NEW g \in Try, Step(g) PROVE Promise'
  BY <1>1, VerifyOwnershipKeeps, HaltKeeps, HandleStageStartKeeps, WorkKeeps, RecoverKeeps,
     SelectItemsKeeps, CreateBuildKeeps, WaitForBuildsKeeps, CancelBuildsKeeps,
     HandleStageFinishKeeps, DropTablesKeeps, SettleKeeps, FailureKeeps DEF Step
<1>2. ASSUME NEW g \in Try, Failure(g) PROVE Promise'
  BY <1>2, CreateUnansweredKeeps, AnswerLostKeeps, FailureKeeps, KeepAliveStopsKeeps DEF Failure
<1>3. ASSUME NEW g \in Try, KeepAlive(g) PROVE Promise'
  BY <1>3, KeepAliveKeeps
<1>4. ASSUME NEW g \in Try, NEW x \in Item, FinishBuild(g, x) PROVE Promise'
  BY <1>4, FinishBuildKeeps
<1>5. ASSUME NEW i \in Instance, RestartMigrations(i) PROVE Promise'
  BY <1>5, RestartMigrationsKeeps
<1>6. ASSUME NEW i \in Instance, Crash(i) PROVE Promise'
  BY <1>6, CrashKeeps
<1>7. CASE BecomeStale
  BY <1>7, BecomeStaleKeeps
<1>8. CASE CancelRunningMigrations
  BY <1>8, CancelRunningMigrationsKeeps
<1>9. CASE UNCHANGED vars
  BY <1>9, PromiseStutter
<1> QED
  BY <1>1, <1>2, <1>3, <1>4, <1>5, <1>6, <1>7, <1>8, <1>9 DEF Next

\* The inductive invariant holds for any rebuilds, instances, take-overs and failures.
THEOREM Invariance == Spec => []MigrationInvariant
<1>1. Init => MigrationInvariant
  BY TypeInit, PromiseInit, InvariantParts
<1>2. MigrationInvariant /\ [Next]_vars => MigrationInvariant'
  <2> SUFFICES ASSUME MigrationInvariant, [Next]_vars PROVE MigrationInvariant'
    OBVIOUS
  <2>1. TypeOK /\ Promise /\ Bookkeeping
    BY InvariantParts DEF Promise
  <2>2. TypeOK' /\ Promise'
    BY <2>1, TypeNext, PromiseNext
  <2> QED
    BY <2>2 DEF MigrationInvariant, Promise, BuildsInOrder
<1> QED
  BY <1>1, <1>2, PTL DEF Spec

\* No version and no comparison is rebuilt twice by one migration, however often it is
\* taken over and whichever statement it was at (createBuilds, addTaskToRebuild, the
\* queries of the stages).
THEOREM ItemsAreRebuiltOnce == Spec => []RebuiltOnce
<1>1. MigrationInvariant => RebuiltOnce
  BY DEF MigrationInvariant
<1> QED
  BY <1>1, Invariance, PTL

\* The builds of one stage are finished before the row names the next one, also across
\* take-overs (waitForBuilds, handleStageStart).
THEOREM StagesAreSeparate == Spec => []StagesDoNotOverlap
<1>1. MigrationInvariant => StagesDoNotOverlap
  BY DEF MigrationInvariant
<1> QED
  BY <1>1, Invariance, PTL

\* A complete or cancelled migration leaves no build behind (handleComplete,
\* StageCancelling).
THEOREM NoBuildsAreLeft == Spec => []SettledHasNoBuilds
<1>1. MigrationInvariant => SettledHasNoBuilds
  BY DEF MigrationInvariant
<1> QED
  BY <1>1, Invariance, PTL

\* What a step may do to a settled row.
Reported == run' = run \/ (failures > 0 /\ run' = [run EXCEPT !.status = "failed"])

LEMMA SettledStep ==
  ASSUME MigrationInvariant, [Next]_vars, ~late, run.status \in Settled
  PROVE  Reported
<1>1. TypeOK /\ Promise
  BY InvariantParts
<1>2. run.status \notin Unfinished /\ run \in Run
  BY <1>1 DEF Settled, Unfinished, TypeOK
<1>3. ASSUME NEW g \in Try, fsm[g].pc \in {"start", "halt", "finish", "settle"}
      PROVE  fsm[g].pc = "settle" /\ Unheard(g)
  BY <1>1, <1>2, <1>3, Alone DEF Promise, Engaged, Last
<1>4. ASSUME NEW g \in Try, fsm[g].pc = "settle", run' = SettledAs(fsm[g].goal) PROVE Reported
  <2>1. Unheard(g)
    BY <1>3, <1>4
  <2>2. CASE fsm[g].goal \notin {"done", "cancelled"}
    BY <1>4, <2>1, <2>2 DEF SettledAs, Reported, Unheard
  <2>3. CASE fsm[g].goal = "done"
    <3>1. run.status = "complete" /\ run.stage = "done"
      BY <1>4, <2>1, <2>3 DEF Unheard
    <3> QED
      BY <1>2, <1>4, <2>3, <3>1 DEF SettledAs, Reported, Run
  <2>4. CASE fsm[g].goal = "cancelled"
    <3>1. run.status = "cancelled" /\ run.stage = "cancelled"
      BY <1>4, <2>1, <2>4 DEF Unheard
    <3> QED
      BY <1>2, <1>4, <2>4, <3>1 DEF SettledAs, Reported, Run
  <2> QED
    BY <2>2, <2>3, <2>4
<1>5. ASSUME NEW g \in Try, Step(g) \/ Failure(g) PROVE Reported
  <2>1. \/ fsm[g].pc = "settle" /\ run' = SettledAs(fsm[g].goal)
        \/ fsm[g].pc \in {"start", "halt", "finish"}
        \/ UNCHANGED run
    BY <1>5 DEF Step, Failure, VerifyOwnership, Work, Recover, SelectItems, CreateBuild,
       WaitForBuilds, CancelBuilds, DropTables, ContextCancelled, VerifyBeforeRetry,
       CreateUnanswered, WaitTimesOut, StatementFails, DatabaseUnavailable, KeepAliveStops,
       Halt, HandleStageStart, HandleStageFinish, Settle, AnswerLost, At
  <2> QED
    BY <1>3, <1>4, <2>1 DEF Reported
<1>6. ASSUME NEW g \in Try, KeepAlive(g) PROVE run' = run
  BY <1>2, <1>6 DEF KeepAlive, Expected, Unfinished
<1>7. ASSUME NEW i \in Instance, RestartMigrations(i) \/ Crash(i) PROVE run' = run
  BY <1>2, <1>7 DEF RestartMigrations, StaleFor, Crash
<1>8. ASSUME NEW g \in Try, NEW x \in Item, FinishBuild(g, x) PROVE run' = run
  BY <1>8 DEF FinishBuild
<1>9. CASE BecomeStale \/ CancelRunningMigrations
  BY <1>2, <1>9 DEF BecomeStale, CancelRunningMigrations, Unfinished
<1>10. CASE UNCHANGED vars
  BY <1>10 DEF vars, Reported
<1> QED
  BY <1>5, <1>6, <1>7, <1>8, <1>9, <1>10 DEF Next, Reported

\* Keepalive, take-over, retry limit and cancellation leave the row of a settled
\* migration alone; only a goroutine that lost the answer to its last update may write
\* it again, as it is or with status failed (handleError, restartMigrations).
THEOREM SettledIsFinal == Spec => SettledStaysSettled
<1>1. MigrationInvariant /\ [Next]_vars =>
        [~late /\ run.status \in Settled =>
           \/ run' = run
           \/ failures > 0 /\ run' = [run EXCEPT !.status = "failed"]]_vars
  BY SettledStep DEF Reported
<1> QED
  BY <1>1, Invariance, PTL DEF Spec, SettledStaysSettled
===============================================================================
