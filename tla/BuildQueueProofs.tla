--------------------------- MODULE BuildQueueProofs ---------------------------
(* Proofs about BuildQueue, for every number of builds, builders, handlers,   *)
(* retries and faults.                                                        *)
EXTENDS BuildQueue, FiniteSetTheorems, TLAPS

-------------------------------------------------------------------------------
(* Types.  TypeOK is inductive on its own.                                    *)

LEMMA BuilderTypes ==
  /\ Resting \in BuilderState
  /\ \A x \in BuilderState :
       [x EXCEPT !.timer = FALSE] \in BuilderState
       /\ [x EXCEPT !.await = NoHandler] \in BuilderState
       /\ \A n \in Nat : [x EXCEPT !.await = NoHandler, !.tries = n] \in BuilderState
<1>1. Resting \in BuilderState
  BY DEF Resting, BuilderState
<1>2. ASSUME NEW x \in BuilderState
      PROVE  /\ [x EXCEPT !.timer = FALSE] \in BuilderState
             /\ [x EXCEPT !.await = NoHandler] \in BuilderState
  BY DEF BuilderState
<1>3. ASSUME NEW x \in BuilderState, NEW n \in Nat
      PROVE  [x EXCEPT !.await = NoHandler, !.tries = n] \in BuilderState
  BY DEF BuilderState
<1> QED BY <1>1, <1>2, <1>3

LEMMA CallTypes ==
  /\ Idle \in Call
  /\ \A c \in Call : /\ Again(c) \in Call /\ Again(c).pc = "own"
                     /\ Again(c).op = c.op /\ Again(c).w = c.w /\ Again(c).b = c.b
<1>1. Idle \in Call
  BY DEF Idle, Call
<1>2. ASSUME NEW c \in Call
      PROVE  /\ Again(c) \in Call /\ Again(c).pc = "own"
             /\ Again(c).op = c.op /\ Again(c).w = c.w /\ Again(c).b = c.b
  <2> DEFINE n == c.tries + 1
  <2>1. n \in Nat
    BY DEF Call
  <2> DEFINE a == [c EXCEPT !.pc = "own", !.tries = n]
  <2>2. a \in Call /\ a.pc = "own" /\ a.op = c.op /\ a.w = c.w /\ a.b = c.b
    BY <2>1 DEF Call
  <2>3. a = Again(c)
    BY DEF Again
  <2> QED BY <2>2, <2>3
<1> QED BY <1>1, <1>2

(* An answer to a call keeps the types of calls and builders.                 *)
LEMMA RespondType ==
  ASSUME TypeOK, NEW h \in Handler, NEW r, Respond(h, r)
  PROVE  call' \in [Handler -> Call] /\ builder' \in [Builder -> BuilderState]
<1>0. call[h] \in Call
  BY DEF TypeOK
<1>1. ASSUME NEW w \in Builder
      PROVE  Heard(w, h, call[h], r) \in BuilderState
  <2>1. builder[w] \in BuilderState
    BY DEF TypeOK
  <2>2. builder[w].tries \in Nat /\ RetryCount + 1 \in Nat
    BY <2>1, BuildQueueAssumption DEF BuilderState
  <2> DEFINE n == IF r = "final" THEN RetryCount + 1 ELSE builder[w].tries
  <2>3. n \in Nat
    BY <2>2
  <2>4. [builder[w] EXCEPT !.await = NoHandler, !.tries = n] \in BuilderState
    BY <2>1, <2>3, BuilderTypes
  <2> QED BY <2>1, <2>4, BuilderTypes DEF Heard
<1>2. CASE r = "retry" /\ Repeatable(call[h])
  BY <1>0, <1>2, CallTypes DEF Respond, TypeOK
<1>3. CASE ~(r = "retry" /\ Repeatable(call[h]))
  BY <1>1, <1>3, CallTypes DEF Respond, TypeOK
<1> QED BY <1>2, <1>3

(* The fields of the calls and builders the actions make have their types.    *)
LEMMA StepTypes ==
  /\ \A op \in {"poll", "running", "error", "complete"} : \A w \in Builder :
       \A b \in Build \cup {NoBuild} : \A note \in BOOLEAN :
         /\ NewCall("own", op, w, b, note) \in Call
         /\ NewCall("take", op, w, b, note) \in Call
  /\ \A c \in Call : \A b \in Build \cup {NoBuild} :
       \A pc \in {"idle", "take", "load", "reject", "own", "apply", "refresh",
                    "check", "lock", "commit"} :
         /\ [c EXCEPT !.pc = pc] \in Call
         /\ [c EXCEPT !.b = b] \in Call
         /\ [c EXCEPT !.pc = pc, !.b = b] \in Call
  /\ \A c \in Call : [c EXCEPT !.tries = RetryCount + 1] \in Call
  /\ \A b \in Build \cup {NoBuild} :
       [Resting EXCEPT !.phase = "building", !.job = b, !.timer = TRUE] \in BuilderState
  /\ \A h \in Handler : [Resting EXCEPT !.phase = "asking", !.await = h] \in BuilderState
  /\ [Resting EXCEPT !.phase = "dead"] \in BuilderState
<1>1. ASSUME NEW op \in {"poll", "running", "error", "complete"}, NEW w \in Builder,
             NEW b \in Build \cup {NoBuild}, NEW note \in BOOLEAN
      PROVE  /\ NewCall("own", op, w, b, note) \in Call
             /\ NewCall("take", op, w, b, note) \in Call
  BY DEF NewCall, Call
<1>2. ASSUME NEW c \in Call, NEW b \in Build \cup {NoBuild},
             NEW pc \in {"idle", "take", "load", "reject", "own", "apply", "refresh",
                         "check", "lock", "commit"}
      PROVE  /\ [c EXCEPT !.pc = pc] \in Call
             /\ [c EXCEPT !.b = b] \in Call
             /\ [c EXCEPT !.pc = pc, !.b = b] \in Call
  BY DEF Call
<1>3. ASSUME NEW c \in Call
      PROVE  [c EXCEPT !.tries = RetryCount + 1] \in Call
  <2>1. RetryCount + 1 \in Nat
    BY BuildQueueAssumption
  <2> QED BY <2>1 DEF Call
<1>4. ASSUME NEW b \in Build \cup {NoBuild}
      PROVE  [Resting EXCEPT !.phase = "building", !.job = b, !.timer = TRUE]
               \in BuilderState
  BY DEF Resting, BuilderState
<1>5. ASSUME NEW h \in Handler
      PROVE  [Resting EXCEPT !.phase = "asking", !.await = h] \in BuilderState
  BY DEF Resting, BuilderState
<1>6. [Resting EXCEPT !.phase = "dead"] \in BuilderState
  BY DEF Resting, BuilderState
<1> QED BY <1>1, <1>2, <1>3, <1>4, <1>5, <1>6

(* Every step of a handler keeps the types.                                   *)
LEMMA HandlerTypes ==
  ASSUME TypeOK, CallsAreBound, NEW h \in Handler, HandlerStep(h)
  PROVE  TypeOK'
<1> USE DEF row, history, Status, Reason, Age
<1>0. call[h] \in Call
  BY DEF TypeOK
<1>1. /\ call[h].w \in Builder \cup {NoBuilder}
      /\ call[h].b \in Build \cup {NoBuild} /\ call[h].note \in BOOLEAN
  BY <1>0 DEF Call
<1>2. ASSUME NEW pc, Continue(h, pc),
             pc \in {"load", "reject", "refresh", "apply", "check", "lock", "commit"}
      PROVE  call' \in [Handler -> Call] /\ builder' \in [Builder -> BuilderState]
  <2>1. call' = [call EXCEPT ![h] = [@ EXCEPT !.pc = pc]] /\ builder' = builder
    BY <1>2 DEF Continue
  <2>2. [call[h] EXCEPT !.pc = pc] \in Call
    BY <1>0, <1>2, StepTypes
  <2> QED BY <2>1, <2>2 DEF TypeOK
<1>3. ASSUME NEW b, NEW s \in Status, NEW d \in SUBSET Reason,
             UpdateBuildStatusTx(b, s, d)
      PROVE  /\ status' \in [Build -> Status] /\ age' \in [Build -> Age]
             /\ details' \in [Build -> SUBSET Reason]
  BY <1>3 DEF UpdateBuildStatusTx, TypeOK
<1>a. ASSUME call[h].pc # "idle"
      PROVE  call[h].w \in Builder
  BY <1>a DEF CallsAreBound
<1>b. ASSUME call' = [call EXCEPT ![h] = Idle],
             builder' = [builder EXCEPT ![call[h].w] = IF @.await = h THEN Resting ELSE @]
      PROVE  call' \in [Handler -> Call] /\ builder' \in [Builder -> BuilderState]
  BY <1>b, BuilderTypes, CallTypes DEF TypeOK
<1>4. CASE FailExhaustedBuild(h)
  <2>1. PICK b \in Candidates :
          /\ status' = [status EXCEPT ![b] = "error"]
          /\ details' = [details EXCEPT ![b] = @ \cup {"limit"}]
          /\ age' = [age EXCEPT ![b] = "fresh"]
          /\ call' = [call EXCEPT ![h] = [@ EXCEPT !.b = b]]
    BY <1>4 DEF FailExhaustedBuild
  <2>2. b \in Build
    BY DEF Candidates, Eligible
  <2>3. [call[h] EXCEPT !.b = b] \in Call
    BY <1>0, <2>2, StepTypes
  <2> QED BY <1>4, <2>1, <2>3 DEF FailExhaustedBuild, TypeOK
<1>5. CASE TakeBuild(h)
  <2>1. PICK b \in Candidates :
          /\ ~Exhausted(b)
          /\ status' = [status EXCEPT ![b] = "running"]
          /\ restarts' = [restarts EXCEPT ![b] = IF status[b] = "none" THEN @ ELSE @ + 1]
          /\ builderId' = [builderId EXCEPT ![b] = call[h].w]
          /\ age' = [age EXCEPT ![b] = "fresh"]
          /\ call' = [call EXCEPT ![h] = [@ EXCEPT !.b = b, !.pc = "load"]]
          /\ owners' = [owners EXCEPT ![b] = @ \cup {call[h].w}]
    BY <1>5 DEF TakeBuild
  <2>2. b \in Build
    BY DEF Candidates, Eligible
  <2>3. [call[h] EXCEPT !.pc = "load", !.b = b] \in Call
    BY <1>0, <2>2, StepTypes
  <2>4. restarts' \in [Build -> 0..2]
    <3>1. restarts[b] \in 0..2 /\ ~(restarts[b] >= 2)
      BY <2>1, <2>2 DEF TypeOK, Exhausted
    <3> QED BY <2>1, <2>2, <3>1 DEF TypeOK
  <2>5. call[h].w \in Builder
    BY <1>a, <1>5 DEF TakeBuild
  <2>6. owners' \in [Build -> SUBSET Builder]
    BY <2>1, <2>2, <2>5 DEF TypeOK
  <2>7. call' \in [Handler -> Call]
    BY <2>1, <2>3 DEF TypeOK
  <2>8. /\ status' \in [Build -> Status] /\ age' \in [Build -> Age]
        /\ builderId' \in [Build -> Builder \cup {NoBuilder}]
    BY <2>1, <2>5 DEF TypeOK
  <2> QED BY <1>5, <2>4, <2>6, <2>7, <2>8 DEF TakeBuild, TypeOK
<1>6. CASE NothingToTake(h)
  BY <1>2, <1>6, <1>b DEF NothingToTake, TypeOK
<1>7. CASE HandOver(h)
  BY <1>1, <1>7, StepTypes, CallTypes DEF HandOver, TypeOK
<1>8. CASE FindUnbuildable(h)
  BY <1>2, <1>8 DEF FindUnbuildable, TypeOK
<1>9. CASE RejectUnbuildable(h)
  <2>1. CASE StatusUpdateRefused(call[h].b, "error")
    BY <1>9, <1>b, <2>1 DEF RejectUnbuildable, TypeOK
  <2>2. CASE ~StatusUpdateRefused(call[h].b, "error")
    <3>1. [call[h] EXCEPT !.pc = "take", !.b = NoBuild] \in Call
      BY <1>0, StepTypes
    <3>2. call' \in [Handler -> Call]
      BY <1>9, <2>2, <3>1 DEF RejectUnbuildable, TypeOK
    <3> QED BY <1>3, <1>9, <2>2, <3>2 DEF RejectUnbuildable, TypeOK
  <2> QED BY <2>1, <2>2
<1>10. CASE ValidateBuildOwnership(h)
  BY <1>2, <1>10, RespondType DEF ValidateBuildOwnership, TypeOK
<1>11. CASE ApplyRunning(h)
  BY <1>3, <1>11, RespondType DEF ApplyRunning, TypeOK
<1>12. CASE FailBuild(h)
  BY <1>1, <1>3, <1>12, RespondType DEF FailBuild, TypeOK
<1>13. CASE RefreshBeforePublication(h)
  BY <1>2, <1>3, <1>13 DEF RefreshBeforePublication, TypeOK
<1>14. CASE AcceptResult(h)
  BY <1>2, <1>14, RespondType DEF AcceptResult, TypeOK
<1>15. CASE RefuseResult(h)
  BY <1>15, RespondType DEF RefuseResult, TypeOK
<1>16. CASE LockForPublication(h)
  BY <1>2, <1>16, RespondType DEF LockForPublication, TypeOK
<1>17. CASE CommitPublication(h)
  <2>1. /\ status' \in [Build -> Status] /\ age' \in [Build -> Age]
        /\ details' \in [Build -> SUBSET Reason] /\ commits' \in [Build -> Nat]
        /\ publisher' \in [Build -> Builder \cup {NoBuilder}]
    <3>1. status' \in [Build -> Status] /\ age' \in [Build -> Age]
      BY <1>17 DEF CommitPublication, TypeOK
    <3>2. details' \in [Build -> SUBSET Reason]
      BY <1>17 DEF CommitPublication, TypeOK
    <3>3. commits' \in [Build -> Nat]
      <4>1. call[h].b \in Build
        BY <1>17 DEF CommitPublication, CallsAreBound
      <4>2. commits[call[h].b] + 1 \in Nat
        BY <4>1 DEF TypeOK
      <4> QED BY <1>17, <4>1, <4>2 DEF CommitPublication, TypeOK
    <3>4. publisher' \in [Build -> Builder \cup {NoBuilder}]
      BY <1>1, <1>17 DEF CommitPublication, TypeOK
    <3> QED BY <3>1, <3>2, <3>3, <3>4
  <2>2. PICK r \in {"ok", "retry"} : Respond(h, r)
    BY <1>17 DEF CommitPublication
  <2> QED BY <1>17, <2>1, <2>2, RespondType DEF CommitPublication, TypeOK
<1> QED
  BY <1>4, <1>5, <1>6, <1>7, <1>8, <1>9, <1>10, <1>11, <1>12, <1>13, <1>14, <1>15,
     <1>16, <1>17 DEF HandlerStep

(* Every step of builders, publish requests, faults, time and cleanup.        *)
LEMMA OtherTypes ==
  ASSUME TypeOK, BuildersHaveJobs, [Next]_vars,
         \A h \in Handler : ~HandlerStep(h)
  PROVE  TypeOK'
<1> USE DEF row, history, Status, Reason, Age
<1>1. ASSUME NEW b \in Build, NEW s \in {"none", "running"},
             NEW w \in Builder \cup {NoBuilder}, StoreBuild(b, s, w)
      PROVE  /\ status' \in [Build -> Status] /\ created' \in [Build -> Nat]
             /\ builderId' \in [Build -> Builder \cup {NoBuilder}]
             /\ hasSrc' \in [Build -> BOOLEAN]
  <2>1. Cardinality({a \in Build : status[a] # "absent"}) \in Nat
    BY BuildQueueAssumption, FS_Subset, FS_CardinalityType
  <2> QED BY <1>1, <2>1 DEF StoreBuild, TypeOK
<1>2. ASSUME NEW b \in Build, StoreServerBuild(b)
      PROVE  TypeOK'
  BY <1>1, <1>2 DEF StoreServerBuild, StoreBuild, TypeOK
<1>3. ASSUME NEW b \in Build, NEW w \in Client, StoreClientBuild(b, w)
      PROVE  TypeOK'
  <2>1. w \in Builder
    BY DEF Builder
  <2>2. builder' \in [Builder -> BuilderState]
    BY <1>3, StepTypes DEF StoreClientBuild, TypeOK
  <2>3. owners' \in [Build -> SUBSET Builder]
    BY <1>3, <2>1 DEF StoreClientBuild, TypeOK
  <2>4. StoreBuild(b, "running", w)
    BY <1>3 DEF StoreClientBuild
  <2> QED BY <1>1, <2>1, <2>2, <2>3, <2>4 DEF StoreBuild, TypeOK
<1>4. ASSUME NEW b \in Build, KeepaliveTimeout(b) \/ RetentionEnds(b)
      PROVE  TypeOK'
  BY <1>4 DEF KeepaliveTimeout, RetentionEnds, TypeOK
<1>5. ASSUME NEW w \in NodeBuilder, NEW h \in Handler, Poll(w, h)
      PROVE  TypeOK'
  BY <1>5, StepTypes DEF Poll, TypeOK, Builder
<1>6. ASSUME NEW w \in Builder, NEW h \in Handler, NEW note \in BOOLEAN,
             NEW op \in {"running", "error", "complete"}, Post(w, h, op, note)
      PROVE  call' \in [Handler -> Call]
  <2>1. builder[w].job \in Build \cup {NoBuild}
    BY DEF TypeOK, BuilderState
  <2>2. NewCall("own", op, w, builder[w].job, note) \in Call
    BY <2>1, StepTypes
  <2> QED BY <1>6, <2>2 DEF Post, TypeOK
<1>7. ASSUME NEW w \in Builder, NEW h \in Handler, SendKeepalive(w, h)
      PROVE  TypeOK'
  BY <1>6, <1>7 DEF SendKeepalive, TypeOK
<1>8. ASSUME NEW w \in Builder, NEW h \in Handler,
             SendResult(w, h) \/ RepeatResult(w, h)
      PROVE  TypeOK'
  <2>1. call' \in [Handler -> Call]
    BY <1>6, <1>8 DEF SendResult, RepeatResult
  <2>2. builder[w] \in BuilderState
    BY DEF TypeOK
  <2>3. [builder[w] EXCEPT !.phase = "reporting", !.timer = FALSE, !.tries = 1,
                           !.await = h] \in BuilderState
    BY <2>2 DEF BuilderState
  <2> DEFINE n == builder[w].tries + 1
  <2>4. n \in Nat
    BY <2>2 DEF BuilderState
  <2>5. [builder[w] EXCEPT !.tries = n, !.await = h] \in BuilderState
    BY <2>2, <2>4 DEF BuilderState
  <2>6. builder' \in [Builder -> BuilderState]
    <3>1. CASE SendResult(w, h)
      BY <2>3, <3>1 DEF SendResult, TypeOK
    <3>2. CASE RepeatResult(w, h)
      <4>1. builder' = [builder EXCEPT ![w] = [builder[w] EXCEPT !.tries = n, !.await = h]]
        BY <3>2 DEF RepeatResult
      <4> QED BY <2>5, <4>1 DEF TypeOK
    <3> QED BY <1>8, <3>1, <3>2
  <2> QED BY <1>8, <2>1, <2>6 DEF SendResult, RepeatResult, TypeOK
<1>9. ASSUME NEW w \in Builder, NEW h \in Handler,
             SendFailure(w, h) \/ GiveUpResult(w, h)
      PROVE  TypeOK'
  <2>1. call' \in [Handler -> Call]
    BY <1>6, <1>9 DEF SendFailure, GiveUpResult
  <2>2. /\ builder' = [builder EXCEPT ![w] = Resting]
        /\ UNCHANGED <<row, candidates, faults, history>>
    BY <1>9 DEF SendFailure, GiveUpResult
  <2> QED BY <2>1, <2>2, BuilderTypes DEF row, history, TypeOK
<1>10. ASSUME NEW w \in Builder, LoseResponse(w) \/ BuilderDies(w)
       PROVE  TypeOK'
  <2>1. faults' \in Nat
    BY <1>10 DEF LoseResponse, BuilderDies, Fault, TypeOK
  <2>2. builder' \in [Builder -> BuilderState]
    <3>1. CASE LoseResponse(w)
      BY <3>1, BuilderTypes DEF LoseResponse, TypeOK
    <3>2. CASE BuilderDies(w)
      BY <3>2, StepTypes DEF BuilderDies, TypeOK
    <3> QED BY <1>10, <3>1, <3>2
  <2> QED BY <1>10, <2>1, <2>2 DEF LoseResponse, BuilderDies, TypeOK
<1>11. ASSUME NEW h \in Handler, HandlerDies(h)
       PROVE  TypeOK'
  <2>1. faults' \in Nat
    BY <1>11 DEF HandlerDies, Fault, TypeOK
  <2>2. builder' \in [Builder -> BuilderState]
    BY <1>11, BuilderTypes DEF HandlerDies, TypeOK
  <2> QED BY <1>11, <2>1, <2>2, CallTypes DEF HandlerDies, TypeOK
<1>12. ASSUME NEW h \in Handler, NEW g \in Handler, RepeatPost(h, g)
       PROVE  TypeOK'
  <2>1. faults' \in Nat
    BY <1>12 DEF RepeatPost, Fault, TypeOK
  <2>2. /\ Again(call[h]) \in Call
        /\ [call[h] EXCEPT !.tries = RetryCount + 1] \in Call
    BY CallTypes, StepTypes DEF TypeOK
  <2>3. call' \in [Handler -> Call]
    <3>1. [call EXCEPT ![g] = Again(call[h])] \in [Handler -> Call]
      BY <2>2 DEF TypeOK
    <3>2. [call EXCEPT ![g] = Again(call[h])][h] \in {call[h], Again(call[h])}
      BY DEF TypeOK
    <3>3. [Again(call[h]) EXCEPT !.tries = RetryCount + 1] \in Call
      BY <2>2, BuildQueueAssumption DEF Call
    <3> QED BY <1>12, <2>2, <3>1, <3>2, <3>3 DEF RepeatPost
  <2>4. UNCHANGED <<status, builderId, restarts, age, details, created, hasSrc, notified,
                    builder, candidates, owners, commits, publisher>>
    BY <1>12 DEF RepeatPost, row, history
  <2> QED BY <2>1, <2>3, <2>4 DEF TypeOK
<1>13. ASSUME RemoveOldBuildEntities \/ GetRemoveCandidates \/ RemoveOldBuildDataByIds
       PROVE  TypeOK'
  <2>1. CASE RemoveOldBuildEntities
    BY <2>1 DEF RemoveOldBuildEntities, TypeOK
  <2>2. CASE GetRemoveCandidates
    <3>1. Expired \subseteq Build
      BY DEF Expired
    <3> QED BY <2>2, <3>1 DEF GetRemoveCandidates, TypeOK, row, history
  <2>3. CASE RemoveOldBuildDataByIds
    BY <2>3 DEF RemoveOldBuildDataByIds, TypeOK
  <2> QED BY <1>13, <2>1, <2>2, <2>3
<1>14. ASSUME CancelMigration
       PROVE  TypeOK'
  BY <1>14 DEF CancelMigration, TypeOK
<1>15. ASSUME UNCHANGED vars
       PROVE  TypeOK'
  BY <1>15 DEF vars, TypeOK
<1> QED
  BY <1>2, <1>3, <1>4, <1>5, <1>7, <1>8, <1>9, <1>10, <1>11, <1>12, <1>13, <1>14,
     <1>15 DEF Next, Report

-------------------------------------------------------------------------------
(* What a step can do to the row of a build and to its history.               *)

RowSame == UNCHANGED <<status, builderId, restarts, owners, commits, publisher>>

RowStored(b) ==
  /\ status[b] = "absent" /\ \A d \in Depends[b] : status[d] # "absent"
  /\ status' = [status EXCEPT ![b] = "none"]
  /\ builderId' = [builderId EXCEPT ![b] = NoBuilder]
  /\ UNCHANGED <<restarts, owners, commits, publisher>>

RowBound(b, w) ==
  /\ status[b] = "absent" /\ \A d \in Depends[b] : status[d] # "absent"
  /\ b \in ClientBuild
  /\ status' = [status EXCEPT ![b] = "running"]
  /\ builderId' = [builderId EXCEPT ![b] = w]
  /\ owners' = [owners EXCEPT ![b] = {w}]
  /\ UNCHANGED <<restarts, commits, publisher>>

RowTaken(b, w) ==
  /\ status[b] \in {"none", "running"} /\ ~Blocked(b) /\ ~RowLocked(b)
  /\ restarts[b] < 2
  /\ status' = [status EXCEPT ![b] = "running"]
  /\ restarts' = [restarts EXCEPT ![b] = IF status[b] = "none" THEN @ ELSE @ + 1]
  /\ builderId' = [builderId EXCEPT ![b] = w]
  /\ owners' = [owners EXCEPT ![b] = @ \cup {w}]
  /\ UNCHANGED <<commits, publisher>>

RowsFailed(S) ==
  /\ \A b \in S : status[b] \in {"none", "running"} /\ ~RowLocked(b)
  /\ status' = [b \in Build |-> IF b \in S THEN "error" ELSE status[b]]
  /\ UNCHANGED <<builderId, restarts, owners, commits, publisher>>

RowPublished(h) ==
  LET b == call[h].b IN
  /\ call[h].pc = "commit" /\ call'[h].pc # "commit"
  /\ status' = [status EXCEPT ![b] = "complete"]
  /\ commits' = [commits EXCEPT ![b] = @ + 1]
  /\ publisher' = [publisher EXCEPT ![b] = call[h].w]
  /\ UNCHANGED <<builderId, restarts, owners>>

RowStep ==
  \/ RowSame
  \/ \E b \in Build : \/ RowStored(b)
                      \/ \E w \in Builder : RowBound(b, w) \/ RowTaken(b, w)
  \/ \E S \in SUBSET Build : RowsFailed(S)
  \/ \E h \in Handler : RowPublished(h)

(* A status update fails the build, or leaves its status as it was.           *)
LEMMA StatusUpdate ==
  ASSUME TypeOK, NEW b \in Build, NEW s \in {"running", "error"}, NEW d,
         status[b] \notin {"absent", "none"}, ~RowLocked(b),
         ~StatusUpdateRefused(b, s), UpdateBuildStatusTx(b, s, d),
         UNCHANGED <<builderId, restarts, owners, commits, publisher>>
  PROVE  RowSame \/ RowsFailed({b})
<1>1. status[b] \in Status
  BY DEF TypeOK
<1>2. status' = [status EXCEPT ![b] = s]
  BY DEF UpdateBuildStatusTx
<1>3. CASE status[b] = s
  <2>1. status' = status
    BY <1>2, <1>3 DEF TypeOK
  <2> QED BY <2>1 DEF RowSame
<1>4. CASE status[b] # s
  <2>1. status[b] = "running" /\ s = "error"
    BY <1>1, <1>4 DEF Status, StatusUpdateRefused
  <2>2. status' = [x \in Build |-> IF x \in {b} THEN "error" ELSE status[x]]
    BY <1>2, <2>1 DEF TypeOK
  <2> QED BY <2>1, <2>2 DEF RowsFailed
<1> QED BY <1>3, <1>4

LEMMA HandlerRowStep ==
  ASSUME TypeOK, CallsAreBound, QueuedBuildIsUntouched, NEW h \in Handler, HandlerStep(h)
  PROVE  RowStep
<1> USE DEF row, history
<1>1. ASSUME call[h].pc \notin {"idle", "take"}
      PROVE  call[h].b \in Build /\ status[call[h].b] \notin {"absent", "none"}
  BY <1>1 DEF CallsAreBound, QueuedBuildIsUntouched
<1>2. ASSUME RowSame PROVE RowStep
  BY <1>2 DEF RowStep
<1>3. ASSUME call[h].pc \notin {"idle", "take"},
             RowSame \/ RowsFailed({call[h].b})
      PROVE  RowStep
  <2>1. {call[h].b} \in SUBSET Build
    BY <1>1, <1>3
  <2> QED BY <1>3, <2>1 DEF RowStep
<1>4. CASE FailExhaustedBuild(h)
  <2>1. PICK b \in Candidates : status' = [status EXCEPT ![b] = "error"]
    BY <1>4 DEF FailExhaustedBuild
  <2>2. /\ b \in Build /\ status[b] \in {"none", "running"} /\ ~RowLocked(b)
    BY DEF Candidates, Eligible, Free
  <2>3. RowsFailed({b})
    BY <1>4, <2>1, <2>2 DEF FailExhaustedBuild, RowsFailed, TypeOK
  <2> QED BY <2>2, <2>3 DEF RowStep
<1>5. CASE TakeBuild(h)
  <2>1. PICK b \in Candidates :
          /\ ~Exhausted(b)
          /\ status' = [status EXCEPT ![b] = "running"]
          /\ restarts' = [restarts EXCEPT ![b] = IF status[b] = "none" THEN @ ELSE @ + 1]
          /\ builderId' = [builderId EXCEPT ![b] = call[h].w]
          /\ owners' = [owners EXCEPT ![b] = @ \cup {call[h].w}]
    BY <1>5 DEF TakeBuild
  <2>2. /\ b \in Build /\ status[b] \in {"none", "running"}
        /\ ~Blocked(b) /\ ~RowLocked(b)
    BY DEF Candidates, Eligible, Free
  <2>3. restarts[b] < 2
    BY <2>1, <2>2 DEF Exhausted, TypeOK
  <2>4. call[h].w \in Builder
    BY <1>5 DEF TakeBuild, CallsAreBound
  <2>5. RowTaken(b, call[h].w)
    BY <1>5, <2>1, <2>2, <2>3 DEF TakeBuild, RowTaken
  <2> QED BY <2>2, <2>4, <2>5 DEF RowStep
<1>6. CASE NothingToTake(h) \/ HandOver(h) \/ FindUnbuildable(h)
  BY <1>2, <1>6 DEF NothingToTake, HandOver, FindUnbuildable, RowSame
<1>7. CASE RejectUnbuildable(h)
  BY <1>1, <1>2, <1>3, <1>7, StatusUpdate DEF RejectUnbuildable, RowSame
<1>8. CASE ApplyRunning(h)
  BY <1>1, <1>2, <1>3, <1>8, StatusUpdate DEF ApplyRunning, RowSame
<1>9. CASE FailBuild(h)
  BY <1>1, <1>2, <1>3, <1>9, StatusUpdate DEF FailBuild, RowSame
<1>10. CASE RefreshBeforePublication(h)
  BY <1>1, <1>2, <1>3, <1>10, StatusUpdate DEF RefreshBeforePublication, RowSame
<1>11. CASE \/ ValidateBuildOwnership(h) \/ AcceptResult(h) \/ RefuseResult(h)
            \/ LockForPublication(h)
  BY <1>2, <1>11 DEF ValidateBuildOwnership, AcceptResult, RefuseResult,
                     LockForPublication, RowSame
<1>12. CASE CommitPublication(h)
  <2>1. PICK r \in {"ok", "retry"} : Respond(h, r)
    BY <1>12 DEF CommitPublication
  <2>2. call'[h] \in {Idle, Again(call[h])}
    BY <2>1 DEF Respond, TypeOK
  <2>3. call'[h].pc # "commit"
    BY <2>2, CallTypes DEF Idle, TypeOK
  <2> QED BY <1>12, <2>3 DEF CommitPublication, RowPublished, RowStep
<1> QED
  BY <1>4, <1>5, <1>6, <1>7, <1>8, <1>9, <1>10, <1>11, <1>12 DEF HandlerStep

LEMMA NextRowStep ==
  ASSUME TypeOK, CallsAreBound, QueuedBuildIsUntouched, [Next]_vars
  PROVE  RowStep
<1> USE DEF row, history
<1>1. ASSUME NEW h \in Handler, HandlerStep(h) PROVE RowStep
  BY <1>1, HandlerRowStep
<1>2. ASSUME NEW b \in Build, StoreServerBuild(b) PROVE RowStep
  BY <1>2 DEF StoreServerBuild, StoreBuild, RowStored, RowStep
<1>3. ASSUME NEW b \in Build, NEW w \in Client, StoreClientBuild(b, w) PROVE RowStep
  <2>1. RowBound(b, w) /\ w \in Builder
    BY <1>3 DEF StoreClientBuild, StoreBuild, RowBound, Builder
  <2> QED BY <2>1 DEF RowStep
<1>4. ASSUME CancelMigration PROVE RowStep
  <2> DEFINE Hit == {b \in MigrationBuild : status[b] \in {"none", "running"}}
  <2>1. Hit \in SUBSET Build
    BY BuildQueueAssumption
  <2>2. RowsFailed(Hit)
    BY <1>4 DEF CancelMigration, RowsFailed
  <2> QED BY <2>1, <2>2 DEF RowStep
<1>5. ASSUME RowSame PROVE RowStep
  BY <1>5 DEF RowStep
<1>6. ASSUME NEW b \in Build, KeepaliveTimeout(b) \/ RetentionEnds(b) PROVE RowSame
  BY <1>6 DEF KeepaliveTimeout, RetentionEnds, RowSame
<1>7. ASSUME NEW w \in Builder, NEW h \in Handler,
             Poll(w, h) \/ SendKeepalive(w, h) PROVE RowSame
  BY <1>7 DEF Poll, SendKeepalive, RowSame
<1>8. ASSUME NEW w \in Builder, Report(w) \/ LoseResponse(w) \/ BuilderDies(w)
      PROVE  RowSame
  BY <1>8 DEF Report, SendResult, RepeatResult, SendFailure, GiveUpResult,
              LoseResponse, BuilderDies, RowSame
<1>9. ASSUME NEW h \in Handler, NEW g \in Handler, HandlerDies(h) \/ RepeatPost(h, g)
      PROVE  RowSame
  BY <1>9 DEF HandlerDies, RepeatPost, RowSame
<1>10. ASSUME RemoveOldBuildEntities \/ GetRemoveCandidates \/ RemoveOldBuildDataByIds
       PROVE  RowSame
  BY <1>10 DEF RemoveOldBuildEntities, GetRemoveCandidates, RemoveOldBuildDataByIds,
               RowSame
<1>11. ASSUME UNCHANGED vars PROVE RowSame
  BY <1>11 DEF vars, RowSame
<1> QED
  BY <1>1, <1>2, <1>3, <1>4, <1>5, <1>6, <1>7, <1>8, <1>9, <1>10, <1>11 DEF Next, Builder

-------------------------------------------------------------------------------
(* The invariants about rows.                                                 *)

(* What the invariant says of a publication about to commit.                  *)
LEMMA Committing ==
  ASSUME IInv, NEW h \in Handler, call[h].pc = "commit"
  PROVE  LET b == call[h].b IN
         /\ b \in Build /\ call[h].w \in owners[b]
         /\ \/ status[b] = "running"
            \/ status[b] = "error" /\ restarts[b] = 2
<1> DEFINE b == call[h].b
<1>1. b \in Build /\ call[h].w \in owners[b]
  BY DEF IInv, CallsAreBound
<1>2. status[b] \in Status /\ restarts[b] \in 0..2
  BY <1>1 DEF IInv, TypeOK
<1>3. status[b] \notin {"absent", "none"}
  BY <1>1 DEF IInv, QueuedBuildIsUntouched
<1>4. ~PublicationRefused(b)
  BY DEF IInv, PublishingIsAllowed
<1> QED BY <1>1, <1>2, <1>3, <1>4 DEF PublicationRefused, Status

(* A finished build stays finished; a stored one stays stored.                *)
LEMMA FinishedStays ==
  ASSUME IInv, RowStep, NEW b \in Build
  PROVE  /\ Finished(b) => Finished(b)'
         /\ status[b] # "absent" => status'[b] # "absent"
<1>1. TypeOK
  BY DEF IInv
<1>2. CASE RowSame
  BY <1>2 DEF RowSame, Finished
<1>3. ASSUME NEW a \in Build, NEW w \in Builder, RowBound(a, w) \/ RowTaken(a, w)
      PROVE  /\ Finished(b) => Finished(b)'
             /\ status[b] # "absent" => status'[b] # "absent"
  BY <1>1, <1>3 DEF RowBound, RowTaken, Finished, TypeOK
<1>4. ASSUME NEW a \in Build, RowStored(a)
      PROVE  /\ Finished(b) => Finished(b)'
             /\ status[b] # "absent" => status'[b] # "absent"
  BY <1>1, <1>4 DEF RowStored, Finished, TypeOK
<1>5. ASSUME NEW S \in SUBSET Build, RowsFailed(S)
      PROVE  /\ Finished(b) => Finished(b)'
             /\ status[b] # "absent" => status'[b] # "absent"
  BY <1>5 DEF RowsFailed, Finished
<1>6. ASSUME NEW h \in Handler, RowPublished(h)
      PROVE  /\ Finished(b) => Finished(b)'
             /\ status[b] # "absent" => status'[b] # "absent"
  BY <1>1, <1>6, Committing DEF RowPublished, Finished, TypeOK
<1> QED BY <1>2, <1>3, <1>4, <1>5, <1>6 DEF RowStep

LEMMA PublishedOnceStep ==
  ASSUME IInv, RowStep
  PROVE  PublishedOnceIffComplete'
<1> USE DEF PublishedOnceIffComplete
<1>1. TypeOK /\ PublishedOnceIffComplete
  BY DEF IInv
<1>2. CASE RowSame
  BY <1>1, <1>2 DEF RowSame
<1>3. ASSUME NEW a \in Build, RowStored(a) PROVE PublishedOnceIffComplete'
  BY <1>1, <1>3 DEF RowStored, TypeOK
<1>4. ASSUME NEW a \in Build, NEW w \in Builder, RowBound(a, w) \/ RowTaken(a, w)
      PROVE  PublishedOnceIffComplete'
  BY <1>1, <1>4 DEF RowBound, RowTaken, TypeOK
<1>5. ASSUME NEW S \in SUBSET Build, RowsFailed(S) PROVE PublishedOnceIffComplete'
  BY <1>1, <1>5 DEF RowsFailed
<1>6. ASSUME NEW h \in Handler, RowPublished(h) PROVE PublishedOnceIffComplete'
  <2>1. call[h].b \in Build /\ status[call[h].b] # "complete"
    BY <1>6, Committing DEF RowPublished
  <2> QED BY <1>1, <1>6, <2>1 DEF RowPublished, TypeOK
<1> QED BY <1>2, <1>3, <1>4, <1>5, <1>6 DEF RowStep

LEMMA OwnersStep ==
  ASSUME IInv, RowStep
  PROVE  PublisherWasBound' /\ BoundIsOwner' /\ RunningWasTaken'
<1> USE DEF PublisherWasBound, BoundIsOwner, RunningWasTaken
<1>1. TypeOK /\ PublisherWasBound /\ BoundIsOwner /\ RunningWasTaken
      /\ QueuedBuildIsUntouched
  BY DEF IInv
<1>a. NoBuilder \notin Builder
  BY BuildQueueAssumption
<1>2. CASE RowSame
  BY <1>1, <1>2 DEF RowSame
<1>3. ASSUME NEW a \in Build, RowStored(a)
      PROVE  PublisherWasBound' /\ BoundIsOwner' /\ RunningWasTaken'
  BY <1>1, <1>3 DEF RowStored, TypeOK
<1>4. ASSUME NEW a \in Build, NEW w \in Builder, RowBound(a, w)
      PROVE  PublisherWasBound' /\ BoundIsOwner' /\ RunningWasTaken'
  <2>1. owners[a] = {}
    BY <1>1, <1>4 DEF RowBound, QueuedBuildIsUntouched
  <2> QED BY <1>1, <1>4, <2>1 DEF RowBound, TypeOK
<1>5. ASSUME NEW a \in Build, NEW w \in Builder, RowTaken(a, w)
      PROVE  PublisherWasBound' /\ BoundIsOwner' /\ RunningWasTaken'
  BY <1>1, <1>5 DEF RowTaken, TypeOK
<1>6. ASSUME NEW S \in SUBSET Build, RowsFailed(S)
      PROVE  PublisherWasBound' /\ BoundIsOwner' /\ RunningWasTaken'
  BY <1>1, <1>6 DEF RowsFailed
<1>7. ASSUME NEW h \in Handler, RowPublished(h)
      PROVE  PublisherWasBound' /\ BoundIsOwner' /\ RunningWasTaken'
  <2>1. call[h].b \in Build /\ call[h].w \in owners[call[h].b]
    BY <1>7, Committing DEF RowPublished
  <2> QED BY <1>1, <1>7, <2>1 DEF RowPublished, TypeOK
<1> QED BY <1>2, <1>3, <1>4, <1>5, <1>6, <1>7 DEF RowStep

LEMMA DependenciesStep ==
  ASSUME IInv, RowStep
  PROVE  TakenAfterDependencies'
<1>1. TypeOK /\ TakenAfterDependencies /\ QueuedBuildIsUntouched
  BY DEF IInv
<1> SUFFICES ASSUME NEW b \in Build, NEW d \in Depends[b]
             PROVE  /\ status'[b] # "absent" => status'[d] # "absent"
                    /\ b \notin ClientBuild /\ owners'[b] # {} => Finished(d)'
  BY DEF TakenAfterDependencies
<1>2. d \in Build
  BY BuildQueueAssumption
<1>3. /\ status[b] # "absent" => status[d] # "absent"
      /\ b \notin ClientBuild /\ owners[b] # {} => Finished(d)
  BY <1>1 DEF TakenAfterDependencies
<1>4. /\ Finished(d) => Finished(d)'
      /\ status[d] # "absent" => status'[d] # "absent"
  BY <1>2, FinishedStays
<1>5. CASE RowSame
  BY <1>3, <1>4, <1>5 DEF RowSame
<1>6. ASSUME NEW a \in Build, RowStored(a)
      PROVE  /\ status'[b] # "absent" => status'[d] # "absent"
             /\ owners' = owners
  BY <1>1, <1>3, <1>4, <1>6 DEF RowStored, TypeOK
<1>7. ASSUME NEW a \in Build, NEW w \in Builder, RowBound(a, w)
      PROVE  /\ status'[b] # "absent" => status'[d] # "absent"
             /\ b \notin ClientBuild => owners'[b] = owners[b]
  BY <1>1, <1>3, <1>4, <1>7 DEF RowBound, TypeOK
<1>8. ASSUME NEW a \in Build, NEW w \in Builder, RowTaken(a, w)
      PROVE  /\ status'[b] # "absent" => status'[d] # "absent"
             /\ b \notin ClientBuild /\ owners'[b] # {} => Finished(d)
  <2>1. CASE a = b
    <3>1. status[b] # "absent" /\ status[d] \notin {"none", "running"}
      BY <1>8, <2>1 DEF RowTaken, Blocked
    <3>2. status[d] \in Status /\ status[d] # "absent"
      BY <1>1, <1>2, <1>3, <3>1 DEF TypeOK
    <3> QED BY <1>4, <3>1, <3>2 DEF Finished, Status
  <2>2. CASE a # b
    BY <1>1, <1>3, <1>4, <1>8, <2>2 DEF RowTaken, TypeOK
  <2> QED BY <2>1, <2>2
<1>9. ASSUME NEW S \in SUBSET Build, RowsFailed(S)
      PROVE  /\ status'[b] # "absent" => status'[d] # "absent"
             /\ owners' = owners
  BY <1>3, <1>4, <1>9 DEF RowsFailed
<1>10. ASSUME NEW h \in Handler, RowPublished(h)
       PROVE  /\ status'[b] # "absent" => status'[d] # "absent"
              /\ owners' = owners
  BY <1>1, <1>3, <1>4, <1>10, Committing DEF RowPublished, TypeOK
<1> QED BY <1>3, <1>4, <1>5, <1>6, <1>7, <1>8, <1>9, <1>10 DEF RowStep

(* Sources appear with the build and are removed of finished builds only.     *)
SourcesStep ==
  /\ \A b \in Build : /\ hasSrc[b] /\ ~Finished(b) => hasSrc'[b]
                      /\ status[b] = "absent" /\ status'[b] # "absent" => hasSrc'[b]
  /\ candidates' \in {candidates, {}, Expired}

LEMMA NextSourcesStep ==
  ASSUME IInv, [Next]_vars
  PROVE  SourcesStep
<1> USE DEF row, history, SourcesStep
<1>0. TypeOK /\ CandidatesAreFinished
  BY DEF IInv
<1>1. ASSUME UNCHANGED <<status, hasSrc, candidates>> PROVE SourcesStep
  BY <1>1
<1>2. ASSUME NEW h \in Handler, HandlerStep(h) PROVE SourcesStep
  <2>1. hasSrc' = hasSrc /\ candidates' = candidates
    BY <1>2 DEF HandlerStep, FailExhaustedBuild, TakeBuild, NothingToTake, HandOver,
      FindUnbuildable, RejectUnbuildable, ValidateBuildOwnership, ApplyRunning,
      FailBuild, RefreshBeforePublication, AcceptResult, RefuseResult,
      LockForPublication, CommitPublication
  <2>2. ASSUME NEW b \in Build, status[b] = "absent", status'[b] # "absent"
        PROVE  FALSE
    <3>1. call[h].pc \notin {"idle", "take"} => call[h].b # b
      BY <2>2 DEF IInv, QueuedBuildIsUntouched
    <3>2. \A x \in Candidates : x # b
      BY <2>2 DEF Candidates, Eligible, Free
    <3> QED
      BY <1>0, <1>2, <2>2, <3>1, <3>2 DEF HandlerStep, FailExhaustedBuild, TakeBuild,
        NothingToTake, HandOver, FindUnbuildable, RejectUnbuildable,
        ValidateBuildOwnership, ApplyRunning, FailBuild, RefreshBeforePublication,
        AcceptResult, RefuseResult, LockForPublication, CommitPublication,
        UpdateBuildStatusTx, TypeOK
  <2> QED BY <2>1, <2>2
<1>3. ASSUME NEW b \in Build, NEW s, NEW w, StoreBuild(b, s, w) PROVE SourcesStep
  BY <1>0, <1>3 DEF StoreBuild, TypeOK
<1>4. ASSUME RemoveOldBuildEntities \/ GetRemoveCandidates \/ RemoveOldBuildDataByIds
      PROVE  SourcesStep
  BY <1>0, <1>4 DEF RemoveOldBuildEntities, GetRemoveCandidates,
    RemoveOldBuildDataByIds, Expired, CandidatesAreFinished
<1>5. ASSUME CancelMigration PROVE SourcesStep
  BY <1>5 DEF CancelMigration
<1>6. ASSUME NEW b \in Build, KeepaliveTimeout(b) \/ RetentionEnds(b) PROVE SourcesStep
  BY <1>6 DEF KeepaliveTimeout, RetentionEnds
<1>7. ASSUME NEW w \in Builder, NEW h \in Handler,
             Poll(w, h) \/ SendKeepalive(w, h) PROVE SourcesStep
  BY <1>7 DEF Poll, SendKeepalive
<1>8. ASSUME NEW w \in Builder, Report(w) \/ LoseResponse(w) \/ BuilderDies(w)
      PROVE  SourcesStep
  BY <1>8 DEF Report, SendResult, RepeatResult, SendFailure, GiveUpResult,
              LoseResponse, BuilderDies
<1>9. ASSUME NEW h \in Handler, NEW g \in Handler, HandlerDies(h) \/ RepeatPost(h, g)
      PROVE  SourcesStep
  BY <1>9 DEF HandlerDies, RepeatPost
<1>10. ASSUME UNCHANGED vars PROVE SourcesStep
  BY <1>10 DEF vars
<1> QED
  BY <1>2, <1>3, <1>4, <1>5, <1>6, <1>7, <1>8, <1>9, <1>10
  DEF Next, Builder, StoreServerBuild, StoreClientBuild

LEMMA SourcesInvariant ==
  ASSUME IInv, RowStep, SourcesStep
  PROVE  UnfinishedBuildHasSources' /\ CandidatesAreFinished'
<1>1. /\ UnfinishedBuildHasSources /\ CandidatesAreFinished
      /\ candidates \in SUBSET Build /\ status \in [Build -> Status]
  BY DEF IInv, TypeOK
<1>2. ASSUME NEW b \in Build, status'[b] \in {"none", "running"}
      PROVE  hasSrc'[b]
  <2>1. ~Finished(b)
    BY <1>2, FinishedStays DEF Finished
  <2>2. CASE status[b] = "absent"
    BY <1>2, <2>2 DEF SourcesStep
  <2>3. CASE status[b] \in {"none", "running"}
    BY <1>1, <2>1, <2>3 DEF SourcesStep, UnfinishedBuildHasSources
  <2> QED BY <1>1, <2>1, <2>2, <2>3 DEF Finished, Status
<1>3. ASSUME NEW b \in candidates'
      PROVE  Finished(b)'
  <2>1. b \in Build /\ Finished(b)
    BY <1>1, <1>3 DEF SourcesStep, Expired, CandidatesAreFinished
  <2> QED BY <2>1, FinishedStays
<1> QED BY <1>2, <1>3 DEF UnfinishedBuildHasSources, CandidatesAreFinished

-------------------------------------------------------------------------------
(* What a step can do to calls and builders.                                  *)

CallKept(x) == /\ call'[x].pc = call[x].pc /\ call'[x].op = call[x].op
               /\ call'[x].w = call[x].w /\ call'[x].b = call[x].b

CallEnds(x) == call'[x].pc = "idle" /\ call'[x].b = NoBuild

(* A call goes on with its build.                                             *)
CallMoves(x) ==
  /\ call'[x].w = call[x].w /\ call'[x].b = call[x].b /\ call[x].b # NoBuild
  /\ call'[x].op = call[x].op
  /\ \/ call[x].pc \in {"take", "load"} /\ call'[x].pc \in {"load", "reject"}
     \/ call[x].pc # "idle" /\ call'[x].pc = "own"
     \/ call[x].pc = "own" /\ Owns(call[x].b, call[x].w)
          /\ call'[x].pc \in {"apply", "refresh"}
     \/ call[x].pc \in {"refresh", "check"} /\ call'[x].pc \in {"check", "lock"}

CallLocks(x) ==
  /\ call[x].pc = "lock" /\ call' = [call EXCEPT ![x] = [@ EXCEPT !.pc = "commit"]]
  /\ ~RowLocked(call[x].b) /\ ~PublicationRefused(call[x].b)
  /\ UNCHANGED <<status, restarts>>

CallPolls(x) == /\ call'[x].pc = "take" /\ call'[x].op = "poll"
                /\ call'[x].w \in Builder /\ call'[x].b = NoBuild

CallTakes(x) ==
  /\ call[x].pc = "take" /\ call'[x].pc \in {"take", "load"}
  /\ call'[x].w = call[x].w /\ call'[x].op = call[x].op
  /\ call'[x].b \in Build /\ status'[call'[x].b] \in {"running", "error"}

CallPosts(x) ==
  /\ call'[x].pc = "own" /\ call'[x].w \in Builder
  /\ builder[call'[x].w].phase \in {"building", "reporting"}
  /\ call'[x].b = builder[call'[x].w].job

CallRepeats(x) ==
  \E g \in Handler : /\ call[g].pc \notin {"idle", "take"}
                     /\ call'[x].pc = "own"
                     /\ call'[x].w = call[g].w /\ call'[x].b = call[g].b

CallStep(x) == \/ CallKept(x) \/ CallEnds(x) \/ CallMoves(x) \/ CallLocks(x)
               \/ CallPolls(x) \/ CallTakes(x) \/ CallPosts(x) \/ CallRepeats(x)

Working(w) == builder[w].phase \in {"building", "reporting"}

BuilderStep(w) ==
  \/ builder'[w].job = builder[w].job /\ (Working(w)' => Working(w))
  \/ builder'[w].job = NoBuild /\ ~Working(w)'
  \/ \E h \in Handler : call[h].pc = "load" /\ builder'[w].job = call[h].b
  \/ builder'[w].job \in Build /\ status'[builder'[w].job] = "running"

(* A queued build was not stored, or queued, before.                          *)
LEMMA QueuedBefore ==
  ASSUME IInv, RowStep, NEW b \in Build, status'[b] \in {"absent", "none"}
  PROVE  status[b] \in {"absent", "none"} /\ owners'[b] = owners[b]
<1>1. TypeOK
  BY DEF IInv
<1>2. CASE RowSame
  BY <1>2 DEF RowSame
<1>3. ASSUME NEW a \in Build, RowStored(a)
      PROVE  status[b] \in {"absent", "none"} /\ owners'[b] = owners[b]
  BY <1>1, <1>3 DEF RowStored, TypeOK
<1>4. ASSUME NEW a \in Build, NEW w \in Builder, RowBound(a, w) \/ RowTaken(a, w)
      PROVE  status[b] \in {"absent", "none"} /\ owners'[b] = owners[b]
  BY <1>1, <1>4 DEF RowBound, RowTaken, TypeOK
<1>5. ASSUME NEW S \in SUBSET Build, RowsFailed(S)
      PROVE  status[b] \in {"absent", "none"} /\ owners'[b] = owners[b]
  BY <1>5 DEF RowsFailed
<1>6. ASSUME NEW h \in Handler, RowPublished(h)
      PROVE  status[b] \in {"absent", "none"} /\ owners'[b] = owners[b]
  BY <1>1, <1>6 DEF RowPublished, TypeOK
<1> QED BY <1>2, <1>3, <1>4, <1>5, <1>6 DEF RowStep

(* Who was ever given a build stays recorded.                                 *)
LEMMA OwnersGrow ==
  ASSUME IInv, RowStep, NEW b \in Build
  PROVE  owners[b] \subseteq owners'[b]
<1>1. TypeOK /\ QueuedBuildIsUntouched
  BY DEF IInv
<1>2. CASE RowSame
  BY <1>2 DEF RowSame
<1>3. ASSUME NEW a \in Build, NEW w \in Builder, RowBound(a, w)
      PROVE  owners[b] \subseteq owners'[b]
  BY <1>1, <1>3 DEF RowBound, TypeOK, QueuedBuildIsUntouched
<1>4. ASSUME NEW a \in Build, NEW w \in Builder, RowTaken(a, w)
      PROVE  owners[b] \subseteq owners'[b]
  BY <1>1, <1>4 DEF RowTaken, TypeOK
<1> QED BY <1>2, <1>3, <1>4 DEF RowStep, RowStored, RowsFailed, RowPublished

(* An answer ends the call or has it repeated, and ends the builder's work or *)
(* leaves it as it was.                                                       *)
LEMMA RespondStep ==
  ASSUME TypeOK, NEW h \in Handler, NEW r, Respond(h, r),
         call[h].pc \notin {"idle", "take"}, call[h].b \in Build
  PROVE  (\A x \in Handler : CallStep(x)) /\ (\A w \in Builder : BuilderStep(w))
<1>0. call[h].b # NoBuild
  BY BuildQueueAssumption
<1>1. call'[h] \in {Idle, Again(call[h])}
      /\ \A x \in Handler \ {h} : call'[x] = call[x]
  BY DEF Respond, TypeOK
<1>2. CallEnds(h) \/ CallMoves(h)
  BY <1>0, <1>1, CallTypes DEF Idle, CallEnds, CallMoves, TypeOK
<1>3. \A x \in Handler : CallStep(x)
  BY <1>1, <1>2 DEF CallStep, CallKept
<1>4. ASSUME NEW w \in Builder
      PROVE  BuilderStep(w)
  <2>1. builder[w] \in BuilderState
    BY DEF TypeOK
  <2>2. builder'[w] \in {builder[w], Heard(w, h, call[h], r)}
    BY DEF Respond, TypeOK
  <2>3. Heard(w, h, call[h], r) = Resting
        \/ /\ Heard(w, h, call[h], r).job = builder[w].job
           /\ Heard(w, h, call[h], r).phase = builder[w].phase
    BY <2>1 DEF Heard, BuilderState
  <2> QED BY <2>2, <2>3 DEF BuilderStep, Working, Resting
<1> QED BY <1>3, <1>4

LEMMA HandlerCallStep ==
  ASSUME TypeOK, CallsAreBound, QueuedBuildIsUntouched, NEW h \in Handler, HandlerStep(h)
  PROVE  (\A x \in Handler : CallStep(x)) /\ (\A w \in Builder : BuilderStep(w))
<1> DEFINE Goal == (\A x \in Handler : CallStep(x)) /\ (\A w \in Builder : BuilderStep(w))
<1> USE DEF row, history
<1>1. call[h] \in Call
  BY DEF TypeOK
<1>2. ASSUME call[h].pc \notin {"idle", "take"}
      PROVE  call[h].b \in Build /\ call[h].b # NoBuild
  BY <1>2, BuildQueueAssumption DEF CallsAreBound
<1>3. ASSUME builder' = builder, NEW c \in Call, call' = [call EXCEPT ![h] = c], CallStep(h)
      PROVE  Goal
  <2>1. \A x \in Handler \ {h} : call'[x] = call[x]
    BY <1>3 DEF TypeOK
  <2>2. \A x \in Handler : CallStep(x)
    BY <1>3, <2>1 DEF CallStep, CallKept
  <2> QED BY <1>3, <2>2 DEF BuilderStep, Working
<1>4. ASSUME NEW pc, Continue(h, pc), call[h].b # NoBuild,
             \/ call[h].pc \in {"take", "load"} /\ pc \in {"load", "reject"}
             \/ /\ call[h].pc = "own" /\ Owns(call[h].b, call[h].w)
                /\ pc \in {"apply", "refresh"}
             \/ call[h].pc \in {"refresh", "check"} /\ pc \in {"check", "lock"}
      PROVE  Goal
  <2> DEFINE c == [call[h] EXCEPT !.pc = pc]
  <2>0. pc \in {"load", "reject", "apply", "refresh", "check", "lock"}
    BY <1>4
  <2>1. c \in Call /\ c.pc = pc /\ c.op = call[h].op /\ c.w = call[h].w /\ c.b = call[h].b
    BY <1>1, <2>0 DEF Call
  <2>2. call' = [call EXCEPT ![h] = c] /\ builder' = builder
    BY <1>4 DEF Continue
  <2>3. CallMoves(h)
    BY <1>4, <2>1, <2>2 DEF CallMoves, TypeOK
  <2>4. CallStep(h)
    BY <2>3 DEF CallStep
  <2> QED BY <1>3, <2>1, <2>2, <2>4
<1>5. ASSUME call' = [call EXCEPT ![h] = Idle], NEW w, NEW s,
             \/ s = Resting
             \/ call[h].pc = "load" /\ s = [Resting EXCEPT !.phase = "building",
                                             !.job = call[h].b, !.timer = TRUE],
             builder' = [builder EXCEPT ![w] = IF @.await = h THEN s ELSE @]
      PROVE  Goal
  <2>1. \A x \in Handler : CallStep(x)
    BY <1>5 DEF CallStep, CallKept, CallEnds, Idle, TypeOK
  <2>2. \/ s.job = NoBuild /\ s.phase = "idle"
        \/ call[h].pc = "load" /\ s.job = call[h].b
    <3>1. CASE s = Resting
      BY <3>1 DEF Resting
    <3>2. CASE s # Resting
      BY <1>5, <3>2 DEF Resting
    <3> QED BY <3>1, <3>2
  <2>3. \A u \in Builder : builder'[u] \in {builder[u], s}
    BY <1>5 DEF TypeOK
  <2> QED BY <2>1, <2>2, <2>3 DEF BuilderStep, Working
<1>6. CASE FailExhaustedBuild(h)
  <2>1. PICK b \in Candidates : /\ status' = [status EXCEPT ![b] = "error"]
                                /\ call' = [call EXCEPT ![h] = [@ EXCEPT !.b = b]]
    BY <1>6 DEF FailExhaustedBuild
  <2> DEFINE c == [call[h] EXCEPT !.b = b]
  <2>2. b \in Build
    BY DEF Candidates, Eligible
  <2>3. c \in Call /\ c.pc = call[h].pc /\ c.w = call[h].w /\ c.b = b /\ c.op = call[h].op
    BY <1>1, <2>2 DEF Call
  <2>4. call'[h] = c /\ status'[b] = "error"
    BY <2>1, <2>2 DEF TypeOK
  <2>5. CallTakes(h)
    BY <1>6, <2>2, <2>3, <2>4 DEF CallTakes, FailExhaustedBuild
  <2> QED BY <1>3, <1>6, <2>1, <2>3, <2>5 DEF FailExhaustedBuild, CallStep
<1>7. CASE TakeBuild(h)
  <2>1. PICK b \in Candidates :
          /\ status' = [status EXCEPT ![b] = "running"]
          /\ call' = [call EXCEPT ![h] = [@ EXCEPT !.b = b, !.pc = "load"]]
    BY <1>7 DEF TakeBuild
  <2> DEFINE c == [call[h] EXCEPT !.b = b, !.pc = "load"]
  <2>2. b \in Build
    BY DEF Candidates, Eligible
  <2>3. c \in Call /\ c.pc = "load" /\ c.w = call[h].w /\ c.b = b /\ c.op = call[h].op
    BY <1>1, <2>2 DEF Call
  <2>4. call'[h] = c /\ status'[b] = "running"
    BY <2>1, <2>2 DEF TypeOK
  <2>5. CallTakes(h)
    <3>1. call[h].pc = "take"
      BY <1>7 DEF TakeBuild
    <3> HIDE DEF c
    <3> QED BY <2>2, <2>3, <2>4, <3>1 DEF CallTakes
  <2> QED BY <1>3, <1>7, <2>1, <2>3, <2>5 DEF TakeBuild, CallStep
<1>8. CASE NothingToTake(h)
  BY <1>4, <1>5, <1>8 DEF NothingToTake
<1>9. CASE HandOver(h)
  BY <1>5, <1>9 DEF HandOver
<1>10. CASE FindUnbuildable(h)
  BY <1>2, <1>4, <1>10 DEF FindUnbuildable
<1>11. CASE RejectUnbuildable(h)
  <2>1. CASE StatusUpdateRefused(call[h].b, "error")
    BY <1>5, <1>11, <2>1 DEF RejectUnbuildable
  <2>2. CASE ~StatusUpdateRefused(call[h].b, "error")
    <3> DEFINE c == [call[h] EXCEPT !.pc = "take", !.b = NoBuild]
    <3>1. c \in Call /\ c.pc = "take" /\ c.b = NoBuild /\ c.w = call[h].w /\ c.op = call[h].op
      BY <1>1 DEF Call
    <3>2. call' = [call EXCEPT ![h] = c] /\ builder' = builder
      BY <1>11, <2>2 DEF RejectUnbuildable
    <3>3. call[h].w \in Builder /\ call[h].op = "poll"
      BY <1>11 DEF RejectUnbuildable, CallsAreBound
    <3>4. CallPolls(h)
      BY <3>1, <3>2, <3>3 DEF CallPolls, TypeOK
    <3> QED BY <1>3, <3>1, <3>2, <3>4 DEF CallStep
  <2> QED BY <2>1, <2>2
<1>12. CASE ValidateBuildOwnership(h)
  <2>1. CASE Owns(call[h].b, call[h].w)
    BY <1>2, <1>4, <1>12, <2>1 DEF ValidateBuildOwnership
  <2>2. CASE ~Owns(call[h].b, call[h].w)
    BY <1>2, <1>12, <2>2, RespondStep DEF ValidateBuildOwnership
  <2> QED BY <2>1, <2>2
<1>13. CASE ApplyRunning(h)
  BY <1>2, <1>13, RespondStep DEF ApplyRunning
<1>14. CASE FailBuild(h)
  BY <1>2, <1>14, RespondStep DEF FailBuild
<1>15. CASE RefreshBeforePublication(h)
  BY <1>2, <1>4, <1>15 DEF RefreshBeforePublication
<1>16. CASE AcceptResult(h)
  BY <1>2, <1>4, <1>16, RespondStep DEF AcceptResult
<1>17. CASE RefuseResult(h)
  BY <1>2, <1>17, RespondStep DEF RefuseResult
<1>18. CASE LockForPublication(h)
  <2>1. CASE PublicationRefused(call[h].b)
    BY <1>2, <1>18, <2>1, RespondStep DEF LockForPublication
  <2>2. CASE ~PublicationRefused(call[h].b)
    <3> DEFINE c == [call[h] EXCEPT !.pc = "commit"]
    <3>1. c \in Call /\ call' = [call EXCEPT ![h] = c] /\ builder' = builder
      BY <1>1, <1>18, <2>2, StepTypes DEF LockForPublication, Continue
    <3>2. CallLocks(h)
      BY <1>18, <2>2 DEF LockForPublication, Continue, CallLocks
    <3> QED BY <1>3, <3>1, <3>2 DEF CallStep
  <2> QED BY <2>1, <2>2
<1>19. CASE CommitPublication(h)
  <2>1. PICK r \in {"ok", "retry"} : Respond(h, r)
    BY <1>19 DEF CommitPublication
  <2> QED BY <1>2, <1>19, <2>1, RespondStep DEF CommitPublication
<1> QED
  BY <1>6, <1>7, <1>8, <1>9, <1>10, <1>11, <1>12, <1>13, <1>14, <1>15, <1>16, <1>17,
     <1>18, <1>19 DEF HandlerStep

LEMMA NextCallStep ==
  ASSUME IInv, [Next]_vars
  PROVE  (\A x \in Handler : CallStep(x)) /\ (\A w \in Builder : BuilderStep(w))
<1> DEFINE Goal == (\A x \in Handler : CallStep(x)) /\ (\A w \in Builder : BuilderStep(w))
<1> USE DEF row, history
<1>0. TypeOK /\ CallsAreBound /\ QueuedBuildIsUntouched /\ BuildersHaveJobs
  BY DEF IInv
<1>1. ASSUME NEW h \in Handler, HandlerStep(h) PROVE Goal
  BY <1>0, <1>1, HandlerCallStep
<1>2. ASSUME UNCHANGED call PROVE \A x \in Handler : CallStep(x)
  BY <1>2 DEF CallStep, CallKept
<1>3. ASSUME UNCHANGED builder PROVE \A w \in Builder : BuilderStep(w)
  BY <1>3 DEF BuilderStep, Working
<1>4. ASSUME NEW b \in Build, StoreServerBuild(b) PROVE Goal
  BY <1>2, <1>3, <1>4 DEF StoreServerBuild, StoreBuild
<1>5. ASSUME NEW b \in Build, NEW w \in Client, StoreClientBuild(b, w) PROVE Goal
  <2>1. UNCHANGED call /\ status'[b] = "running"
    BY <1>0, <1>5 DEF StoreClientBuild, StoreBuild, TypeOK
  <2> DEFINE s == [Resting EXCEPT !.phase = "building", !.job = b, !.timer = TRUE]
  <2>2. s.job = b
    BY DEF Resting
  <2>3. \A u \in Builder : builder'[u] \in {builder[u], s}
    BY <1>0, <1>5 DEF StoreClientBuild, TypeOK
  <2>4. \A u \in Builder : BuilderStep(u)
    BY <2>1, <2>2, <2>3 DEF BuilderStep, Working
  <2> QED BY <1>2, <2>1, <2>4
<1>6. ASSUME NEW b \in Build, KeepaliveTimeout(b) \/ RetentionEnds(b) PROVE Goal
  BY <1>2, <1>3, <1>6 DEF KeepaliveTimeout, RetentionEnds
<1>7. ASSUME \/ RemoveOldBuildEntities \/ GetRemoveCandidates
             \/ RemoveOldBuildDataByIds \/ CancelMigration
      PROVE  Goal
  BY <1>2, <1>3, <1>7 DEF RemoveOldBuildEntities, GetRemoveCandidates,
                          RemoveOldBuildDataByIds, CancelMigration
<1>8. ASSUME NEW w \in NodeBuilder, NEW h \in Handler, Poll(w, h) PROVE Goal
  <2> DEFINE c == NewCall("take", "poll", w, NoBuild, FALSE)
  <2>1. c.pc = "take" /\ c.op = "poll" /\ c.w = w /\ c.b = NoBuild
    BY DEF NewCall
  <2>2. call'[h] = c /\ \A x \in Handler \ {h} : call'[x] = call[x]
    BY <1>0, <1>8 DEF Poll, TypeOK
  <2>3. CallPolls(h)
    BY <2>1, <2>2 DEF CallPolls, Builder
  <2>4. \A x \in Handler : CallStep(x)
    BY <2>2, <2>3 DEF CallStep, CallKept
  <2> DEFINE s == [Resting EXCEPT !.phase = "asking", !.await = h]
  <2>5. s.job = NoBuild /\ s.phase = "asking"
    BY DEF Resting
  <2>6. \A u \in Builder : builder'[u] \in {builder[u], s}
    BY <1>0, <1>8 DEF Poll, TypeOK
  <2>7. \A u \in Builder : BuilderStep(u)
    BY <2>5, <2>6 DEF BuilderStep, Working
  <2> QED BY <2>4, <2>7
<1>9. ASSUME NEW w \in Builder, NEW h \in Handler, NEW op, NEW note,
             Post(w, h, op, note), Working(w)
      PROVE  \A x \in Handler : CallStep(x)
  <2> DEFINE c == NewCall("own", op, w, builder[w].job, note)
  <2>1. c.pc = "own" /\ c.w = w /\ c.b = builder[w].job
    BY DEF NewCall
  <2>2. call'[h] = c /\ \A x \in Handler \ {h} : call'[x] = call[x]
    BY <1>0, <1>9 DEF Post, TypeOK
  <2>3. CallPosts(h)
    BY <1>9, <2>1, <2>2 DEF CallPosts, Working
  <2> QED BY <2>2, <2>3 DEF CallStep, CallKept
<1>10. ASSUME NEW w \in Builder, NEW h \in Handler, SendKeepalive(w, h) PROVE Goal
  BY <1>3, <1>9, <1>10 DEF SendKeepalive, Working
<1>11. ASSUME NEW w \in Builder, NEW s, builder' = [builder EXCEPT ![w] = s],
              \/ s.job = NoBuild /\ s.phase \notin {"building", "reporting"}
              \/ s.job = builder[w].job
                 /\ (s.phase \in {"building", "reporting"} => Working(w))
       PROVE  \A u \in Builder : BuilderStep(u)
  <2>1. builder'[w] = s /\ \A u \in Builder \ {w} : builder'[u] = builder[u]
    BY <1>0, <1>11 DEF TypeOK
  <2> QED BY <1>11, <2>1 DEF BuilderStep, Working
<1>12. ASSUME NEW w \in Builder, NEW h \in Handler, SendResult(w, h) \/ RepeatResult(w, h)
       PROVE  Goal
  <2>1. Working(w) /\ builder[w] \in BuilderState
    BY <1>0, <1>12 DEF SendResult, RepeatResult, Working, TypeOK
  <2>2. Post(w, h, "complete", FALSE)
    BY <1>12 DEF SendResult, RepeatResult
  <2>3. PICK s : builder' = [builder EXCEPT ![w] = s] /\ s.job = builder[w].job
    <3>1. CASE SendResult(w, h)
      <4> DEFINE s == [builder[w] EXCEPT !.phase = "reporting", !.timer = FALSE,
                                         !.tries = 1, !.await = h]
      <4>1. s.job = builder[w].job
        BY <2>1 DEF BuilderState
      <4>2. builder' = [builder EXCEPT ![w] = s]
        BY <3>1 DEF SendResult
      <4> QED BY <4>1, <4>2
    <3>2. CASE RepeatResult(w, h)
      <4> DEFINE s == [builder[w] EXCEPT !.tries = builder[w].tries + 1, !.await = h]
      <4>1. s.job = builder[w].job
        BY <2>1 DEF BuilderState
      <4>2. builder' = [builder EXCEPT ![w] = s]
        BY <3>2 DEF RepeatResult
      <4> QED BY <4>1, <4>2
    <3> QED BY <1>12, <3>1, <3>2
  <2> QED BY <1>9, <1>11, <2>1, <2>2, <2>3
<1>13. ASSUME NEW w \in Builder, NEW h \in Handler, SendFailure(w, h) \/ GiveUpResult(w, h)
       PROVE  Goal
  <2>1. Working(w) /\ builder' = [builder EXCEPT ![w] = Resting]
    BY <1>13 DEF SendFailure, GiveUpResult, Working
  <2>2. \E note : Post(w, h, "error", note)
    BY <1>13 DEF SendFailure, GiveUpResult
  <2>3. Resting.job = NoBuild /\ Resting.phase = "idle"
    BY DEF Resting
  <2> QED BY <1>9, <1>11, <2>1, <2>2, <2>3
<1>14. ASSUME NEW w \in Builder, LoseResponse(w) \/ BuilderDies(w) PROVE Goal
  <2>1. UNCHANGED call
    BY <1>14 DEF LoseResponse, BuilderDies
  <2>2. builder[w] \in BuilderState
    BY <1>0 DEF TypeOK
  <2>3. ASSUME NEW s \in {Resting, [Resting EXCEPT !.phase = "dead"],
                          [builder[w] EXCEPT !.await = NoHandler]}
        PROVE  \/ s.job = NoBuild /\ s.phase \notin {"building", "reporting"}
               \/ s.job = builder[w].job
                  /\ (s.phase \in {"building", "reporting"} => Working(w))
    BY <2>2 DEF Resting, BuilderState, Working
  <2>4. CASE LoseResponse(w)
    BY <1>2, <1>11, <2>1, <2>3, <2>4 DEF LoseResponse
  <2>5. CASE BuilderDies(w)
    BY <1>2, <1>11, <2>1, <2>3, <2>5 DEF BuilderDies
  <2> QED BY <1>14, <2>4, <2>5
<1>15. ASSUME NEW h \in Handler, HandlerDies(h) PROVE Goal
  <2>1. call'[h] = Idle /\ \A x \in Handler \ {h} : call'[x] = call[x]
    BY <1>0, <1>15 DEF HandlerDies, TypeOK
  <2>2. \A x \in Handler : CallStep(x)
    BY <2>1 DEF CallStep, CallKept, CallEnds, Idle
  <2>3. ASSUME NEW w \in Builder
        PROVE  BuilderStep(w)
    <3>1. builder[w] \in BuilderState
      BY <1>0 DEF TypeOK
    <3>2. builder'[w] \in {builder[w], Resting, [builder[w] EXCEPT !.await = NoHandler]}
      BY <1>15 DEF HandlerDies
    <3> QED BY <3>1, <3>2 DEF BuilderStep, Working, Resting, BuilderState
  <2> QED BY <2>2, <2>3
<1>16. ASSUME NEW h \in Handler, NEW g \in Handler, RepeatPost(h, g) PROVE Goal
  <2> DEFINE c == [call[h] EXCEPT !.tries = RetryCount + 1]
  <2>1. call[h] \in Call
    BY <1>0 DEF TypeOK
  <2>2. c.pc = call[h].pc /\ c.op = call[h].op /\ c.w = call[h].w /\ c.b = call[h].b
    BY <2>1 DEF Call
  <2>3. /\ call[h].pc \notin {"idle", "take"} /\ h # g
    BY <1>0, <1>16 DEF RepeatPost, Repeatable, CallsAreBound
  <2>4. /\ call'[h] = c /\ call'[g] = Again(call[h])
        /\ \A x \in Handler \ {g, h} : call'[x] = call[x]
    BY <1>0, <1>16, <2>3 DEF RepeatPost, TypeOK
  <2>5. CallRepeats(g) /\ CallKept(h)
    BY <2>1, <2>2, <2>3, <2>4, CallTypes DEF CallRepeats, CallKept
  <2>6. \A x \in Handler : CallStep(x)
    BY <2>4, <2>5 DEF CallStep, CallKept
  <2> QED BY <1>3, <1>16, <2>6 DEF RepeatPost
<1>17. ASSUME UNCHANGED vars PROVE Goal
  BY <1>2, <1>3, <1>17 DEF vars
<1> QED
  BY <1>1, <1>4, <1>5, <1>6, <1>7, <1>8, <1>10, <1>12, <1>13, <1>14, <1>15, <1>16,
     <1>17 DEF Next, Report

-------------------------------------------------------------------------------
(* The invariants about calls and builders.                                   *)

LEMMA CallsInvariant ==
  ASSUME IInv, TypeOK', RowStep, \A x \in Handler : CallStep(x)
  PROVE  CallsAreBound'
<1>0. CallsAreBound /\ BuildersHaveJobs /\ BoundIsOwner /\ NoBuilder \notin Builder
  BY BuildQueueAssumption DEF IInv
<1> DEFINE P(x) == /\ call[x].pc # "idle" => call[x].w \in Builder
                   /\ call[x].pc \in {"take", "load", "reject"} => call[x].op = "poll"
                   /\ call[x].pc \notin {"idle", "take"} => call[x].b \in Build
                   /\ call[x].pc \in {"apply", "refresh", "check", "lock", "commit"} =>
                        call[x].w \in owners[call[x].b]
<1> SUFFICES ASSUME NEW x \in Handler PROVE P(x)'
  BY DEF CallsAreBound
<1>1. P(x)
  BY <1>0 DEF CallsAreBound
<1>2. \A b \in Build : owners[b] \subseteq owners'[b]
  BY OwnersGrow
<1>3. CASE CallKept(x)
  BY <1>1, <1>2, <1>3 DEF CallKept
<1>4. CASE CallEnds(x)
  BY <1>4 DEF CallEnds
<1>5. CASE CallMoves(x)
  <2>1. call[x].pc # "idle" /\ call[x].w \in Builder
    BY <1>1, <1>5 DEF CallMoves
  <2>2. call[x].b \in Build
    BY <1>5, <2>1 DEF CallMoves, IInv, TypeOK, Call
  <2>3. CASE call'[x].pc \in {"apply", "refresh"} /\ Owns(call[x].b, call[x].w)
    <3>1. call[x].w \in owners[call[x].b]
      BY <1>0, <2>1, <2>2, <2>3 DEF Owns, BoundIsOwner
    <3> QED BY <1>2, <1>5, <2>1, <2>2, <2>3, <3>1 DEF CallMoves
  <2>4. CASE call'[x].pc \in {"load", "reject", "own"}
    BY <1>1, <1>5, <2>1, <2>2, <2>4 DEF CallMoves
  <2>5. CASE call'[x].pc \in {"check", "lock"} /\ call[x].pc \in {"refresh", "check"}
    BY <1>1, <1>2, <1>5, <2>1, <2>2, <2>5 DEF CallMoves
  <2> QED BY <1>5, <2>3, <2>4, <2>5 DEF CallMoves
<1>6. CASE CallLocks(x)
  <2>1. call[x] \in Call
    BY DEF IInv, TypeOK
  <2>2. call'[x] = [call[x] EXCEPT !.pc = "commit"]
    BY <1>6 DEF CallLocks, IInv, TypeOK
  <2>3. call'[x].pc = "commit" /\ call'[x].w = call[x].w /\ call'[x].b = call[x].b
    BY <2>1, <2>2 DEF Call
  <2> QED BY <1>1, <1>2, <1>6, <2>3 DEF CallLocks
<1>7. CASE CallPolls(x)
  BY <1>7 DEF CallPolls
<1>8. CASE CallTakes(x)
  BY <1>1, <1>8 DEF CallTakes
<1>9. CASE CallPosts(x)
  BY <1>0, <1>9 DEF CallPosts, BuildersHaveJobs
<1>10. CASE CallRepeats(x)
  BY <1>0, <1>10 DEF CallRepeats, CallsAreBound
<1> QED BY <1>3, <1>4, <1>5, <1>6, <1>7, <1>8, <1>9, <1>10 DEF CallStep

LEMMA JobsInvariant ==
  ASSUME IInv, RowStep, \A w \in Builder : BuilderStep(w)
  PROVE  BuildersHaveJobs'
<1> SUFFICES ASSUME NEW w \in Builder, Working(w)'
             PROVE  builder'[w].job \in Build
  BY DEF BuildersHaveJobs, Working
<1>1. Working(w) => builder[w].job \in Build
  BY DEF IInv, BuildersHaveJobs, Working
<1>2. \A h \in Handler : call[h].pc = "load" => call[h].b \in Build
  BY DEF IInv, CallsAreBound
<1> QED BY <1>1, <1>2 DEF BuilderStep

LEMMA QueuedInvariant ==
  ASSUME IInv, RowStep, \A x \in Handler : CallStep(x), \A w \in Builder : BuilderStep(w)
  PROVE  QueuedBuildIsUntouched'
<1> SUFFICES ASSUME NEW b \in Build, status'[b] \in {"absent", "none"}
             PROVE  /\ owners'[b] = {}
                    /\ \A w \in Builder : builder'[w].job # b
                    /\ \A h \in Handler : call'[h].b # b
  BY DEF QueuedBuildIsUntouched
<1>0. b # NoBuild
  BY BuildQueueAssumption
<1>1. status[b] \in {"absent", "none"} /\ owners'[b] = owners[b]
  BY QueuedBefore
<1>2. /\ owners[b] = {}
      /\ \A w \in Builder : builder[w].job # b
      /\ \A h \in Handler : call[h].b # b
  BY <1>1 DEF IInv, QueuedBuildIsUntouched
<1>3. ASSUME NEW w \in Builder PROVE builder'[w].job # b
  BY <1>0, <1>2 DEF BuilderStep
<1>4. ASSUME NEW h \in Handler PROVE call'[h].b # b
  <2>1. CASE CallPosts(h)
    BY <1>2, <2>1 DEF CallPosts
  <2>2. CASE CallTakes(h)
    BY <2>2 DEF CallTakes
  <2>3. CASE CallLocks(h)
    <3>1. call'[h] = [call[h] EXCEPT !.pc = "commit"] /\ call[h] \in Call
      BY <2>3 DEF CallLocks, IInv, TypeOK
    <3>2. call'[h].b = call[h].b
      BY <3>1 DEF Call
    <3> QED BY <1>2, <3>2
  <2>4. CASE \/ CallKept(h) \/ CallEnds(h) \/ CallMoves(h) \/ CallPolls(h) \/ CallRepeats(h)
    BY <1>0, <1>2, <2>4 DEF CallKept, CallEnds, CallMoves, CallPolls, CallRepeats
  <2> QED BY <2>1, <2>2, <2>3, <2>4 DEF CallStep
<1> QED BY <1>1, <1>2, <1>3, <1>4

(* While a publication holds the row lock, the row keeps its status, builder  *)
(* and restarts.                                                              *)
LEMMA LockedRow ==
  ASSUME IInv, RowStep, NEW h \in Handler, call[h].pc = "commit", call'[h].pc = "commit"
  PROVE  LET b == call[h].b IN
         /\ status'[b] = status[b] /\ builderId'[b] = builderId[b]
         /\ restarts'[b] = restarts[b]
<1> DEFINE b == call[h].b
<1>1. b \in Build /\ RowLocked(b) /\ status[b] # "absent" /\ TypeOK
  BY Committing DEF RowLocked, IInv
<1>2. CASE RowSame
  BY <1>2 DEF RowSame
<1>3. ASSUME NEW a \in Build, NEW w,
             RowStored(a) \/ RowBound(a, w) \/ RowTaken(a, w)
      PROVE  /\ status'[b] = status[b] /\ builderId'[b] = builderId[b]
             /\ restarts'[b] = restarts[b]
  <2>1. a # b
    BY <1>1, <1>3 DEF RowStored, RowBound, RowTaken
  <2> QED BY <1>1, <1>3, <2>1 DEF RowStored, RowBound, RowTaken, TypeOK
<1>4. ASSUME NEW S \in SUBSET Build, RowsFailed(S)
      PROVE  /\ status'[b] = status[b] /\ builderId'[b] = builderId[b]
             /\ restarts'[b] = restarts[b]
  BY <1>1, <1>4 DEF RowsFailed
<1>5. ASSUME NEW g \in Handler, RowPublished(g)
      PROVE  /\ status'[b] = status[b] /\ builderId'[b] = builderId[b]
             /\ restarts'[b] = restarts[b]
  <2>1. call[g].b # b
    BY <1>5 DEF RowPublished, IInv, OnePublicationAtATime
  <2> QED BY <1>1, <1>5, <2>1 DEF RowPublished, TypeOK
<1> QED BY <1>2, <1>3, <1>4, <1>5 DEF RowStep

LEMMA PublicationInvariant ==
  ASSUME IInv, RowStep, \A x \in Handler : CallStep(x)
  PROVE  OnePublicationAtATime' /\ PublishingIsAllowed'
<1>1. ASSUME NEW x \in Handler, call'[x].pc = "commit"
      PROVE  /\ call'[x].b = call[x].b
             /\ call[x].pc = "commit" \/ CallLocks(x)
  <2>1. CASE CallLocks(x)
    <3>1. call'[x] = [call[x] EXCEPT !.pc = "commit"] /\ call[x] \in Call
      BY <2>1 DEF CallLocks, IInv, TypeOK
    <3>2. call'[x].b = call[x].b
      BY <3>1 DEF Call
    <3> QED BY <2>1, <3>2
  <2>2. CASE CallKept(x)
    BY <1>1, <2>2 DEF CallKept
  <2>3. CASE \/ CallEnds(x) \/ CallMoves(x) \/ CallPolls(x) \/ CallTakes(x)
             \/ CallPosts(x) \/ CallRepeats(x)
    BY <1>1, <2>3 DEF CallEnds, CallMoves, CallPolls, CallTakes, CallPosts, CallRepeats
  <2> QED BY <2>1, <2>2, <2>3 DEF CallStep
<1>2. ASSUME NEW x \in Handler, NEW y \in Handler, call'[x].pc = "commit",
             call'[y].pc = "commit", call'[x].b = call'[y].b, CallLocks(x)
      PROVE  x = y
  <2>1. SUFFICES ASSUME x # y PROVE FALSE
    OBVIOUS
  <2>2. call'[y] = call[y]
    BY <1>2, <2>1 DEF CallLocks, IInv, TypeOK
  <2>3. call[y].pc = "commit" /\ call[y].b = call[x].b
    BY <1>1, <1>2, <2>2
  <2> QED BY <1>2, <2>3 DEF CallLocks, RowLocked
<1>3. OnePublicationAtATime'
  <2> SUFFICES ASSUME NEW x \in Handler, NEW y \in Handler, call'[x].pc = "commit",
                      call'[y].pc = "commit", call'[x].b = call'[y].b
               PROVE  x = y
    BY DEF OnePublicationAtATime
  <2>1. CASE call[x].pc = "commit" /\ call[y].pc = "commit"
    BY <1>1, <2>1 DEF IInv, OnePublicationAtATime
  <2>2. CASE CallLocks(x) \/ CallLocks(y)
    BY <1>2, <2>2
  <2> QED BY <1>1, <2>1, <2>2
<1>4. PublishingIsAllowed'
  <2> SUFFICES ASSUME NEW x \in Handler, call'[x].pc = "commit"
               PROVE  ~PublicationRefused(call[x].b)'
    BY <1>1 DEF PublishingIsAllowed
  <2>1. CASE CallLocks(x)
    BY <1>1, <2>1 DEF CallLocks, PublicationRefused
  <2>2. CASE call[x].pc = "commit"
    BY <1>1, <2>2, LockedRow DEF IInv, PublishingIsAllowed, PublicationRefused
  <2> QED BY <1>1, <2>1, <2>2
<1> QED BY <1>3, <1>4

-------------------------------------------------------------------------------
(* The theorems.                                                              *)

LEMMA InitIInv == Init => IInv
<1> SUFFICES ASSUME Init PROVE IInv
  OBVIOUS
<1> USE DEF Init
<1>1. TypeOK
  <2>1. call \in [Handler -> Call] /\ builder \in [Builder -> BuilderState]
    BY BuilderTypes, CallTypes
  <2> QED BY <2>1 DEF TypeOK, Status, Age
<1>2. /\ PublishedOnceIffComplete /\ PublisherWasBound /\ UnfinishedBuildHasSources
      /\ BoundIsOwner /\ RunningWasTaken /\ CandidatesAreFinished
  BY DEF PublishedOnceIffComplete, PublisherWasBound, UnfinishedBuildHasSources,
         BoundIsOwner, RunningWasTaken, CandidatesAreFinished
<1>3. /\ OnePublicationAtATime /\ CallsAreBound /\ PublishingIsAllowed
  BY DEF OnePublicationAtATime, CallsAreBound, PublishingIsAllowed, Idle
<1>4. BuildersHaveJobs /\ QueuedBuildIsUntouched
  BY BuildQueueAssumption DEF BuildersHaveJobs, QueuedBuildIsUntouched, Resting, Idle
<1>5. TakenAfterDependencies
  BY BuildQueueAssumption DEF TakenAfterDependencies
<1> QED BY <1>1, <1>2, <1>3, <1>4, <1>5 DEF IInv

LEMMA NextIInv == IInv /\ [Next]_vars => IInv'
<1> SUFFICES ASSUME IInv, [Next]_vars PROVE IInv'
  OBVIOUS
<1>1. RowStep
  BY NextRowStep DEF IInv
<1>2. TypeOK'
  BY HandlerTypes, OtherTypes DEF IInv
<1>3. SourcesStep
  BY NextSourcesStep
<1>4. (\A x \in Handler : CallStep(x)) /\ (\A w \in Builder : BuilderStep(w))
  BY NextCallStep
<1>5. /\ PublishedOnceIffComplete' /\ PublisherWasBound' /\ BoundIsOwner'
      /\ RunningWasTaken' /\ TakenAfterDependencies'
  BY <1>1, PublishedOnceStep, OwnersStep, DependenciesStep
<1>6. UnfinishedBuildHasSources' /\ CandidatesAreFinished'
  BY <1>1, <1>3, SourcesInvariant
<1>7. CallsAreBound' /\ BuildersHaveJobs' /\ QueuedBuildIsUntouched'
  BY <1>1, <1>2, <1>4, CallsInvariant, JobsInvariant, QueuedInvariant
<1>8. OnePublicationAtATime' /\ PublishingIsAllowed'
  BY <1>1, <1>4, PublicationInvariant
<1> QED BY <1>2, <1>5, <1>6, <1>7, <1>8 DEF IInv

(* The inductive invariant holds in every behaviour.                          *)
THEOREM Invariance == Spec => []IInv
  BY InitIInv, NextIInv, PTL DEF Spec

(* Every variable keeps its type.                                             *)
THEOREM TypeCorrect == Spec => []TypeOK
<1>1. IInv => TypeOK
  BY DEF IInv
<1> QED BY <1>1, Invariance, PTL

(* CreateVersionWithData and its siblings commit at most once per build, and  *)
(* exactly the complete builds have been published.                           *)
THEOREM PublishedOnce == Spec => []PublishedOnceIffComplete
<1>1. IInv => PublishedOnceIffComplete
  BY DEF IInv
<1> QED BY <1>1, Invariance, PTL

(* The subquery on build_depends: a server-side build runs, or is complete,   *)
(* only when everything it depends on is finished.                            *)
THEOREM DependenciesFirst == Spec => []DependenciesFinishFirst
<1>1. IInv => DependenciesFinishFirst
  BY DEF IInv, RunningWasTaken, TakenAfterDependencies, DependenciesFinishFirst
<1> QED BY <1>1, Invariance, PTL

(* Cleanup never removes the sources of a build that has still to run.        *)
THEOREM SourcesKept == Spec => []UnfinishedBuildHasSources
<1>1. IInv => UnfinishedBuildHasSources
  BY DEF IInv
<1> QED BY <1>1, Invariance, PTL

(* The row lock of a publication isolates it from every other request.        *)
THEOREM PublicationIsolated == Spec => PublicationIsIsolated
<1>1. IInv /\ [Next]_vars =>
        [\A h \in Handler : call[h].pc = "commit" /\ call'[h] = call[h] =>
           LET b == call[h].b IN
           /\ status'[b] = status[b] /\ builderId'[b] = builderId[b]
           /\ restarts'[b] = restarts[b]]_vars
  <2> SUFFICES ASSUME IInv, [Next]_vars, NEW h \in Handler,
                      call[h].pc = "commit", call'[h] = call[h]
               PROVE  LET b == call[h].b IN
                      /\ status'[b] = status[b] /\ builderId'[b] = builderId[b]
                      /\ restarts'[b] = restarts[b]
    OBVIOUS
  <2>1. RowStep
    BY NextRowStep DEF IInv
  <2> QED BY <2>1, LockedRow
<1> QED BY <1>1, Invariance, PTL DEF Spec, PublicationIsIsolated

(* A complete build stays complete; a failed one becomes complete only after  *)
(* both of its restarts.                                                      *)
THEOREM FinishedFinal == Spec => FinishedIsFinal
<1> DEFINE Final(b) ==
      /\ status[b] = "complete" => status'[b] = "complete"
      /\ status[b] = "error" => \/ status'[b] = "error"
                                \/ status'[b] = "complete" /\ restarts[b] = 2
<1>1. IInv /\ [Next]_vars => [\A b \in Build : Final(b)]_vars
  <2> SUFFICES ASSUME IInv, [Next]_vars, NEW b \in Build PROVE Final(b)
    OBVIOUS
  <2>1. RowStep /\ TypeOK
    BY NextRowStep DEF IInv
  <2>2. CASE RowSame
    BY <2>2 DEF RowSame
  <2>3. ASSUME NEW a \in Build, NEW w, RowStored(a) \/ RowBound(a, w) \/ RowTaken(a, w)
        PROVE  Final(b)
    BY <2>1, <2>3 DEF RowStored, RowBound, RowTaken, TypeOK
  <2>4. ASSUME NEW S \in SUBSET Build, RowsFailed(S) PROVE Final(b)
    BY <2>4 DEF RowsFailed
  <2>5. ASSUME NEW h \in Handler, RowPublished(h) PROVE Final(b)
    <3>1. LET a == call[h].b IN
          a \in Build /\ (status[a] = "running" \/ (status[a] = "error" /\ restarts[a] = 2))
      BY <2>5, Committing DEF RowPublished
    <3> QED BY <2>1, <2>5, <3>1 DEF RowPublished, TypeOK
  <2> QED BY <2>1, <2>2, <2>3, <2>4, <2>5 DEF RowStep
<1> QED BY <1>1, Invariance, PTL DEF Spec, FinishedIsFinal
-------------------------------------------------------------------------------
(* The queue implements BuildLifecycle.                                       *)

LEMMA PhaseValues ==
  /\ Phase("absent") = "absent" /\ Phase("none") = "queued"
  /\ Phase("running") = "running" /\ Phase("error") = "failed"
  /\ Phase("complete") = "published"
  BY DEF Phase

(* One row changes its status, and its phase with it.                         *)
LEMMA PhaseChange ==
  ASSUME TypeOK, NEW b \in Build, NEW s, status' = [status EXCEPT ![b] = s]
  PROVE  Phases' = [Phases EXCEPT ![b] = Phase(s)]
  BY DEF Phases, TypeOK

(* A build bound to a builder: one more attempt, and one more worker.         *)
LEMMA RowGiven ==
  ASSUME TypeOK, NEW b \in Build, NEW w \in Builder, Attempts[b] \in 0..2,
         status' = [status EXCEPT ![b] = "running"],
         owners' = [owners EXCEPT ![b] = @ \cup {w}],
         restarts' = [restarts EXCEPT ![b] = Attempts[b]],
         UNCHANGED publisher
  PROVE  Lifecycle!Give(b, w)
<1>1. Phases' = [Phases EXCEPT ![b] = "running"]
  BY PhaseChange, PhaseValues
<1>2. Attempts' = [Attempts EXCEPT ![b] = @ + 1]
  BY DEF Attempts, TypeOK
<1>3. Attempts[b] < 3
  OBVIOUS
<1> QED BY <1>1, <1>2, <1>3 DEF Lifecycle!Give, Lifecycle!MaxAttempts

LEMMA DependenciesPhases ==
  ASSUME IInv, NEW b \in Build
  PROVE  /\ Phases[b] = Phase(status[b])
         /\ (\A d \in Depends[b] : status[d] # "absent") =>
              \A d \in Depends[b] : Phases[d] # "absent"
         /\ status[b] # "absent" /\ ~Blocked(b) =>
              \A d \in Depends[b] : Phases[d] \in {"failed", "published"}
<1>1. Depends[b] \subseteq Build
  BY BuildQueueAssumption
<1>2. ASSUME NEW d \in Depends[b]
      PROVE  /\ status[d] \in Status /\ Phases[d] = Phase(status[d])
             /\ status[b] # "absent" => status[d] # "absent"
  BY <1>1, <1>2 DEF IInv, TypeOK, TakenAfterDependencies, Phases
<1>3. Phases[b] = Phase(status[b])
  BY DEF Phases
<1>4. ASSUME NEW d \in Depends[b], status[d] # "absent"
      PROVE  Phases[d] # "absent"
  BY <1>2, <1>4, PhaseValues DEF Status
<1>5. ASSUME NEW d \in Depends[b], status[b] # "absent", ~Blocked(b)
      PROVE  Phases[d] \in {"failed", "published"}
  BY <1>2, <1>5, PhaseValues DEF Status, Blocked
<1> QED BY <1>3, <1>4, <1>5

(* Every step of the queue is a step of BuildLifecycle, or none.              *)
LEMMA LifecycleStep ==
  ASSUME IInv, RowStep
  PROVE  [Lifecycle!Next]_(Lifecycle!vars)
<1> USE DEF Lifecycle!Next
<1>1. TypeOK /\ RunningWasTaken /\ QueuedBuildIsUntouched
  BY DEF IInv
<1>2. CASE RowSame
  BY <1>2 DEF RowSame, Lifecycle!vars, Phases, Attempts
<1>3. ASSUME NEW b \in Build, RowStored(b) PROVE Lifecycle!Queue(b)
  <2>1. Phases' = [Phases EXCEPT ![b] = "queued"]
    BY <1>1, <1>3, PhaseChange, PhaseValues DEF RowStored
  <2>2. Phases[b] = "absent" /\ \A d \in Depends[b] : Phases[d] # "absent"
    BY <1>3, DependenciesPhases, PhaseValues DEF RowStored
  <2>3. Attempts' = Attempts
    BY <1>3 DEF RowStored, Attempts
  <2> QED BY <1>3, <2>1, <2>2, <2>3 DEF RowStored, Lifecycle!Queue
<1>4. ASSUME NEW b \in Build, NEW w \in Builder, RowBound(b, w)
      PROVE  Lifecycle!Bind(b, w)
  <2>1. Phases[b] = "absent" /\ \A d \in Depends[b] : Phases[d] # "absent"
    BY <1>4, DependenciesPhases, PhaseValues DEF RowBound
  <2>2. owners[b] = {} /\ restarts[b] = 0
    BY <1>1, <1>4 DEF RowBound, QueuedBuildIsUntouched, RunningWasTaken
  <2>3. Attempts[b] = 0 /\ Attempts[b] \in 0..2
    BY <2>2 DEF Attempts
  <2>4. /\ owners' = [owners EXCEPT ![b] = @ \cup {w}]
        /\ restarts' = [restarts EXCEPT ![b] = Attempts[b]]
    BY <1>1, <1>4, <2>2, <2>3 DEF RowBound, TypeOK
  <2>5. status' = [status EXCEPT ![b] = "running"] /\ UNCHANGED publisher
    BY <1>4 DEF RowBound
  <2>6. Lifecycle!Give(b, w)
    BY <1>1, <2>3, <2>4, <2>5, RowGiven
  <2> QED BY <2>1, <2>6 DEF Lifecycle!Bind
<1>5. ASSUME NEW b \in Build, NEW w \in Builder, RowTaken(b, w)
      PROVE  Lifecycle!Take(b, w)
  <2>1. Phases[b] \in {"queued", "running"}
    BY <1>5, DependenciesPhases, PhaseValues DEF RowTaken
  <2>2. \A d \in Depends[b] : Phases[d] \in {"failed", "published"}
    BY <1>5, DependenciesPhases DEF RowTaken
  <2>3. Attempts[b] = IF status[b] = "none" THEN 0 ELSE restarts[b] + 1
    BY <1>1, <1>5 DEF RowTaken, Attempts, QueuedBuildIsUntouched, RunningWasTaken
  <2>4. restarts[b] \in 0..1 /\ (status[b] = "none" => restarts[b] = 0)
    BY <1>1, <1>5 DEF RowTaken, RunningWasTaken, TypeOK
  <2>5. /\ Attempts[b] \in 0..2
        /\ Attempts[b] = IF status[b] = "none" THEN restarts[b] ELSE restarts[b] + 1
    BY <2>3, <2>4
  <2>6. /\ status' = [status EXCEPT ![b] = "running"] /\ UNCHANGED publisher
        /\ owners' = [owners EXCEPT ![b] = @ \cup {w}]
        /\ restarts' = [restarts EXCEPT ![b] = Attempts[b]]
    BY <1>5, <2>5 DEF RowTaken
  <2>7. Lifecycle!Give(b, w)
    BY <1>1, <2>5, <2>6, RowGiven
  <2> QED BY <2>1, <2>2, <2>7 DEF Lifecycle!Take
<1>6. ASSUME NEW S \in SUBSET Build, RowsFailed(S) PROVE Lifecycle!Fail(S)
  <2>1. \A b \in S : Phases[b] \in {"queued", "running"}
    BY <1>6, DependenciesPhases, PhaseValues DEF RowsFailed
  <2>2. Phases' = [b \in Build |-> IF b \in S THEN "failed" ELSE Phases[b]]
    BY <1>6, PhaseValues DEF RowsFailed, Phases
  <2>3. Attempts' = Attempts
    BY <1>6 DEF RowsFailed, Attempts
  <2> QED BY <1>6, <2>1, <2>2, <2>3 DEF RowsFailed, Lifecycle!Fail
<1>7. ASSUME NEW h \in Handler, RowPublished(h)
      PROVE  \E b \in Build, w \in Builder : Lifecycle!Publish(b, w)
  <2> DEFINE b == call[h].b
             w == call[h].w
  <2>1. /\ b \in Build /\ w \in owners[b]
        /\ status[b] = "running" \/ (status[b] = "error" /\ restarts[b] = 2)
    BY <1>7, Committing DEF RowPublished
  <2>2. w \in Builder
    BY <1>1, <2>1 DEF TypeOK
  <2>3. Phases' = [Phases EXCEPT ![b] = "published"]
    <3>1. status' = [status EXCEPT ![b] = "complete"]
      BY <1>7 DEF RowPublished
    <3> HIDE DEF b, w
    <3> QED BY <1>1, <2>1, <3>1, PhaseChange, PhaseValues
  <2>4. /\ Attempts' = Attempts
        /\ restarts[b] = 2 => Attempts[b] = 3
    BY <1>7, <2>1 DEF RowPublished, Attempts
  <2>5. \/ Phases[b] = "running"
        \/ Phases[b] = "failed" /\ Attempts[b] = 3
    BY <2>1, <2>4, DependenciesPhases, PhaseValues
  <2>6. Lifecycle!Publish(b, w)
    BY <1>7, <2>1, <2>3, <2>4, <2>5
       DEF RowPublished, Lifecycle!Publish, Lifecycle!MaxAttempts
  <2> QED BY <2>1, <2>2, <2>6
<1> QED BY <1>2, <1>3, <1>4, <1>5, <1>6, <1>7 DEF RowStep

(* The queue keeps every promise of BuildLifecycle: at most three attempts,   *)
(* after the dependencies, and one publication by a builder it was given to.  *)
THEOREM Refinement == Spec => RefinesLifecycle
<1>1. Init => Lifecycle!Init
  BY PhaseValues DEF Init, Lifecycle!Init, Phases, Attempts
<1>2. IInv /\ [Next]_vars => [Lifecycle!Next]_(Lifecycle!vars)
  BY NextRowStep, LifecycleStep DEF IInv
<1> QED BY <1>1, <1>2, Invariance, PTL DEF Spec, RefinesLifecycle, Lifecycle!Spec
===============================================================================
