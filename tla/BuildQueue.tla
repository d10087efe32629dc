------------------------------ MODULE BuildQueue ------------------------------
(***************************************************************************)
(* The build queue of the API registry: the table `build`, the requests    *)
(* the backend processes against it, and the builders that poll it.        *)
(*                                                                         *)
(* The backend is a set of request handlers (goroutines, of any replica).  *)
(* One database transaction, or one query outside a transaction, is one    *)
(* step of one handler; the publication transaction, which holds the row   *)
(* lock of its build from the status check to the commit, is two steps.    *)
(* A builder calls the backend over HTTP and may lose any response; what   *)
(* it started keeps running in its handler.                                *)
(***************************************************************************)
EXTENDS Integers, FiniteSets

CONSTANTS
  Build,           \* build ids
  NodeBuilder,     \* ids of server-side builders, one per process start
  Client,          \* ids of browsers that build on their own (client_build)
  Handler,         \* concurrent requests the model allows (a bound)
  ClientBuild,     \* builds published with client_build=true
  MigrationBuild,  \* builds created by the database migration being cancelled
  EmptyBuild,      \* builds whose valid result holds nothing to publish
  Depends,         \* [Build -> SUBSET Build], table build_depends
  Priority,        \* [Build -> Int], column priority
  RetryCount,      \* RETRY_COUNT of the builder's HTTP client
  FaultLimit,      \* crashes, lost responses and aborts in one behaviour (a bound)
  Minio,           \* build results are kept in the object storage
  NoBuild, NoBuilder, NoHandler

Builder == NodeBuilder \cup Client

ASSUME BuildQueueAssumption ==
  /\ IsFiniteSet(Build)
  /\ ClientBuild \subseteq Build
  /\ MigrationBuild \subseteq Build \ ClientBuild
  /\ EmptyBuild \subseteq Build
  /\ Depends \in [Build -> SUBSET Build]
  /\ Priority \in [Build -> Int]
  /\ RetryCount \in Nat
  /\ FaultLimit \in Nat
  /\ Minio \in BOOLEAN
  /\ NoBuild \notin Build
  /\ NoBuilder \notin Builder
  /\ NoHandler \notin Handler

VARIABLES
  status,     \* build.status, "absent" before the row is inserted
  builderId,  \* build.builder_id
  restarts,   \* build.restart_count
  age,        \* how long ago build.last_active was set
  details,    \* build.details: the set of reasons recorded in it
  created,    \* build.created_at, as a rank
  hasSrc,     \* the build_src row exists
  notified,   \* hasNotifications in build.metadata, with its table rows
  call,       \* what each handler is doing
  builder,    \* what each builder is doing
  candidates, \* the ids a cleanup run with object storage has selected
  faults,     \* faults so far
  owners,     \* history: every builder the row was bound to
  commits,    \* history: publication transactions committed
  publisher   \* history: the builder whose result was published

row == <<status, builderId, restarts, age, details, created, hasSrc, notified>>
history == <<owners, commits, publisher>>
vars == <<row, call, builder, candidates, faults, history>>

Status == {"absent", "none", "running", "complete", "error"}
Reason == {"limit", "reported", "backend", "cancelled"}
Age == {"fresh", "stale", "expired"}

-------------------------------------------------------------------------------
(* Calls and builders.                                                        *)

Idle == [pc |-> "idle", op |-> "none", w |-> NoBuilder, b |-> NoBuild,
         note |-> FALSE, tries |-> 0]

Call == [pc : {"idle", "take", "load", "reject", "own", "apply", "refresh",
               "check", "lock", "commit"},
         op : {"none", "poll", "running", "error", "complete"},
         w : Builder \cup {NoBuilder}, b : Build \cup {NoBuild},
         note : BOOLEAN, tries : Nat]

NewCall(pc, op, w, b, note) ==
  [pc |-> pc, op |-> op, w |-> w, b |-> b, note |-> note, tries |-> 1]

Resting == [phase |-> "idle", job |-> NoBuild, timer |-> FALSE, tries |-> 0,
            await |-> NoHandler]

BuilderState == [phase : {"idle", "asking", "building", "reporting", "dead"},
                 job : Build \cup {NoBuild}, timer : BOOLEAN, tries : Nat,
                 await : Handler \cup {NoHandler}]

(* A post nobody awaits, "running" or "error", is repeated by the HTTP client *)
(* of its builder after a retryable answer; a 400 or 404 is "final".          *)
Repeatable(c) == /\ c.op \in {"running", "error"}
                 /\ c.tries <= RetryCount
                 /\ builder[c.w].phase # "dead"

(* The builder's side of an answer r to call c of handler h.                  *)
Heard(w, h, c, r) ==
  IF c.op = "complete" /\ builder[w].await = h
    THEN IF r = "ok" THEN Resting
         ELSE [builder[w] EXCEPT !.await = NoHandler,
                 !.tries = IF r = "final" THEN RetryCount + 1 ELSE @]
  ELSE IF c.op = "running" /\ r # "ok" /\ builder[w].job = c.b
    THEN [builder[w] EXCEPT !.timer = FALSE]
  ELSE builder[w]

Again(c) == [c EXCEPT !.pc = "own", !.tries = @ + 1]

Respond(h, r) ==
  LET c == call[h] IN
  IF r = "retry" /\ Repeatable(c)
    THEN /\ call' = [call EXCEPT ![h] = Again(c)]
         /\ UNCHANGED builder
    ELSE /\ call' = [call EXCEPT ![h] = Idle]
         /\ builder' = [builder EXCEPT ![c.w] = Heard(c.w, h, c, r)]

Continue(h, pc) ==
  /\ call' = [call EXCEPT ![h].pc = pc]
  /\ UNCHANGED builder

-------------------------------------------------------------------------------
(* The table.                                                                 *)

(* The definitions ending in M are faulty variants, for mutation runs only.   *)
RowLockedM(b) == FALSE

RowLocked(b) == \E h \in Handler : call[h].pc = "commit" /\ call[h].b = b

(* A short transaction of another handler may hold the row at this moment.    *)
Contended(b) == \E h \in Handler : call[h].pc \in {"apply", "refresh", "reject"}
                                   /\ call[h].b = b

Finished(b) == status[b] \in {"complete", "error"}

FreeM(b) == status[b] = "none"

Free(b) == \/ status[b] = "none"
           \/ status[b] = "running" /\ age[b] # "fresh"

BlockedM(b) == \E d \in Depends[b] : status[d] = "none"

Blocked(b) == \E d \in Depends[b] : status[d] \in {"none", "running"}

Exhausted(b) == restarts[b] >= 2

Eligible == {b \in Build : Free(b) /\ ~Blocked(b) /\ ~RowLocked(b)}

Before(a, b) == \/ Priority[a] > Priority[b]
                \/ Priority[a] = Priority[b] /\ created[a] < created[b]

(* `for no key update skip locked`: a better row is passed over only while    *)
(* another transaction holds it.                                              *)
Candidates == {b \in Eligible :
                 \A a \in Eligible : Before(a, b) => Contended(a)}

StatusUpdateRefusedM(b, s) == status[b] = "complete"

(* updateBuildStatusTx refuses a finished build; error to error is allowed.   *)
StatusUpdateRefused(b, s) ==
  status[b] = "complete" \/ (status[b] = "error" /\ s # "error")

PublicationRefusedM(b) == status[b] = "error" /\ restarts[b] < 2

(* A publication is refused for a finished build, but not for one that failed *)
(* with no restart left.                                                      *)
PublicationRefused(b) ==
  status[b] = "complete" \/ (status[b] = "error" /\ restarts[b] < 2)

UpdateBuildStatusTx(b, s, d) ==
  /\ status' = [status EXCEPT ![b] = s]
  /\ details' = [details EXCEPT ![b] =
                   IF status[b] = "error" /\ s = "error" /\ restarts[b] >= 2
                     THEN @ \cup d ELSE d]
  /\ age' = [age EXCEPT ![b] = "fresh"]

-------------------------------------------------------------------------------
Init ==
  /\ status = [b \in Build |-> "absent"]
  /\ builderId = [b \in Build |-> NoBuilder]
  /\ restarts = [b \in Build |-> 0]
  /\ age = [b \in Build |-> "fresh"]
  /\ details = [b \in Build |-> {}]
  /\ created = [b \in Build |-> 0]
  /\ hasSrc = [b \in Build |-> FALSE]
  /\ notified = [b \in Build |-> FALSE]
  /\ call = [h \in Handler |-> Idle]
  /\ builder = [w \in Builder |-> Resting]
  /\ candidates = {}
  /\ faults = 0
  /\ owners = [b \in Build |-> {}]
  /\ commits = [b \in Build |-> 0]
  /\ publisher = [b \in Build |-> NoBuilder]

-------------------------------------------------------------------------------
(* Publish requests: the rows of build, build_src and build_depends are       *)
(* inserted in one transaction.  A dependency is the id of an earlier build.  *)

StoreBuild(b, s, w) ==
  /\ status[b] = "absent"
  /\ \A d \in Depends[b] : status[d] # "absent"
  /\ status' = [status EXCEPT ![b] = s]
  /\ builderId' = [builderId EXCEPT ![b] = w]
  /\ created' = [created EXCEPT ![b] =
                   Cardinality({a \in Build : status[a] # "absent"}) + 1]
  /\ hasSrc' = [hasSrc EXCEPT ![b] = TRUE]
  /\ UNCHANGED <<restarts, age, details, notified, call, candidates, faults,
                 commits, publisher>>

StoreServerBuild(b) ==
  /\ b \notin ClientBuild
  /\ StoreBuild(b, "none", NoBuilder)
  /\ UNCHANGED <<builder, owners>>

StoreClientBuild(b, w) ==
  /\ b \in ClientBuild
  /\ builder[w].phase = "idle"
  /\ StoreBuild(b, "running", w)
  /\ owners' = [owners EXCEPT ![b] = {w}]
  /\ builder' = [builder EXCEPT ![w] = [Resting EXCEPT !.phase = "building",
                                          !.job = b, !.timer = TRUE]]

-------------------------------------------------------------------------------
(* GetFreeBuild: the loop of FindAndTakeFreeBuild inside the loop of          *)
(* findFreeBuild.  call[h].b is the variable `result` of the inner function,  *)
(* which survives its iterations.                                             *)

Poll(w, h) ==
  /\ builder[w].phase = "idle"
  /\ call[h].pc = "idle"
  /\ call' = [call EXCEPT ![h] = NewCall("take", "poll", w, NoBuild, FALSE)]
  /\ builder' = [builder EXCEPT ![w] = [Resting EXCEPT !.phase = "asking",
                                          !.await = h]]
  /\ UNCHANGED <<row, candidates, faults, history>>

(* A candidate restarted twice is failed and the loop goes on, `result` still *)
(* holding it.                                                                *)
FailExhaustedBuild(h) ==
  /\ call[h].pc = "take"
  /\ \E b \in Candidates :
       /\ Exhausted(b)
       /\ status' = [status EXCEPT ![b] = "error"]
       /\ details' = [details EXCEPT ![b] = @ \cup {"limit"}]
       /\ age' = [age EXCEPT ![b] = "fresh"]
       /\ call' = [call EXCEPT ![h].b = b]
  /\ UNCHANGED <<builderId, restarts, created, hasSrc, notified, builder,
                 candidates, faults, history>>

TakeBuild(h) ==
  /\ call[h].pc = "take"
  /\ \E b \in Candidates :
       /\ ~Exhausted(b)
       /\ status' = [status EXCEPT ![b] = "running"]
       /\ restarts' = [restarts EXCEPT ![b] = IF status[b] = "none" THEN @ ELSE @ + 1]
       /\ builderId' = [builderId EXCEPT ![b] = call[h].w]
       /\ age' = [age EXCEPT ![b] = "fresh"]
       /\ call' = [call EXCEPT ![h] = [@ EXCEPT !.b = b, !.pc = "load"]]
       /\ owners' = [owners EXCEPT ![b] = @ \cup {call[h].w}]
  /\ UNCHANGED <<details, created, hasSrc, notified, builder, candidates, faults,
                 commits, publisher>>

(* No row: the function returns `result`, nil or the build it failed last.    *)
NothingToTake(h) ==
  /\ call[h].pc = "take"
  /\ \A b \in Eligible : Contended(b)
  /\ IF call[h].b = NoBuild
       THEN /\ call' = [call EXCEPT ![h] = Idle]
            /\ builder' = [builder EXCEPT ![call[h].w] =
                             IF @.await = h THEN Resting ELSE @]
       ELSE Continue(h, "load")
  /\ UNCHANGED <<row, candidates, faults, history>>

(* GetBuildSrc finds the sources, the configuration parses and its references *)
(* resolve: the build is handed to the builder, if it still listens.          *)
HandOver(h) ==
  /\ call[h].pc = "load"
  /\ hasSrc[call[h].b]
  /\ call' = [call EXCEPT ![h] = Idle]
  /\ builder' = [builder EXCEPT ![call[h].w] =
                   IF @.await = h
                     THEN [Resting EXCEPT !.phase = "building", !.job = call[h].b,
                             !.timer = TRUE]
                     ELSE @]
  /\ UNCHANGED <<row, candidates, faults, history>>

(* ... or the sources are gone, or configuration or references are invalid.   *)
FindUnbuildable(h) ==
  /\ call[h].pc = "load"
  /\ Continue(h, "reject")
  /\ UNCHANGED <<row, candidates, faults, history>>

RejectUnbuildable(h) ==
  LET b == call[h].b IN
  /\ call[h].pc = "reject"
  /\ ~RowLocked(b)
  /\ IF StatusUpdateRefused(b, "error")
       THEN /\ call' = [call EXCEPT ![h] = Idle]
            /\ builder' = [builder EXCEPT ![call[h].w] =
                             IF @.await = h THEN Resting ELSE @]
            /\ UNCHANGED row
       ELSE /\ UpdateBuildStatusTx(b, "error", {"backend"})
            /\ call' = [call EXCEPT ![h] = [@ EXCEPT !.pc = "take", !.b = NoBuild]]
            /\ UNCHANGED <<builderId, restarts, created, hasSrc, notified, builder>>
  /\ UNCHANGED <<candidates, faults, history>>

-------------------------------------------------------------------------------
(* SetPublishStatus.                                                          *)

OwnsM(b, w) == builderId[b] # NoBuilder

Owns(b, w) == builderId[b] = w

(* ValidateBuildOwnership reads the row outside any transaction.              *)
ValidateBuildOwnership(h) ==
  LET c == call[h] IN
  /\ c.pc = "own"
  /\ IF Owns(c.b, c.w)
       THEN Continue(h, IF c.op = "complete" THEN "refresh" ELSE "apply")
       ELSE Respond(h, "retry")
  /\ UNCHANGED <<row, candidates, faults, history>>

ApplyRunning(h) ==
  LET b == call[h].b IN
  /\ call[h].pc = "apply" /\ call[h].op = "running"
  /\ ~RowLocked(b)
  /\ IF StatusUpdateRefused(b, "running")
       THEN Respond(h, "final") /\ UNCHANGED row
       ELSE /\ UpdateBuildStatusTx(b, "running", {})
            /\ Respond(h, "ok")
            /\ UNCHANGED <<builderId, restarts, created, hasSrc, notified>>
  /\ UNCHANGED <<candidates, faults, history>>

FailBuild(h) ==
  LET b == call[h].b IN
  /\ call[h].pc = "apply" /\ call[h].op = "error"
  /\ ~RowLocked(b)
  /\ IF StatusUpdateRefused(b, "error")
       THEN Respond(h, "final") /\ UNCHANGED row
       ELSE /\ UpdateBuildStatusTx(b, "error", {"reported"})
            /\ notified' = [notified EXCEPT ![b] = @ \/ call[h].note]
            /\ Respond(h, "ok")
            /\ UNCHANGED <<builderId, restarts, created, hasSrc>>
  /\ UNCHANGED <<candidates, faults, history>>

(* SaveBuildResult first refreshes last_active; a refusal is only logged.     *)
RefreshBeforePublication(h) ==
  LET b == call[h].b IN
  /\ call[h].pc = "refresh"
  /\ ~RowLocked(b)
  /\ IF StatusUpdateRefused(b, "running")
       THEN UNCHANGED row
       ELSE /\ UpdateBuildStatusTx(b, "running", {})
            /\ UNCHANGED <<builderId, restarts, created, hasSrc, notified>>
  /\ Continue(h, "check")
  /\ UNCHANGED <<candidates, faults, history>>

(* The result is read and validated outside any transaction.                  *)
AcceptResult(h) ==
  LET b == call[h].b IN
  /\ call[h].pc = "check"
  /\ hasSrc[b]
  /\ IF b \in EmptyBuild THEN Respond(h, "ok") ELSE Continue(h, "lock")
  /\ UNCHANGED <<row, candidates, faults, history>>

RefuseResult(h) ==
  /\ call[h].pc = "check"
  /\ \E r \in {"final", "retry"} : Respond(h, r)
  /\ UNCHANGED <<row, candidates, faults, history>>

(* CreateVersionWithData, SaveVersionChanges, SaveExportResult: lock the row  *)
(* and check its status, ...                                                  *)
LockForPublication(h) ==
  LET b == call[h].b IN
  /\ call[h].pc = "lock"
  /\ ~RowLocked(b)
  /\ IF PublicationRefused(b)
       THEN Respond(h, "retry")
       ELSE Continue(h, "commit")
  /\ UNCHANGED <<row, candidates, faults, history>>

(* ... write the result and complete the build.  What follows the commit      *)
(* (changelog builds of dependent versions) may still make the answer a 500.  *)
CommitPublication(h) ==
  LET b == call[h].b IN
  /\ call[h].pc = "commit"
  /\ status' = [status EXCEPT ![b] = "complete"]
  /\ details' = [details EXCEPT ![b] = {}]
  /\ age' = [age EXCEPT ![b] = "fresh"]
  /\ commits' = [commits EXCEPT ![b] = @ + 1]
  /\ publisher' = [publisher EXCEPT ![b] = call[h].w]
  /\ \E r \in {"ok", "retry"} : Respond(h, r)
  /\ UNCHANGED <<builderId, restarts, created, hasSrc, notified, candidates, faults,
                 owners>>

-------------------------------------------------------------------------------
(* Builders.                                                                  *)

Post(w, h, op, note) ==
  /\ call[h].pc = "idle"
  /\ call' = [call EXCEPT ![h] = NewCall("own", op, w, builder[w].job, note)]

(* The interval timer of startBuildJob; a failed post stops it.               *)
SendKeepalive(w, h) ==
  /\ builder[w].phase = "building" /\ builder[w].timer
  /\ Post(w, h, "running", FALSE)
  /\ UNCHANGED <<row, builder, candidates, faults, history>>

SendResult(w, h) ==
  /\ builder[w].phase = "building"
  /\ Post(w, h, "complete", FALSE)
  /\ builder' = [builder EXCEPT ![w] = [@ EXCEPT !.phase = "reporting",
                  !.timer = FALSE, !.tries = 1, !.await = h]]
  /\ UNCHANGED <<row, candidates, faults, history>>

RepeatResult(w, h) ==
  /\ builder[w].phase = "reporting" /\ builder[w].await = NoHandler
  /\ builder[w].tries <= RetryCount
  /\ Post(w, h, "complete", FALSE)
  /\ builder' = [builder EXCEPT ![w] = [builder[w] EXCEPT !.tries = @ + 1,
                                                      !.await = h]]
  /\ UNCHANGED <<row, candidates, faults, history>>

(* The build itself failed, with or without messages for the user.            *)
SendFailure(w, h) ==
  /\ builder[w].phase = "building"
  /\ \E note \in BOOLEAN : Post(w, h, "error", note)
  /\ builder' = [builder EXCEPT ![w] = Resting]
  /\ UNCHANGED <<row, candidates, faults, history>>

(* The result could not be delivered: the same catch block reports an error.  *)
GiveUpResult(w, h) ==
  /\ builder[w].phase = "reporting" /\ builder[w].await = NoHandler
  /\ builder[w].tries > RetryCount
  /\ Post(w, h, "error", FALSE)
  /\ builder' = [builder EXCEPT ![w] = Resting]
  /\ UNCHANGED <<row, candidates, faults, history>>

-------------------------------------------------------------------------------
(* Faults.                                                                    *)

Fault == faults < FaultLimit /\ faults' = faults + 1

(* The connection breaks; the handler does not learn of it.                   *)
LoseResponse(w) ==
  /\ Fault
  /\ builder[w].await # NoHandler
  /\ builder' = [builder EXCEPT ![w] =
                   IF @.phase = "asking" THEN Resting
                   ELSE [@ EXCEPT !.await = NoHandler]]
  /\ UNCHANGED <<row, call, candidates, history>>

(* The connection of an unawaited post breaks and the post is repeated.       *)
RepeatPost(h, g) ==
  /\ Fault
  /\ call[h].pc # "idle" /\ Repeatable(call[h])
  /\ call[g].pc = "idle"
  /\ call' = [call EXCEPT
       ![g] = Again(call[h]),
       ![h].tries = RetryCount + 1]
  /\ UNCHANGED <<row, builder, candidates, history>>

(* A handler ends early: its replica stops, its database connection fails or  *)
(* its context is cancelled.  An open transaction is rolled back.             *)
HandlerDies(h) ==
  /\ Fault
  /\ call[h].pc # "idle"
  /\ call' = [call EXCEPT ![h] = Idle]
  /\ builder' = [w \in Builder |->
                   IF builder[w].await # h THEN builder[w]
                   ELSE IF builder[w].phase = "asking" THEN Resting
                   ELSE [builder[w] EXCEPT !.await = NoHandler]]
  /\ UNCHANGED <<row, candidates, history>>

(* A builder process or a browser tab ends; a new process has a new id.       *)
BuilderDies(w) ==
  /\ Fault
  /\ builder[w].phase # "dead"
  /\ builder' = [builder EXCEPT ![w] = [Resting EXCEPT !.phase = "dead"]]
  /\ UNCHANGED <<row, call, candidates, history>>

-------------------------------------------------------------------------------
(* Time, cleanup and migration.                                               *)

(* last_active falls behind the 600 s of the keepalive timeout, ...           *)
KeepaliveTimeout(b) ==
  /\ status[b] = "running" /\ age[b] = "fresh"
  /\ age' = [age EXCEPT ![b] = "stale"]
  /\ UNCHANGED <<status, builderId, restarts, details, created, hasSrc, notified,
                 call, builder, candidates, faults, history>>

(* ... or behind the retention of a finished build.                           *)
RetentionEnds(b) ==
  /\ Finished(b) /\ age[b] # "expired"
  /\ age' = [age EXCEPT ![b] = "expired"]
  /\ UNCHANGED <<status, builderId, restarts, details, created, hasSrc, notified,
                 call, builder, candidates, faults, history>>

Expired == {b \in Build : Finished(b) /\ age[b] = "expired"}

(* Without object storage: notifications are removed of failed builds only.   *)
RemoveOldBuildEntities ==
  /\ ~Minio
  /\ \E b \in Expired : hasSrc[b] \/ (notified[b] /\ status[b] = "error")
  /\ hasSrc' = [b \in Build |-> hasSrc[b] /\ b \notin Expired]
  /\ notified' = [b \in Build |->
                    notified[b] /\ ~(b \in Expired /\ status[b] = "error")]
  /\ UNCHANGED <<status, builderId, restarts, age, details, created, call, builder,
                 candidates, faults, history>>

(* With object storage: ids are selected, their files removed, and their rows *)
(* deleted in a later transaction.                                            *)
GetRemoveCandidates ==
  /\ Minio
  /\ candidates = {} /\ Expired # {}
  /\ candidates' = Expired
  /\ UNCHANGED <<row, call, builder, faults, history>>

RemoveOldBuildDataByIds ==
  /\ candidates # {}
  /\ hasSrc' = [b \in Build |-> hasSrc[b] /\ b \notin candidates]
  /\ notified' = [b \in Build |-> notified[b] /\ b \notin candidates]
  /\ candidates' = {}
  /\ UNCHANGED <<status, builderId, restarts, age, details, created, call, builder,
                 faults, history>>

(* StageCancelling fails every unfinished build of the migration in one       *)
(* statement, which waits for the row locks it meets.                         *)
CancelMigration ==
  LET Hit == {b \in MigrationBuild : status[b] \in {"none", "running"}} IN
  /\ Hit # {}
  /\ \A b \in Hit : ~RowLocked(b)
  /\ status' = [b \in Build |-> IF b \in Hit THEN "error" ELSE status[b]]
  /\ details' = [b \in Build |-> IF b \in Hit THEN {"cancelled"} ELSE details[b]]
  /\ age' = [b \in Build |-> IF b \in Hit THEN "fresh" ELSE age[b]]
  /\ UNCHANGED <<builderId, restarts, created, hasSrc, notified, call, builder,
                 candidates, faults, history>>

-------------------------------------------------------------------------------
HandlerStep(h) ==
  \/ FailExhaustedBuild(h) \/ TakeBuild(h) \/ NothingToTake(h)
  \/ HandOver(h) \/ FindUnbuildable(h) \/ RejectUnbuildable(h)
  \/ ValidateBuildOwnership(h) \/ ApplyRunning(h) \/ FailBuild(h)
  \/ RefreshBeforePublication(h) \/ AcceptResult(h) \/ RefuseResult(h)
  \/ LockForPublication(h) \/ CommitPublication(h)

Report(w) == \E h \in Handler : \/ SendResult(w, h) \/ RepeatResult(w, h)
                                \/ SendFailure(w, h) \/ GiveUpResult(w, h)

Next ==
  \/ \E b \in Build : \/ StoreServerBuild(b)
                      \/ \E w \in Client : StoreClientBuild(b, w)
                      \/ KeepaliveTimeout(b) \/ RetentionEnds(b)
  \/ \E w \in NodeBuilder, h \in Handler : Poll(w, h)
  \/ \E w \in Builder, h \in Handler : SendKeepalive(w, h)
  \/ \E w \in Builder : Report(w) \/ LoseResponse(w) \/ BuilderDies(w)
  \/ \E h \in Handler : HandlerStep(h) \/ HandlerDies(h)
  \/ \E h, g \in Handler : RepeatPost(h, g)
  \/ RemoveOldBuildEntities \/ GetRemoveCandidates \/ RemoveOldBuildDataByIds
  \/ CancelMigration

Spec == Init /\ [][Next]_vars

(* A request that runs goes on, builders poll and end what they build, and    *)
(* time passes.  Strong fairness where the model makes a builder wait for a   *)
(* free handler: the code starts a goroutine per request.                     *)
FairSpec ==
  /\ Spec
  /\ \A h \in Handler : WF_vars(HandlerStep(h))
  /\ \A w \in NodeBuilder : SF_vars(\E h \in Handler : Poll(w, h))
  /\ \A w \in Builder : SF_vars(Report(w))
  /\ \A b \in Build : WF_vars(KeepaliveTimeout(b))

-------------------------------------------------------------------------------
(* Every variable has its type.                                               *)
TypeOK ==
  /\ status \in [Build -> Status]
  /\ builderId \in [Build -> Builder \cup {NoBuilder}]
  /\ restarts \in [Build -> 0..2]
  /\ age \in [Build -> Age]
  /\ details \in [Build -> SUBSET Reason]
  /\ created \in [Build -> Nat]
  /\ hasSrc \in [Build -> BOOLEAN]
  /\ notified \in [Build -> BOOLEAN]
  /\ call \in [Handler -> Call]
  /\ builder \in [Builder -> BuilderState]
  /\ candidates \in SUBSET Build
  /\ faults \in Nat
  /\ owners \in [Build -> SUBSET Builder]
  /\ commits \in [Build -> Nat]
  /\ publisher \in [Build -> Builder \cup {NoBuilder}]

(* However often a result is posted, repeated or built again after a restart, *)
(* a publication transaction commits at most once per build, and the build is *)
(* complete exactly when it has (status check under the row lock).            *)
PublishedOnceIffComplete ==
  \A b \in Build : commits[b] = IF status[b] = "complete" THEN 1 ELSE 0

(* A published result comes from a builder the build was once bound to        *)
(* (ValidateBuildOwnership before SaveBuildResult).                           *)
PublisherWasBound ==
  \A b \in Build : publisher[b] # NoBuilder => publisher[b] \in owners[b]

(* No builder builds, and no request gets past the ownership check of, a      *)
(* build that was never taken: a queued build cannot be refreshed, failed or  *)
(* published by a post.                                                       *)
QueuedBuildIsUntouched ==
  \A b \in Build : status[b] \in {"absent", "none"} =>
    /\ owners[b] = {}
    /\ \A w \in Builder : builder[w].job # b
    /\ \A h \in Handler : call[h].b # b

(* A build of the server side runs, and is complete, only after every build   *)
(* it depends on has finished (the build_depends subquery).                   *)
DependenciesFinishFirst ==
  \A b \in Build \ ClientBuild : status[b] \in {"running", "complete"} =>
    \A d \in Depends[b] : Finished(d)

(* A build that still has to run has its sources, whatever a cleanup run      *)
(* selected earlier and deletes only now.                                     *)
UnfinishedBuildHasSources ==
  \A b \in Build : status[b] \in {"none", "running"} => hasSrc[b]

(* At most one publication transaction of a build is past its status check.   *)
OnePublicationAtATime ==
  \A h, g \in Handler :
    call[h].pc = "commit" /\ call[g].pc = "commit" /\ call[h].b = call[g].b => h = g

(* Between the status check and the commit of a publication nobody takes,     *)
(* fails, refreshes or cancels the build.                                     *)
PublicationIsIsolated ==
  [][\A h \in Handler : call[h].pc = "commit" /\ call'[h] = call[h] =>
       LET b == call[h].b IN
       /\ status'[b] = status[b] /\ builderId'[b] = builderId[b]
       /\ restarts'[b] = restarts[b]]_vars

(* A finished build never runs again.  A complete one stays complete; a       *)
(* failed one can become complete only after both restarts were used.         *)
FinishedIsFinal ==
  [][\A b \in Build :
       /\ status[b] = "complete" => status'[b] = "complete"
       /\ status[b] = "error" => \/ status'[b] = "error"
                                 \/ status'[b] = "complete" /\ restarts[b] = 2]_vars

(* The queue keeps the promises of BuildLifecycle: three attempts, after the  *)
(* dependencies, one publication, by a builder that was given the build.      *)
Phase(s) == CASE s = "absent" -> "absent"
              [] s = "none" -> "queued"
              [] s = "running" -> "running"
              [] s = "error" -> "failed"
              [] s = "complete" -> "published"

Phases == [b \in Build |-> Phase(status[b])]

Attempts == [b \in Build |-> IF owners[b] = {} THEN 0 ELSE restarts[b] + 1]

Lifecycle == INSTANCE BuildLifecycle WITH
  Nobody <- NoBuilder, state <- Phases, attempts <- Attempts, workers <- owners

RefinesLifecycle == Lifecycle!Spec

(* Every stored build is finished at last, whatever builders crash, results   *)
(* get lost or handlers stop, while some builder of the server side lives.    *)
EveryBuildFinishes ==
  \A b \in Build : status[b] # "absent" ~>
    Finished(b) \/ \A w \in NodeBuilder : builder[w].phase = "dead"

-------------------------------------------------------------------------------
(* The inductive invariant: the invariants above, and what they rest on.      *)

(* A request past the ownership check acts for a builder the build was once   *)
(* given to; one that holds a build holds a stored one.                       *)
CallsAreBound ==
  \A h \in Handler :
    /\ call[h].pc # "idle" => call[h].w \in Builder
    /\ call[h].pc \in {"take", "load", "reject"} => call[h].op = "poll"
    /\ call[h].pc \notin {"idle", "take"} => call[h].b \in Build
    /\ call[h].pc \in {"apply", "refresh", "check", "lock", "commit"} =>
         call[h].w \in owners[call[h].b]

BuildersHaveJobs ==
  \A w \in Builder : builder[w].phase \in {"building", "reporting"} =>
    builder[w].job \in Build

(* The row lock keeps what the status check of a publication saw.             *)
PublishingIsAllowed ==
  \A h \in Handler : call[h].pc = "commit" => ~PublicationRefused(call[h].b)

BoundIsOwner ==
  \A b \in Build : builderId[b] # NoBuilder => builderId[b] \in owners[b]

RunningWasTaken ==
  \A b \in Build : /\ status[b] \in {"absent", "none"} => restarts[b] = 0
                   /\ status[b] \in {"running", "complete"} => owners[b] # {}

TakenAfterDependencies ==
  \A b \in Build : \A d \in Depends[b] :
    /\ status[b] # "absent" => status[d] # "absent"
    /\ b \notin ClientBuild /\ owners[b] # {} => Finished(d)

CandidatesAreFinished == \A b \in candidates : Finished(b)

IInv ==
  /\ TypeOK
  /\ PublishedOnceIffComplete /\ OnePublicationAtATime /\ QueuedBuildIsUntouched
  /\ PublisherWasBound /\ UnfinishedBuildHasSources
  /\ CallsAreBound /\ BuildersHaveJobs /\ PublishingIsAllowed
  /\ BoundIsOwner /\ RunningWasTaken /\ TakenAfterDependencies
  /\ CandidatesAreFinished

===============================================================================
