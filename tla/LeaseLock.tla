------------------------------ MODULE LeaseLock -------------------------------
(***************************************************************************)
(* The lock of the background jobs: one row of the table `locks`, and the  *)
(* LockService of every instance of the backend.                           *)
(*                                                                         *)
(* A run of a job acquires the lock with a lease, keeps it with a          *)
(* heartbeat goroutine of its own, and releases it.  Every query is a step *)
(* of its own; the clock of an instance differs from real time by a skew.  *)
(***************************************************************************)
EXTENDS Integers

CONSTANTS
  Instance,   \* processes of the backend; a restarted one has a new id
  Run,        \* runs of jobs that use the lock, each started once
  Home,       \* [Run -> Instance]
  Skew,       \* [Instance -> Int], clock of an instance minus real time
  Lease,      \* LeaseSeconds
  Interval,   \* HeartbeatIntervalSeconds
  Margin,     \* clockSkewMargin
  Shared,     \* the jobs of an instance share the lock (cleanup_job_lock); when
              \* not, one job uses it, and cron skips it while it still runs
  AlwaysReleases, \* the jobs of AiChatCleanupService and
              \* EphemeralFileCleanupService; not those of JobRunner
  Punctual,   \* only for some runs: no step is delayed over a tick of the clock
  MaxTime,    \* last moment of a behaviour (a bound)
  NoInstance, NoRun

ASSUME LeaseLockAssumption ==
  /\ Home \in [Run -> Instance]
  /\ Skew \in [Instance -> Int]
  /\ Lease \in Nat /\ Interval \in Nat \ {0} /\ Margin \in Nat
  /\ \A i, j \in Instance : Skew[i] - Skew[j] <= Margin
  /\ Shared \in BOOLEAN /\ AlwaysReleases \in BOOLEAN /\ Punctual \in BOOLEAN
  /\ MaxTime \in Nat
  /\ NoInstance \notin Instance /\ NoRun \notin Run

VARIABLES
  now,        \* real time
  holder, expires, version,  \* the row: instance_id, expires_at, version; 0: no row
  pc,         \* where each run is in AcquireLock, its job or ReleaseLock
  stamp,      \* when its query read the row, for `now` in its next statement
  seen,       \* the version it read (both 0 when it has read nothing)
  ctx,        \* the context of the job: live, cancelled or past its deadline
  told,       \* a LockLostEvent for the run has been sent
  lease,      \* end of its lease as far as the run was told
  beat,       \* what the heartbeat of each run does
  beatStamp, beatSeen,       \* the same of its heartbeat
  due,        \* next tick of its ticker
  stopped,    \* its heartbeat context was cancelled
  canceler,   \* [Instance -> run whose cancel function is registered]
  channel     \* [Instance -> run whose notification channel is registered]

row == <<holder, expires, version>>
read == <<stamp, seen>>
job == <<pc, read, lease>>
heart == <<beat, beatStamp, beatSeen, due>>
vars == <<now, row, job, ctx, told, heart, stopped, canceler, channel>>

-------------------------------------------------------------------------------
Clock(r) == now + Skew[Home[r]]

Active(r) == pc[r] \notin {"new", "done"}

(* The heartbeat context is derived from that of the run, which ends when the *)
(* run returns; JobRunner cancels it when the lock is lost, the other services *)
(* only cancel the context of the job's body.                                 *)
Halted(r) == \/ stopped[r] \/ pc[r] = "done" \/ ctx[r] = "deadline"
             \/ ~AlwaysReleases /\ ctx[r] = "cancelled"

SafeNowM(t) == t + Margin

(* A lock is taken over when it has expired for every clock.                  *)
SafeNow(t) == t - Margin

RefreshableM(r, t) ==
  /\ holder = Home[r]
  /\ expires > t + Margin

(* The optimistic lock of a refresh, which comes before the lease ends.       *)
Refreshable(r, t) ==
  /\ holder = Home[r] /\ version = beatSeen[r]
  /\ expires > t + Margin

Releasable(r) == holder = Home[r] /\ version = seen[r]

(* The ticker keeps its period; a tick that nobody takes is dropped.          *)
NextTick(r) == due[r] + Interval * ((now - due[r]) \div Interval + 1)

(* What a run or a heartbeat has read is used by its next statement only.     *)
Forget(r) == /\ stamp' = [stamp EXCEPT ![r] = 0]
             /\ seen' = [seen EXCEPT ![r] = 0]

ForgetBeat(r) == /\ beatStamp' = [beatStamp EXCEPT ![r] = 0]
                 /\ beatSeen' = [beatSeen EXCEPT ![r] = 0]

Init ==
  /\ now = 0
  /\ holder = NoInstance /\ expires = 0 /\ version = 0
  /\ pc = [r \in Run |-> "new"]
  /\ stamp = [r \in Run |-> 0] /\ seen = [r \in Run |-> 0]
  /\ ctx = [r \in Run |-> "live"] /\ told = [r \in Run |-> FALSE]
  /\ lease = [r \in Run |-> 0]
  /\ beat = [r \in Run |-> "off"]
  /\ beatStamp = [r \in Run |-> 0] /\ beatSeen = [r \in Run |-> 0]
  /\ due = [r \in Run |-> 0]
  /\ stopped = [r \in Run |-> FALSE]
  /\ canceler = [i \in Instance |-> NoRun] /\ channel = [i \in Instance |-> NoRun]

-------------------------------------------------------------------------------
(* AcquireLock.                                                               *)

FindExistingLock(r) ==
  /\ pc[r] = "new"
  /\ Shared \/ \A s \in Run : Home[s] = Home[r] => ~Active(s)
  /\ \/ version = 0 /\ pc' = [pc EXCEPT ![r] = "insert"]
     \/ version > 0 /\ expires <= SafeNow(Clock(r))
        /\ pc' = [pc EXCEPT ![r] = "takeover"]
  /\ stamp' = [stamp EXCEPT ![r] = Clock(r)]
  /\ seen' = [seen EXCEPT ![r] = version]
  /\ UNCHANGED <<now, row, ctx, told, lease, heart, stopped, canceler, channel>>

(* The row is written; the answer of the database arrives or is lost.         *)
Grant(r) ==
  /\ holder' = Home[r]
  /\ expires' = stamp[r] + Lease
  /\ version' = version + 1
  /\ \/ /\ pc' = [pc EXCEPT ![r] = "start"]
        /\ lease' = [lease EXCEPT ![r] = stamp[r] + Lease]
     \/ pc' = [pc EXCEPT ![r] = "done"] /\ UNCHANGED lease

Refuse(r) == pc' = [pc EXCEPT ![r] = "done"] /\ UNCHANGED <<row, lease>>

CreateNewLock(r) ==
  /\ pc[r] = "insert"
  /\ IF version = 0 THEN Grant(r) ELSE Refuse(r)
  /\ Forget(r)
  /\ UNCHANGED <<now, ctx, told, heart, stopped, canceler, channel>>

TakeOverExpiredLock(r) ==
  /\ pc[r] = "takeover"
  /\ IF version = seen[r] /\ expires < SafeNow(stamp[r]) THEN Grant(r) ELSE Refuse(r)
  /\ Forget(r)
  /\ UNCHANGED <<now, ctx, told, heart, stopped, canceler, channel>>

(* Under the mutex: a heartbeat registered before is cancelled, its channel   *)
(* is overwritten.                                                            *)
StartHeartbeat(r) ==
  LET i == Home[r] IN
  /\ pc[r] = "start"
  /\ pc' = [pc EXCEPT ![r] = "run"]
  /\ stopped' = [s \in Run |-> s # r /\ (stopped[s] \/ s = canceler[i])]
  /\ canceler' = [canceler EXCEPT ![i] = r]
  /\ channel' = [channel EXCEPT ![i] = r]
  /\ beat' = [beat EXCEPT ![r] = "wait"]
  /\ due' = [due EXCEPT ![r] = now + Interval]
  /\ UNCHANGED <<now, row, read, lease, ctx, told, beatStamp, beatSeen>>

-------------------------------------------------------------------------------
(* The heartbeat of a run.                                                    *)

SendLockLostM(r) == UNCHANGED <<told, channel>>

(* sendLockLostNotification: to whoever has registered its channel.           *)
SendLockLost(r) ==
  LET i == Home[r] IN
  IF channel[i] = NoRun
    THEN UNCHANGED <<told, channel>>
    ELSE /\ told' = [told EXCEPT ![channel[i]] = TRUE]
         /\ channel' = [channel EXCEPT ![i] = NoRun]

(* A heartbeat that failed ends; nobody is told when its context has ended.   *)
GiveUp(r) ==
  /\ beat' = [beat EXCEPT ![r] = "ending"]
  /\ IF Halted(r) THEN UNCHANGED <<told, channel>> ELSE SendLockLost(r)

LookUp(r) ==
  /\ beat[r] = "wait" /\ ~Halted(r) /\ now >= due[r]
  /\ IF holder = Home[r]
       THEN /\ beat' = [beat EXCEPT ![r] = "refresh"]
            /\ beatStamp' = [beatStamp EXCEPT ![r] = Clock(r)]
            /\ beatSeen' = [beatSeen EXCEPT ![r] = version]
            /\ due' = [due EXCEPT ![r] = NextTick(r)]
            /\ UNCHANGED <<told, channel>>
       ELSE GiveUp(r) /\ UNCHANGED <<beatStamp, beatSeen, due>>
  /\ UNCHANGED <<now, row, job, ctx, stopped, canceler>>

(* A lost answer is followed by a retry, which meets another version.         *)
RefreshLock(r) ==
  /\ beat[r] = "refresh"
  /\ \E t \in beatStamp[r]..Clock(r) :
       IF Refreshable(r, t)
         THEN /\ expires' = t + Lease
              /\ version' = version + 1
              /\ \/ /\ lease' = [lease EXCEPT ![r] = t + Lease]
                    /\ beat' = [beat EXCEPT ![r] = "wait"]
                    /\ UNCHANGED <<told, channel>>
                 \/ GiveUp(r) /\ UNCHANGED lease
         ELSE GiveUp(r) /\ UNCHANGED <<expires, version, lease>>
  /\ ForgetBeat(r)
  /\ UNCHANGED <<now, holder, pc, read, ctx, due, stopped, canceler>>

(* The database fails the look-up, or every retry of the refresh.             *)
HeartbeatFails(r) ==
  /\ \/ beat[r] = "wait" /\ ~Halted(r) /\ now >= due[r]
     \/ beat[r] = "refresh"
  /\ GiveUp(r) /\ ForgetBeat(r)
  /\ UNCHANGED <<now, row, job, ctx, due, stopped, canceler>>

NoticeHalt(r) ==
  /\ beat[r] = "wait" /\ Halted(r)
  /\ beat' = [beat EXCEPT ![r] = "ending"]
  /\ UNCHANGED <<now, row, job, ctx, told, beatStamp, beatSeen, due, stopped,
                 canceler, channel>>

(* The deferred function cancels and forgets whatever heartbeat is registered *)
(* for the lock by now.                                                       *)
EndHeartbeat(r) ==
  LET i == Home[r] IN
  /\ beat[r] = "ending"
  /\ beat' = [beat EXCEPT ![r] = "off"]
  /\ stopped' = [s \in Run |-> stopped[s] \/ s = canceler[i]]
  /\ canceler' = [canceler EXCEPT ![i] = NoRun]
  /\ UNCHANGED <<now, row, job, ctx, told, beatStamp, beatSeen, due, channel>>

-------------------------------------------------------------------------------
(* The run of a job.                                                          *)

(* The goroutine that waits for the event cancels the context of the job.     *)
CancelJob(r) ==
  /\ told[r] /\ ctx[r] = "live" /\ Active(r)
  /\ ctx' = [ctx EXCEPT ![r] = "cancelled"]
  /\ UNCHANGED <<now, row, job, told, heart, stopped, canceler, channel>>

JobTimeout(r) ==
  /\ pc[r] = "run" /\ ctx[r] = "live"
  /\ ctx' = [ctx EXCEPT ![r] = "deadline"]
  /\ UNCHANGED <<now, row, job, told, heart, stopped, canceler, channel>>

(* JobRunner does not release a lock that it has lost.                        *)
FinishJob(r) ==
  /\ pc[r] = "run"
  /\ pc' = [pc EXCEPT ![r] = IF ctx[r] = "cancelled" /\ ~AlwaysReleases
                              THEN "done" ELSE "release"]
  /\ UNCHANGED <<now, row, read, lease, ctx, told, heart, stopped, canceler,
                 channel>>

CleanupLockResources(r) ==
  LET i == Home[r] IN
  /\ pc[r] = "release"
  /\ pc' = [pc EXCEPT ![r] = "info"]
  /\ stopped' = [s \in Run |-> stopped[s] \/ s = canceler[i]]
  /\ canceler' = [canceler EXCEPT ![i] = NoRun]
  /\ channel' = [channel EXCEPT ![i] = NoRun]
  /\ UNCHANGED <<now, row, read, lease, ctx, told, heart>>

GetLockInfo(r) ==
  /\ pc[r] = "info"
  /\ pc' = [pc EXCEPT ![r] = IF holder = Home[r] THEN "free" ELSE "done"]
  /\ stamp' = [stamp EXCEPT ![r] = Clock(r)]
  /\ seen' = [seen EXCEPT ![r] = version]
  /\ UNCHANGED <<now, row, lease, ctx, told, heart, stopped, canceler, channel>>

ReleaseLock(r) ==
  /\ pc[r] = "free"
  /\ pc' = [pc EXCEPT ![r] = "done"]
  /\ IF Releasable(r)
       THEN /\ \E t \in stamp[r]..Clock(r) : expires' = t - Margin
            /\ version' = version + 1
       ELSE UNCHANGED <<expires, version>>
  /\ Forget(r)
  /\ UNCHANGED <<now, holder, lease, ctx, told, heart, stopped, canceler, channel>>

ReleaseFails(r) ==
  /\ pc[r] \in {"info", "free"}
  /\ pc' = [pc EXCEPT ![r] = "done"]
  /\ Forget(r)
  /\ UNCHANGED <<now, row, lease, ctx, told, heart, stopped, canceler, channel>>

-------------------------------------------------------------------------------
(* An instance ends for good: its runs are gone, and its memory with them.    *)
Crash(i) ==
  LET Lost(f, x) == [r \in Run |-> IF Home[r] = i THEN x ELSE f[r]] IN
  /\ \E r \in Run : Home[r] = i /\ pc[r] # "done"
  /\ pc' = Lost(pc, "done") /\ stamp' = Lost(stamp, 0) /\ seen' = Lost(seen, 0)
  /\ lease' = Lost(lease, 0)
  /\ ctx' = Lost(ctx, "live") /\ told' = Lost(told, FALSE)
  /\ beat' = Lost(beat, "off") /\ due' = Lost(due, 0)
  /\ beatStamp' = Lost(beatStamp, 0) /\ beatSeen' = Lost(beatSeen, 0)
  /\ stopped' = Lost(stopped, FALSE)
  /\ canceler' = [canceler EXCEPT ![i] = NoRun]
  /\ channel' = [channel EXCEPT ![i] = NoRun]
  /\ UNCHANGED <<now, row>>

(* No query is under way, no heartbeat is overdue and no event is underway.   *)
(* Only a heartbeat that ends may take its time.                              *)
Prompt ==
  \A r \in Run : /\ pc[r] \in {"new", "run", "done"}
                 /\ beat[r] # "refresh"
                 /\ beat[r] = "wait" /\ ~Halted(r) => now < due[r]
                 /\ told[r] /\ Active(r) => ctx[r] # "live"

Tick ==
  /\ now < MaxTime
  /\ Punctual => Prompt
  /\ now' = now + 1
  /\ UNCHANGED <<row, job, ctx, told, heart, stopped, canceler, channel>>

Acquire(r) == \/ FindExistingLock(r) \/ CreateNewLock(r) \/ TakeOverExpiredLock(r)
              \/ StartHeartbeat(r)

Heartbeat(r) == \/ LookUp(r) \/ RefreshLock(r) \/ HeartbeatFails(r)
                \/ NoticeHalt(r) \/ EndHeartbeat(r)

Job(r) == \/ CancelJob(r) \/ JobTimeout(r) \/ FinishJob(r)
          \/ CleanupLockResources(r) \/ GetLockInfo(r) \/ ReleaseLock(r)
          \/ ReleaseFails(r)

Next ==
  \/ \E r \in Run : Acquire(r) \/ Heartbeat(r) \/ Job(r)
  \/ \E i \in Instance : Crash(i)
  \/ Tick

Spec == Init /\ [][Next]_vars

-------------------------------------------------------------------------------
(* Every variable has its type.                                               *)
TypeOK ==
  /\ now \in Nat
  /\ holder \in Instance \cup {NoInstance} /\ expires \in Int /\ version \in Nat
  /\ pc \in [Run -> {"new", "insert", "takeover", "start", "run", "release",
                     "info", "free", "done"}]
  /\ stamp \in [Run -> Int] /\ seen \in [Run -> Nat]
  /\ ctx \in [Run -> {"live", "cancelled", "deadline"}]
  /\ told \in [Run -> BOOLEAN]
  /\ lease \in [Run -> Int]
  /\ beat \in [Run -> {"off", "wait", "refresh", "ending"}]
  /\ beatStamp \in [Run -> Int] /\ beatSeen \in [Run -> Nat]
  /\ due \in [Run -> Int]
  /\ stopped \in [Run -> BOOLEAN]
  /\ canceler \in [Instance -> Run \cup {NoRun}]
  /\ channel \in [Instance -> Run \cup {NoRun}]

(* A run holds the lock as far as it can know.                                *)
Holds(r) == pc[r] \in {"start", "run"} /\ lease[r] > Clock(r)

(* Two instances never hold the lock at once: however long a query, a         *)
(* heartbeat or a goroutine is delayed, an instance that takes the lock over  *)
(* does so after the lease of the former holder has ended on that holder's    *)
(* own clock.                                                                 *)
LeaseIsExclusive ==
  \A r, s \in Run : Holds(r) /\ Holds(s) => Home[r] = Home[s]

OneActive ==
  \A r, s \in Run : Home[r] = Home[s] /\ Active(r) /\ Active(s) => r = s

ReadEarlier == \A r \in Run : pc[r] \in {"insert", "takeover"} => stamp[r] <= Clock(r)

RowExists == \A r \in Run : pc[r] \in {"start", "run"} => version > 0

LeaseIsWritten == \A r \in Run : Holds(r) => holder = Home[r] /\ expires >= lease[r]

LeaseIsBounded ==
  \A r \in Run : pc[r] = "start" \/ beat[r] # "off" => lease[r] <= Clock(r) + Lease

BeatIsLater ==
  \A r \in Run : beat[r] # "off" => pc[r] \notin {"new", "insert", "takeover", "start"}

BeatIsOutdated ==
  \A r \in Run : beat[r] = "refresh" =>
    /\ lease[r] <= beatStamp[r] + Lease
    /\ beatSeen[r] <= version
    /\ \A s \in Run \ {r} : Home[s] = Home[r] /\ pc[s] \in {"start", "run"} =>
         beatSeen[r] < version

(* What makes it so, for a lock that one job uses.  One run of an instance is *)
(* active at a time; what it knows of its lease is in the row; a heartbeat of *)
(* a former run of the instance has read an older version of the row; and no  *)
(* lease goes beyond the clock it was granted by.                             *)
LeaseInvariant ==
  /\ TypeOK /\ OneActive /\ ReadEarlier /\ RowExists
  /\ LeaseIsWritten /\ LeaseIsBounded /\ BeatIsLater /\ BeatIsOutdated

(* What keeps the lock with a job when no step is delayed over a tick.  What  *)
(* was read is not older than the clock; what is registered for an instance   *)
(* is a run of it; a run without a heartbeat has heard of nothing; and the    *)
(* lease of a live job lasts until its next heartbeat, unless it was told or  *)
(* its heartbeat was cancelled by that of an earlier run.                     *)
ReadNow ==
  \A r \in Run : /\ pc[r] \in {"insert", "takeover"} => stamp[r] = Clock(r)
                 /\ beat[r] = "refresh" => beatStamp[r] = Clock(r)

RegisteredAtHome ==
  \A i \in Instance : /\ canceler[i] # NoRun => Home[canceler[i]] = i
                      /\ channel[i] # NoRun => Home[channel[i]] = i

NotToldEarly ==
  \A r \in Run : pc[r] \in {"new", "insert", "takeover", "start"} =>
    ~told[r] /\ channel[Home[r]] # r

GrantedNow ==
  \A r \in Run : pc[r] = "start" => holder = Home[r] /\ expires = Clock(r) + Lease

(* The heartbeat of a run is on its way to the next refresh of the lock.      *)
Beating(r) ==
  /\ beat[r] \in {"wait", "refresh"} /\ ~stopped[r] /\ channel[Home[r]] = r
  /\ now <= due[r] /\ due[r] <= now + Interval
  /\ beat[r] = "wait" => due[r] + Skew[Home[r]] <= expires

(* Its heartbeat was cancelled by the end of that of an earlier run of the     *)
(* instance: nobody refreshes the lock any more, and nobody will tell the run. *)
Orphaned(r) == stopped[r] /\ ~told[r]

KeptWhileLive ==
  \A r \in Run : pc[r] = "run" /\ ctx[r] = "live" =>
    \/ Orphaned(r)
    \/ holder = Home[r] /\ Clock(r) <= expires /\ (told[r] \/ Beating(r))

KeptInvariant ==
  /\ ReadNow /\ RegisteredAtHome /\ NotToldEarly /\ GrantedNow /\ KeptWhileLive

(* The Runner holds "the lock for the entire duration of the job": while the  *)
(* context of a job is live, the lock belongs to its instance.  The exception *)
(* is a job whose heartbeat the deferred function of an earlier run's has     *)
(* cancelled: it is told nothing, and the lock is its own only until the lease *)
(* that it was granted last has ended.                                        *)
JobHoldsLock ==
  \A r \in Run : pc[r] = "run" /\ ctx[r] = "live" =>
    holder = Home[r] \/ (Orphaned(r) /\ lease[r] <= Clock(r))

(* The Runner skips the release of a lock "already lost": no release frees    *)
(* the lock while another run holds it.                                       *)
ReleaseFreesOwnLock ==
  [][\A r \in Run : pc[r] = "free" /\ version' # version /\ pc'[r] = "done" =>
       \A s \in Run \ {r} : ~Holds(s)]_vars
===============================================================================
