---------------------------- MODULE LeaseLockProofs ---------------------------
(* Proofs about LeaseLock, for any number of instances and runs, any lease,   *)
(* interval and margin, and clocks that differ by at most the margin.         *)
EXTENDS LeaseLock, TLAPS

(* Every instance uses the lock once.                                         *)
OnceEach == \A r, s \in Run : Home[r] = Home[s] => r = s

(* One job uses the lock, or an instance uses it once: no two runs of an      *)
(* instance are active at a time.                                             *)
OneAtATime == ~Shared \/ OnceEach

LEMMA ClockType ==
  ASSUME TypeOK, NEW r \in Run
  PROVE  Clock(r) \in Int /\ Skew[Home[r]] \in Int
BY LeaseLockAssumption DEF TypeOK, Clock

LEMMA NextTickType ==
  ASSUME TypeOK, NEW r \in Run
  PROVE  NextTick(r) \in Int
<1>1. now \in Int /\ due[r] \in Int /\ Interval \in Nat /\ Interval > 0
  BY LeaseLockAssumption DEF TypeOK
<1>2. (now - due[r]) \div Interval \in Int
  BY <1>1
<1> DEFINE k == (now - due[r]) \div Interval + 1
<1>3. k \in Int
  BY <1>2
<1> HIDE DEF k
<1>4. Interval * k \in Int
  BY <1>1, <1>3
<1>. QED
  BY <1>1, <1>4 DEF NextTick, k

(* The clocks of two instances differ by the margin at most.                  *)
LEMMA ClocksAgree ==
  ASSUME TypeOK, NEW r \in Run, NEW s \in Run
  PROVE  Clock(r) >= Clock(s) - Margin
<1>1. /\ Skew[Home[s]] - Skew[Home[r]] <= Margin
      /\ Skew[Home[s]] \in Int /\ Skew[Home[r]] \in Int
      /\ Margin \in Int /\ now \in Int
  BY LeaseLockAssumption DEF TypeOK
<1>. QED
  BY <1>1 DEF Clock

LEMMA GiveUpType ==
  ASSUME TypeOK, NEW r \in Run, GiveUp(r)
  PROVE  /\ beat' \in [Run -> {"off", "wait", "refresh", "ending"}]
         /\ told' \in [Run -> BOOLEAN]
         /\ channel' \in [Instance -> Run \cup {NoRun}]
<1>1. Home[r] \in Instance
  BY LeaseLockAssumption
<1>2. beat' \in [Run -> {"off", "wait", "refresh", "ending"}]
  BY DEF TypeOK, GiveUp
<1>3. UNCHANGED <<told, channel>> \/ SendLockLost(r)
  BY DEF GiveUp
<1>4. CASE UNCHANGED <<told, channel>>
  BY <1>2, <1>4 DEF TypeOK
<1>5. CASE SendLockLost(r)
  <2>1. channel' \in [Instance -> Run \cup {NoRun}]
    BY <1>1, <1>5 DEF TypeOK, SendLockLost
  <2>2. told' = told \/ told' = [told EXCEPT ![channel[Home[r]]] = TRUE]
    BY <1>5 DEF SendLockLost
  <2>3. told \in [Run -> BOOLEAN]
    BY DEF TypeOK
  <2>4. told' \in [Run -> BOOLEAN]
    BY <2>2, <2>3, Zenon
  <2>. QED
    BY <1>2, <2>1, <2>4
<1>. QED
  BY <1>3, <1>4, <1>5

-------------------------------------------------------------------------------
(* Each action keeps the invariant.                                           *)

LEMMA FindExistingLockStep ==
  ASSUME LeaseInvariant, OneAtATime, NEW r \in Run, FindExistingLock(r)
  PROVE  LeaseInvariant'
<1>1. TypeOK'
  BY LeaseLockAssumption, ClockType DEF LeaseInvariant, TypeOK,
     FindExistingLock, row, heart
<1>2. OneActive'
  <2>1. CASE ~Shared
    BY <2>1 DEF LeaseInvariant, TypeOK, OneActive, Active, FindExistingLock, row,
       heart
  <2>2. CASE OnceEach
    BY <2>2 DEF OneActive, OnceEach
  <2>. QED
    BY <2>1, <2>2 DEF OneAtATime
<1>3. ReadEarlier'
  BY ClockType DEF LeaseInvariant, TypeOK, ReadEarlier, Clock,
     FindExistingLock, row, heart
<1>4. RowExists'
  BY DEF LeaseInvariant, TypeOK, RowExists, FindExistingLock, row, heart
<1>5. LeaseIsWritten'
  BY DEF LeaseInvariant, TypeOK, LeaseIsWritten, Holds, Clock,
     FindExistingLock, row, heart
<1>6. LeaseIsBounded'
  BY DEF LeaseInvariant, TypeOK, LeaseIsBounded, Clock, FindExistingLock, row,
     heart
<1>7. BeatIsLater'
  BY DEF LeaseInvariant, TypeOK, BeatIsLater, FindExistingLock, row, heart
<1>8. BeatIsOutdated'
  BY DEF LeaseInvariant, TypeOK, BeatIsOutdated, FindExistingLock, row, heart
<1>. QED
  BY <1>1, <1>2, <1>3, <1>4, <1>5, <1>6, <1>7, <1>8 DEF LeaseInvariant

LEMMA CreateNewLockStep ==
  ASSUME LeaseInvariant, OneAtATime, NEW r \in Run, CreateNewLock(r)
  PROVE  LeaseInvariant'
<1>1. TypeOK'
  <2>1. Home[r] \in Instance /\ stamp[r] + Lease \in Int /\ version + 1 \in Nat
    BY LeaseLockAssumption DEF LeaseInvariant, TypeOK
  <2>2. /\ holder' \in Instance \cup {NoInstance} /\ expires' \in Int
        /\ version' \in Nat
    BY <2>1 DEF LeaseInvariant, TypeOK, CreateNewLock, Grant, Refuse, row
  <2>3. lease' \in [Run -> Int]
    BY <2>1 DEF LeaseInvariant, TypeOK, CreateNewLock, Grant, Refuse
  <2>4. /\ pc' \in [Run -> {"new", "insert", "takeover", "start", "run", "release",
                          "info", "free", "done"}]
        /\ stamp' \in [Run -> Int] /\ seen' \in [Run -> Nat]
    BY DEF LeaseInvariant, TypeOK, CreateNewLock, Grant, Refuse, Forget
  <2>. QED
    BY <2>2, <2>3, <2>4 DEF LeaseInvariant, TypeOK, CreateNewLock, heart
<1>2. OneActive'
  BY DEF LeaseInvariant, TypeOK, OneActive, Active, CreateNewLock, Grant,
     Refuse, Forget, row, heart
<1>3. ReadEarlier'
  BY DEF LeaseInvariant, TypeOK, ReadEarlier, Clock, CreateNewLock, Grant,
     Refuse, Forget, row, heart
<1>4. RowExists'
  BY DEF LeaseInvariant, TypeOK, RowExists, CreateNewLock, Grant, Refuse,
     Forget, row, heart
<1>5. LeaseIsWritten'
  <2>1. CASE version = 0
    <3>1. ASSUME NEW s \in Run \ {r}
          PROVE  ~Holds(s)'
      BY <2>1 DEF LeaseInvariant, TypeOK, RowExists, Holds, CreateNewLock, Grant
    <3>2. Holds(r)' => holder' = Home[r] /\ expires' >= lease'[r]
      <4>1. Holds(r)' => expires' = stamp[r] + Lease /\ lease'[r] = expires'
        BY <2>1 DEF LeaseInvariant, TypeOK, Holds, CreateNewLock, Grant
      <4>2. stamp[r] + Lease \in Int
        BY LeaseLockAssumption DEF LeaseInvariant, TypeOK
      <4>. QED
        BY <2>1, <4>1, <4>2 DEF CreateNewLock, Grant
    <3>. QED
      BY <3>1, <3>2 DEF LeaseIsWritten
  <2>2. CASE version # 0
    BY <2>2 DEF LeaseInvariant, TypeOK, LeaseIsWritten, Holds, Clock,
         CreateNewLock, Refuse, row
  <2>. QED
    BY <2>1, <2>2
<1>6. LeaseIsBounded'
  <2>1. /\ Lease \in Int /\ stamp[r] \in Int /\ stamp[r] <= Clock(r)
        /\ \A s \in Run : Clock(s) \in Int /\ Clock(s)' = Clock(s)
    BY LeaseLockAssumption, ClockType
       DEF LeaseInvariant, TypeOK, ReadEarlier, CreateNewLock, Clock
  <2>2. beat[r] = "off" /\ beat' = beat
    BY DEF LeaseInvariant, BeatIsLater, CreateNewLock, heart
  <2>3. ASSUME NEW s \in Run \ {r}
        PROVE  lease'[s] = lease[s] /\ pc'[s] = pc[s]
    BY DEF LeaseInvariant, TypeOK, CreateNewLock, Grant, Refuse
  <2>4. pc'[r] = "start" => lease'[r] = stamp[r] + Lease
    BY DEF LeaseInvariant, TypeOK, CreateNewLock, Grant, Refuse
  <2>. QED
    BY <2>1, <2>2, <2>3, <2>4 DEF LeaseInvariant, LeaseIsBounded
<1>7. BeatIsLater'
  BY DEF LeaseInvariant, TypeOK, BeatIsLater, CreateNewLock, Grant, Refuse,
     Forget, row, heart
<1>8. BeatIsOutdated'
  BY DEF LeaseInvariant, TypeOK, BeatIsOutdated, BeatIsLater, CreateNewLock,
     Grant, Refuse, Forget, row, heart
<1>. QED
  BY <1>1, <1>2, <1>3, <1>4, <1>5, <1>6, <1>7, <1>8 DEF LeaseInvariant

LEMMA TakeOverExpiredLockStep ==
  ASSUME LeaseInvariant, OneAtATime, NEW r \in Run, TakeOverExpiredLock(r)
  PROVE  LeaseInvariant'
<1>1. TypeOK'
  <2>1. Home[r] \in Instance /\ stamp[r] + Lease \in Int /\ version + 1 \in Nat
    BY LeaseLockAssumption DEF LeaseInvariant, TypeOK
  <2>2. /\ holder' \in Instance \cup {NoInstance} /\ expires' \in Int
        /\ version' \in Nat
    BY <2>1 DEF LeaseInvariant, TypeOK, TakeOverExpiredLock, Grant, Refuse, row
  <2>3. lease' \in [Run -> Int]
    BY <2>1 DEF LeaseInvariant, TypeOK, TakeOverExpiredLock, Grant, Refuse
  <2>4. /\ pc' \in [Run -> {"new", "insert", "takeover", "start", "run", "release",
                          "info", "free", "done"}]
        /\ stamp' \in [Run -> Int] /\ seen' \in [Run -> Nat]
    BY DEF LeaseInvariant, TypeOK, TakeOverExpiredLock, Grant, Refuse, Forget
  <2>. QED
    BY <2>2, <2>3, <2>4 DEF LeaseInvariant, TypeOK, TakeOverExpiredLock, heart
<1>2. OneActive'
  BY DEF LeaseInvariant, TypeOK, OneActive, Active, TakeOverExpiredLock, Grant,
     Refuse, Forget, row, heart
<1>3. ReadEarlier'
  BY DEF LeaseInvariant, TypeOK, ReadEarlier, Clock, TakeOverExpiredLock,
     Grant, Refuse, Forget, row, heart
<1>4. RowExists'
  BY DEF LeaseInvariant, TypeOK, RowExists, TakeOverExpiredLock, Grant, Refuse,
     Forget, row, heart
<1>5. LeaseIsWritten'
  <2> DEFINE free == version = seen[r] /\ expires < SafeNow(stamp[r])
  <2>1. CASE free
    <3>1. ASSUME NEW s \in Run \ {r}
          PROVE  ~Holds(s)'
      <4>1. /\ expires < stamp[r] - Margin /\ stamp[r] <= Clock(r)
            /\ Clock(s) >= Clock(r) - Margin
        BY <2>1, ClocksAgree
           DEF LeaseInvariant, SafeNow, ReadEarlier, TakeOverExpiredLock
      <4>2. /\ expires \in Int /\ lease[s] \in Int /\ stamp[r] \in Int
            /\ Margin \in Int /\ Clock(r) \in Int /\ Clock(s) \in Int
        BY LeaseLockAssumption, ClockType DEF LeaseInvariant, TypeOK
      <4>3. ~(lease[s] > Clock(s) /\ expires >= lease[s])
        BY <4>1, <4>2
      <4>4. ~Holds(s)
        BY <4>3 DEF LeaseInvariant, LeaseIsWritten, Holds
      <4>. QED
        BY <2>1, <4>4
           DEF LeaseInvariant, TypeOK, Holds, Clock, TakeOverExpiredLock, Grant
    <3>2. Holds(r)' => holder' = Home[r] /\ expires' >= lease'[r]
      <4>1. Holds(r)' => expires' = stamp[r] + Lease /\ lease'[r] = expires'
        BY <2>1 DEF LeaseInvariant, TypeOK, Holds, TakeOverExpiredLock, Grant
      <4>2. stamp[r] + Lease \in Int
        BY LeaseLockAssumption DEF LeaseInvariant, TypeOK
      <4>. QED
        BY <2>1, <4>1, <4>2 DEF TakeOverExpiredLock, Grant
    <3>. QED
      BY <3>1, <3>2 DEF LeaseIsWritten
  <2>2. CASE ~free
    BY <2>2 DEF LeaseInvariant, TypeOK, LeaseIsWritten, Holds, Clock,
         TakeOverExpiredLock, Refuse, row
  <2>. QED
    BY <2>1, <2>2
<1>6. LeaseIsBounded'
  <2>1. /\ Lease \in Int /\ stamp[r] \in Int /\ stamp[r] <= Clock(r)
        /\ \A s \in Run : Clock(s) \in Int /\ Clock(s)' = Clock(s)
    BY LeaseLockAssumption, ClockType
       DEF LeaseInvariant, TypeOK, ReadEarlier, TakeOverExpiredLock, Clock
  <2>2. beat[r] = "off" /\ beat' = beat
    BY DEF LeaseInvariant, BeatIsLater, TakeOverExpiredLock, heart
  <2>3. ASSUME NEW s \in Run \ {r}
        PROVE  lease'[s] = lease[s] /\ pc'[s] = pc[s]
    BY DEF LeaseInvariant, TypeOK, TakeOverExpiredLock, Grant, Refuse
  <2>4. pc'[r] = "start" => lease'[r] = stamp[r] + Lease
    BY DEF LeaseInvariant, TypeOK, TakeOverExpiredLock, Grant, Refuse
  <2>. QED
    BY <2>1, <2>2, <2>3, <2>4 DEF LeaseInvariant, LeaseIsBounded
<1>7. BeatIsLater'
  BY DEF LeaseInvariant, TypeOK, BeatIsLater, TakeOverExpiredLock, Grant,
     Refuse, Forget, row, heart
<1>8. BeatIsOutdated'
  BY DEF LeaseInvariant, TypeOK, BeatIsOutdated, BeatIsLater,
     TakeOverExpiredLock, Grant, Refuse, Forget, row, heart
<1>. QED
  BY <1>1, <1>2, <1>3, <1>4, <1>5, <1>6, <1>7, <1>8 DEF LeaseInvariant

LEMMA StartHeartbeatStep ==
  ASSUME LeaseInvariant, OneAtATime, NEW r \in Run, StartHeartbeat(r)
  PROVE  LeaseInvariant'
<1>1. TypeOK'
  <2>1. Home[r] \in Instance /\ now + Interval \in Int
    BY LeaseLockAssumption DEF LeaseInvariant, TypeOK
  <2>2. /\ canceler' \in [Instance -> Run \cup {NoRun}]
        /\ channel' \in [Instance -> Run \cup {NoRun}]
        /\ due' \in [Run -> Int] /\ stopped' \in [Run -> BOOLEAN]
    BY <2>1 DEF LeaseInvariant, TypeOK, StartHeartbeat
  <2>3. /\ pc' \in [Run -> {"new", "insert", "takeover", "start", "run", "release",
                          "info", "free", "done"}]
        /\ beat' \in [Run -> {"off", "wait", "refresh", "ending"}]
    BY DEF LeaseInvariant, TypeOK, StartHeartbeat
  <2>. QED
    BY <2>2, <2>3 DEF LeaseInvariant, TypeOK, StartHeartbeat, row, read
<1>2. OneActive'
  BY DEF LeaseInvariant, TypeOK, OneActive, Active, StartHeartbeat, row, read
<1>3. ReadEarlier'
  BY DEF LeaseInvariant, TypeOK, ReadEarlier, Clock, StartHeartbeat, row, read
<1>4. RowExists'
  BY DEF LeaseInvariant, TypeOK, RowExists, StartHeartbeat, row, read
<1>5. LeaseIsWritten'
  BY DEF LeaseInvariant, TypeOK, LeaseIsWritten, Holds, Clock, StartHeartbeat,
     row, read
<1>6. LeaseIsBounded'
  BY DEF LeaseInvariant, TypeOK, LeaseIsBounded, Clock, StartHeartbeat, row,
     read
<1>7. BeatIsLater'
  BY DEF LeaseInvariant, TypeOK, BeatIsLater, StartHeartbeat, row, read
<1>8. BeatIsOutdated'
  BY DEF LeaseInvariant, TypeOK, BeatIsOutdated, StartHeartbeat, row, read
<1>. QED
  BY <1>1, <1>2, <1>3, <1>4, <1>5, <1>6, <1>7, <1>8 DEF LeaseInvariant

LEMMA LookUpStep ==
  ASSUME LeaseInvariant, OneAtATime, NEW r \in Run, LookUp(r)
  PROVE  LeaseInvariant'
<1>1. TypeOK'
  <2>1. /\ beat' \in [Run -> {"off", "wait", "refresh", "ending"}]
        /\ told' \in [Run -> BOOLEAN]
        /\ channel' \in [Instance -> Run \cup {NoRun}]
    BY GiveUpType DEF LeaseInvariant, TypeOK, LookUp
  <2>2. Clock(r) \in Int /\ NextTick(r) \in Int
    BY ClockType, NextTickType DEF LeaseInvariant
  <2>3. /\ beatStamp' \in [Run -> Int] /\ beatSeen' \in [Run -> Nat]
        /\ due' \in [Run -> Int]
    BY <2>2 DEF LeaseInvariant, TypeOK, LookUp
  <2>. QED
    BY <2>1, <2>3 DEF LeaseInvariant, TypeOK, LookUp, row, read, job
<1>2. OneActive'
  BY DEF LeaseInvariant, TypeOK, OneActive, Active, LookUp, GiveUp,
     SendLockLost, row, read, job
<1>3. ReadEarlier'
  BY DEF LeaseInvariant, TypeOK, ReadEarlier, Clock, LookUp, GiveUp,
     SendLockLost, row, read, job
<1>4. RowExists'
  BY DEF LeaseInvariant, TypeOK, RowExists, LookUp, GiveUp, SendLockLost, row,
     read, job
<1>5. LeaseIsWritten'
  BY DEF LeaseInvariant, TypeOK, LeaseIsWritten, Holds, Clock, LookUp, GiveUp,
     SendLockLost, row, read, job
<1>6. LeaseIsBounded'
  BY DEF LeaseInvariant, TypeOK, LeaseIsBounded, Clock, LookUp, GiveUp,
     SendLockLost, row, read, job
<1>7. BeatIsLater'
  BY DEF LeaseInvariant, TypeOK, BeatIsLater, LookUp, GiveUp, SendLockLost,
     row, read, job
<1>8. BeatIsOutdated'
  BY ClockType DEF LeaseInvariant, TypeOK, BeatIsOutdated, Halted, OneActive,
     Active, BeatIsLater, LeaseIsBounded, LookUp, GiveUp, SendLockLost, row,
     read, job
<1>. QED
  BY <1>1, <1>2, <1>3, <1>4, <1>5, <1>6, <1>7, <1>8 DEF LeaseInvariant

LEMMA RefreshLockStep ==
  ASSUME LeaseInvariant, OneAtATime, NEW r \in Run, RefreshLock(r)
  PROVE  LeaseInvariant'
<1>1. TypeOK'
  <2> PICK t \in beatStamp[r]..Clock(r) :
         IF Refreshable(r, t)
           THEN /\ expires' = t + Lease
                /\ version' = version + 1
                /\ \/ /\ lease' = [lease EXCEPT ![r] = t + Lease]
                      /\ beat' = [beat EXCEPT ![r] = "wait"]
                      /\ UNCHANGED <<told, channel>>
                   \/ GiveUp(r) /\ UNCHANGED lease
           ELSE GiveUp(r) /\ UNCHANGED <<expires, version, lease>>
    BY DEF RefreshLock
  <2>1. /\ t \in Int /\ beatStamp[r] <= t /\ t <= Clock(r)
        /\ beatStamp[r] \in Int /\ Clock(r) \in Int /\ Lease \in Int
    BY LeaseLockAssumption, ClockType DEF LeaseInvariant, TypeOK
  <2>2. /\ beat' \in [Run -> {"off", "wait", "refresh", "ending"}]
        /\ told' \in [Run -> BOOLEAN]
        /\ channel' \in [Instance -> Run \cup {NoRun}]
    BY GiveUpType DEF LeaseInvariant, TypeOK
  <2>3. expires' \in Int /\ version' \in Nat /\ lease' \in [Run -> Int]
    BY <2>1 DEF LeaseInvariant, TypeOK
  <2>4. beatStamp' \in [Run -> Int] /\ beatSeen' \in [Run -> Nat]
    BY DEF LeaseInvariant, TypeOK, RefreshLock, ForgetBeat
  <2>. QED
    BY <2>2, <2>3, <2>4 DEF LeaseInvariant, TypeOK, RefreshLock, read
<1>2. OneActive'
  BY DEF LeaseInvariant, TypeOK, OneActive, Active, RefreshLock, GiveUp,
     SendLockLost, ForgetBeat, read
<1>3. ReadEarlier'
  BY DEF LeaseInvariant, TypeOK, ReadEarlier, Clock, RefreshLock, GiveUp,
     SendLockLost, ForgetBeat, read
<1>4. RowExists'
  BY DEF LeaseInvariant, TypeOK, RowExists, RefreshLock, GiveUp, SendLockLost,
     ForgetBeat, read
<1>5. LeaseIsWritten'
  <2> PICK t \in beatStamp[r]..Clock(r) :
         IF Refreshable(r, t)
           THEN /\ expires' = t + Lease
                /\ version' = version + 1
                /\ \/ /\ lease' = [lease EXCEPT ![r] = t + Lease]
                      /\ beat' = [beat EXCEPT ![r] = "wait"]
                      /\ UNCHANGED <<told, channel>>
                   \/ GiveUp(r) /\ UNCHANGED lease
           ELSE GiveUp(r) /\ UNCHANGED <<expires, version, lease>>
    BY DEF RefreshLock
  <2>1. /\ t \in Int /\ beatStamp[r] <= t /\ t <= Clock(r)
        /\ beatStamp[r] \in Int /\ Clock(r) \in Int /\ Lease \in Int
    BY LeaseLockAssumption, ClockType DEF LeaseInvariant, TypeOK
  <2>2. CASE ~Refreshable(r, t)
    BY <2>2 DEF LeaseInvariant, LeaseIsWritten, Holds, Clock, RefreshLock
  <2>3. CASE Refreshable(r, t)
    <3>1. ASSUME NEW s \in Run, Holds(s)'
          PROVE  holder' = Home[s] /\ expires' >= lease'[s]
      <4>1. pc[s] = pc'[s] /\ Clock(s) = Clock(s)'
        BY DEF RefreshLock, Clock
      <4>2. CASE s = r /\ lease'[r] = t + Lease
        BY <2>1, <2>3, <4>2 DEF RefreshLock, Refreshable
      <4>3. CASE lease'[s] = lease[s]
        <5>1. Holds(s)
          BY <3>1, <4>1, <4>3 DEF Holds
        <5>2. holder = Home[s] /\ holder = Home[r] /\ version = beatSeen[r]
          BY <2>3, <5>1 DEF LeaseInvariant, LeaseIsWritten, Refreshable
        <5>3. s = r
          <6>1. s # r => beatSeen[r] < version
            BY <5>1, <5>2
               DEF LeaseInvariant, BeatIsOutdated, Holds, RefreshLock
          <6>2. version \in Nat
            BY DEF LeaseInvariant, TypeOK
          <6>. QED
            BY <5>2, <6>1, <6>2
        <5>4. lease[r] <= beatStamp[r] + Lease /\ lease[r] \in Int
          BY DEF LeaseInvariant, TypeOK, BeatIsOutdated, RefreshLock
        <5>5. expires' = t + Lease /\ holder' = holder
          BY <2>3 DEF RefreshLock
        <5>. QED
          BY <2>1, <4>3, <5>2, <5>3, <5>4, <5>5
      <4>4. lease'[s] = lease[s] \/ (s = r /\ lease'[r] = t + Lease)
        BY <2>3 DEF LeaseInvariant, TypeOK
      <4>. QED
        BY <4>2, <4>3, <4>4
    <3>. QED
      BY <3>1 DEF LeaseIsWritten
  <2>. QED
    BY <2>2, <2>3
<1>6. LeaseIsBounded'
  <2> PICK t \in beatStamp[r]..Clock(r) :
         IF Refreshable(r, t)
           THEN /\ expires' = t + Lease
                /\ version' = version + 1
                /\ \/ /\ lease' = [lease EXCEPT ![r] = t + Lease]
                      /\ beat' = [beat EXCEPT ![r] = "wait"]
                      /\ UNCHANGED <<told, channel>>
                   \/ GiveUp(r) /\ UNCHANGED lease
           ELSE GiveUp(r) /\ UNCHANGED <<expires, version, lease>>
    BY DEF RefreshLock
  <2>1. /\ t \in Int /\ beatStamp[r] <= t /\ t <= Clock(r)
        /\ beatStamp[r] \in Int /\ Clock(r) \in Int /\ Lease \in Int
    BY LeaseLockAssumption, ClockType DEF LeaseInvariant, TypeOK
  <2>2. ASSUME NEW s \in Run
        PROVE  Clock(s)' = Clock(s) /\ Clock(s) \in Int /\ pc'[s] = pc[s]
               /\ (s # r => beat'[s] = beat[s] /\ lease'[s] = lease[s])
    BY ClockType DEF LeaseInvariant, TypeOK, RefreshLock, GiveUp, Clock
  <2>3. lease'[r] = lease[r] \/ lease'[r] = t + Lease
    BY DEF LeaseInvariant, TypeOK
  <2>4. beat[r] # "off"
    BY DEF RefreshLock
  <2>. QED
    BY <2>1, <2>2, <2>3, <2>4 DEF LeaseInvariant, LeaseIsBounded
<1>7. BeatIsLater'
  BY DEF LeaseInvariant, TypeOK, BeatIsLater, RefreshLock, GiveUp,
     SendLockLost, ForgetBeat, read
<1>8. BeatIsOutdated'
  BY DEF LeaseInvariant, TypeOK, BeatIsOutdated, RefreshLock, GiveUp,
     SendLockLost, ForgetBeat, read
<1>. QED
  BY <1>1, <1>2, <1>3, <1>4, <1>5, <1>6, <1>7, <1>8 DEF LeaseInvariant

LEMMA HeartbeatFailsStep ==
  ASSUME LeaseInvariant, OneAtATime, NEW r \in Run, HeartbeatFails(r)
  PROVE  LeaseInvariant'
<1>1. TypeOK'
  <2>1. /\ beat' \in [Run -> {"off", "wait", "refresh", "ending"}]
        /\ told' \in [Run -> BOOLEAN]
        /\ channel' \in [Instance -> Run \cup {NoRun}]
    BY GiveUpType DEF LeaseInvariant, HeartbeatFails
  <2>2. beatStamp' \in [Run -> Int] /\ beatSeen' \in [Run -> Nat]
    BY DEF LeaseInvariant, TypeOK, HeartbeatFails, ForgetBeat
  <2>. QED
    BY <2>1, <2>2 DEF LeaseInvariant, TypeOK, HeartbeatFails, row, read, job
<1>2. OneActive'
  BY DEF LeaseInvariant, TypeOK, OneActive, Active, HeartbeatFails, GiveUp,
     SendLockLost, ForgetBeat, row, read, job
<1>3. ReadEarlier'
  BY DEF LeaseInvariant, TypeOK, ReadEarlier, Clock, HeartbeatFails, GiveUp,
     SendLockLost, ForgetBeat, row, read, job
<1>4. RowExists'
  BY DEF LeaseInvariant, TypeOK, RowExists, HeartbeatFails, GiveUp,
     SendLockLost, ForgetBeat, row, read, job
<1>5. LeaseIsWritten'
  BY DEF LeaseInvariant, TypeOK, LeaseIsWritten, Holds, Clock, HeartbeatFails,
     GiveUp, SendLockLost, ForgetBeat, row, read, job
<1>6. LeaseIsBounded'
  BY DEF LeaseInvariant, TypeOK, LeaseIsBounded, Clock, HeartbeatFails, GiveUp,
     SendLockLost, ForgetBeat, row, read, job
<1>7. BeatIsLater'
  BY DEF LeaseInvariant, TypeOK, BeatIsLater, HeartbeatFails, GiveUp,
     SendLockLost, ForgetBeat, row, read, job
<1>8. BeatIsOutdated'
  BY DEF LeaseInvariant, TypeOK, BeatIsOutdated, HeartbeatFails, GiveUp,
     SendLockLost, ForgetBeat, row, read, job
<1>. QED
  BY <1>1, <1>2, <1>3, <1>4, <1>5, <1>6, <1>7, <1>8 DEF LeaseInvariant

LEMMA NoticeHaltStep ==
  ASSUME LeaseInvariant, OneAtATime, NEW r \in Run, NoticeHalt(r)
  PROVE  LeaseInvariant'
<1>1. TypeOK'
  BY LeaseLockAssumption DEF LeaseInvariant, TypeOK, NoticeHalt, row, read, job
<1>2. OneActive'
  BY DEF LeaseInvariant, TypeOK, OneActive, Active, NoticeHalt, row, read, job
<1>3. ReadEarlier'
  BY DEF LeaseInvariant, TypeOK, ReadEarlier, Clock, NoticeHalt, row, read, job
<1>4. RowExists'
  BY DEF LeaseInvariant, TypeOK, RowExists, NoticeHalt, row, read, job
<1>5. LeaseIsWritten'
  BY DEF LeaseInvariant, TypeOK, LeaseIsWritten, Holds, Clock, NoticeHalt, row,
     read, job
<1>6. LeaseIsBounded'
  BY DEF LeaseInvariant, TypeOK, LeaseIsBounded, Clock, NoticeHalt, row, read,
     job
<1>7. BeatIsLater'
  BY DEF LeaseInvariant, TypeOK, BeatIsLater, NoticeHalt, row, read, job
<1>8. BeatIsOutdated'
  BY DEF LeaseInvariant, TypeOK, BeatIsOutdated, NoticeHalt, row, read, job
<1>. QED
  BY <1>1, <1>2, <1>3, <1>4, <1>5, <1>6, <1>7, <1>8 DEF LeaseInvariant

LEMMA EndHeartbeatStep ==
  ASSUME LeaseInvariant, OneAtATime, NEW r \in Run, EndHeartbeat(r)
  PROVE  LeaseInvariant'
<1>1. TypeOK'
  BY LeaseLockAssumption DEF LeaseInvariant, TypeOK, EndHeartbeat, row, read,
     job
<1>2. OneActive'
  BY DEF LeaseInvariant, TypeOK, OneActive, Active, EndHeartbeat, row, read,
     job
<1>3. ReadEarlier'
  BY DEF LeaseInvariant, TypeOK, ReadEarlier, Clock, EndHeartbeat, row, read,
     job
<1>4. RowExists'
  BY DEF LeaseInvariant, TypeOK, RowExists, EndHeartbeat, row, read, job
<1>5. LeaseIsWritten'
  BY DEF LeaseInvariant, TypeOK, LeaseIsWritten, Holds, Clock, EndHeartbeat,
     row, read, job
<1>6. LeaseIsBounded'
  BY DEF LeaseInvariant, TypeOK, LeaseIsBounded, Clock, EndHeartbeat, row,
     read, job
<1>7. BeatIsLater'
  BY DEF LeaseInvariant, TypeOK, BeatIsLater, EndHeartbeat, row, read, job
<1>8. BeatIsOutdated'
  BY DEF LeaseInvariant, TypeOK, BeatIsOutdated, EndHeartbeat, row, read, job
<1>. QED
  BY <1>1, <1>2, <1>3, <1>4, <1>5, <1>6, <1>7, <1>8 DEF LeaseInvariant

LEMMA CancelJobStep ==
  ASSUME LeaseInvariant, OneAtATime, NEW r \in Run, CancelJob(r)
  PROVE  LeaseInvariant'
<1>1. TypeOK'
  BY LeaseLockAssumption DEF LeaseInvariant, TypeOK, CancelJob, row, read, job,
     heart
<1>2. OneActive'
  BY DEF LeaseInvariant, TypeOK, OneActive, Active, CancelJob, row, read, job,
     heart
<1>3. ReadEarlier'
  BY DEF LeaseInvariant, TypeOK, ReadEarlier, Clock, CancelJob, row, read, job,
     heart
<1>4. RowExists'
  BY DEF LeaseInvariant, TypeOK, RowExists, CancelJob, row, read, job, heart
<1>5. LeaseIsWritten'
  BY DEF LeaseInvariant, TypeOK, LeaseIsWritten, Holds, Clock, CancelJob, row,
     read, job, heart
<1>6. LeaseIsBounded'
  BY DEF LeaseInvariant, TypeOK, LeaseIsBounded, Clock, CancelJob, row, read,
     job, heart
<1>7. BeatIsLater'
  BY DEF LeaseInvariant, TypeOK, BeatIsLater, CancelJob, row, read, job, heart
<1>8. BeatIsOutdated'
  BY DEF LeaseInvariant, TypeOK, BeatIsOutdated, CancelJob, row, read, job,
     heart
<1>. QED
  BY <1>1, <1>2, <1>3, <1>4, <1>5, <1>6, <1>7, <1>8 DEF LeaseInvariant

LEMMA JobTimeoutStep ==
  ASSUME LeaseInvariant, OneAtATime, NEW r \in Run, JobTimeout(r)
  PROVE  LeaseInvariant'
<1>1. TypeOK'
  BY LeaseLockAssumption DEF LeaseInvariant, TypeOK, JobTimeout, row, read,
     job, heart
<1>2. OneActive'
  BY DEF LeaseInvariant, TypeOK, OneActive, Active, JobTimeout, row, read, job,
     heart
<1>3. ReadEarlier'
  BY DEF LeaseInvariant, TypeOK, ReadEarlier, Clock, JobTimeout, row, read,
     job, heart
<1>4. RowExists'
  BY DEF LeaseInvariant, TypeOK, RowExists, JobTimeout, row, read, job, heart
<1>5. LeaseIsWritten'
  BY DEF LeaseInvariant, TypeOK, LeaseIsWritten, Holds, Clock, JobTimeout, row,
     read, job, heart
<1>6. LeaseIsBounded'
  BY DEF LeaseInvariant, TypeOK, LeaseIsBounded, Clock, JobTimeout, row, read,
     job, heart
<1>7. BeatIsLater'
  BY DEF LeaseInvariant, TypeOK, BeatIsLater, JobTimeout, row, read, job, heart
<1>8. BeatIsOutdated'
  BY DEF LeaseInvariant, TypeOK, BeatIsOutdated, JobTimeout, row, read, job,
     heart
<1>. QED
  BY <1>1, <1>2, <1>3, <1>4, <1>5, <1>6, <1>7, <1>8 DEF LeaseInvariant

LEMMA FinishJobStep ==
  ASSUME LeaseInvariant, OneAtATime, NEW r \in Run, FinishJob(r)
  PROVE  LeaseInvariant'
<1>1. TypeOK'
  BY LeaseLockAssumption DEF LeaseInvariant, TypeOK, FinishJob, row, read,
     heart
<1>2. OneActive'
  BY DEF LeaseInvariant, TypeOK, OneActive, Active, FinishJob, row, read, heart
<1>3. ReadEarlier'
  BY DEF LeaseInvariant, TypeOK, ReadEarlier, Clock, FinishJob, row, read,
     heart
<1>4. RowExists'
  BY DEF LeaseInvariant, TypeOK, RowExists, FinishJob, row, read, heart
<1>5. LeaseIsWritten'
  BY DEF LeaseInvariant, TypeOK, LeaseIsWritten, Holds, Clock, FinishJob, row,
     read, heart
<1>6. LeaseIsBounded'
  BY DEF LeaseInvariant, TypeOK, LeaseIsBounded, Clock, FinishJob, row, read,
     heart
<1>7. BeatIsLater'
  BY DEF LeaseInvariant, TypeOK, BeatIsLater, FinishJob, row, read, heart
<1>8. BeatIsOutdated'
  BY DEF LeaseInvariant, TypeOK, BeatIsOutdated, FinishJob, row, read, heart
<1>. QED
  BY <1>1, <1>2, <1>3, <1>4, <1>5, <1>6, <1>7, <1>8 DEF LeaseInvariant

LEMMA CleanupLockResourcesStep ==
  ASSUME LeaseInvariant, OneAtATime, NEW r \in Run, CleanupLockResources(r)
  PROVE  LeaseInvariant'
<1>1. TypeOK'
  BY LeaseLockAssumption DEF LeaseInvariant, TypeOK, CleanupLockResources, row,
     read, heart
<1>2. OneActive'
  BY DEF LeaseInvariant, TypeOK, OneActive, Active, CleanupLockResources, row,
     read, heart
<1>3. ReadEarlier'
  BY DEF LeaseInvariant, TypeOK, ReadEarlier, Clock, CleanupLockResources, row,
     read, heart
<1>4. RowExists'
  BY DEF LeaseInvariant, TypeOK, RowExists, CleanupLockResources, row, read,
     heart
<1>5. LeaseIsWritten'
  BY DEF LeaseInvariant, TypeOK, LeaseIsWritten, Holds, Clock,
     CleanupLockResources, row, read, heart
<1>6. LeaseIsBounded'
  BY DEF LeaseInvariant, TypeOK, LeaseIsBounded, Clock, CleanupLockResources,
     row, read, heart
<1>7. BeatIsLater'
  BY DEF LeaseInvariant, TypeOK, BeatIsLater, CleanupLockResources, row, read,
     heart
<1>8. BeatIsOutdated'
  BY DEF LeaseInvariant, TypeOK, BeatIsOutdated, CleanupLockResources, row,
     read, heart
<1>. QED
  BY <1>1, <1>2, <1>3, <1>4, <1>5, <1>6, <1>7, <1>8 DEF LeaseInvariant

LEMMA GetLockInfoStep ==
  ASSUME LeaseInvariant, OneAtATime, NEW r \in Run, GetLockInfo(r)
  PROVE  LeaseInvariant'
<1>1. TypeOK'
  BY LeaseLockAssumption, ClockType DEF LeaseInvariant, TypeOK, GetLockInfo,
     row, heart
<1>2. OneActive'
  BY DEF LeaseInvariant, TypeOK, OneActive, Active, GetLockInfo, row, heart
<1>3. ReadEarlier'
  BY DEF LeaseInvariant, TypeOK, ReadEarlier, Clock, GetLockInfo, row, heart
<1>4. RowExists'
  BY DEF LeaseInvariant, TypeOK, RowExists, GetLockInfo, row, heart
<1>5. LeaseIsWritten'
  BY DEF LeaseInvariant, TypeOK, LeaseIsWritten, Holds, Clock, GetLockInfo,
     row, heart
<1>6. LeaseIsBounded'
  BY DEF LeaseInvariant, TypeOK, LeaseIsBounded, Clock, GetLockInfo, row, heart
<1>7. BeatIsLater'
  BY DEF LeaseInvariant, TypeOK, BeatIsLater, GetLockInfo, row, heart
<1>8. BeatIsOutdated'
  BY DEF LeaseInvariant, TypeOK, BeatIsOutdated, GetLockInfo, row, heart
<1>. QED
  BY <1>1, <1>2, <1>3, <1>4, <1>5, <1>6, <1>7, <1>8 DEF LeaseInvariant

LEMMA ReleaseLockStep ==
  ASSUME LeaseInvariant, OneAtATime, NEW r \in Run, ReleaseLock(r)
  PROVE  LeaseInvariant'
<1>1. TypeOK'
  BY LeaseLockAssumption DEF LeaseInvariant, TypeOK, ReleaseLock, Forget, heart
<1>2. OneActive'
  BY DEF LeaseInvariant, TypeOK, OneActive, Active, ReleaseLock, Forget, heart
<1>3. ReadEarlier'
  BY DEF LeaseInvariant, TypeOK, ReadEarlier, Clock, ReleaseLock, Forget, heart
<1>4. RowExists'
  BY DEF LeaseInvariant, TypeOK, RowExists, ReleaseLock, Forget, heart
<1>5. LeaseIsWritten'
  BY DEF LeaseInvariant, TypeOK, LeaseIsWritten, Holds, Clock, OneActive,
     Active, Releasable, ReleaseLock, Forget, heart
<1>6. LeaseIsBounded'
  BY DEF LeaseInvariant, TypeOK, LeaseIsBounded, Clock, ReleaseLock, Forget,
     heart
<1>7. BeatIsLater'
  BY DEF LeaseInvariant, TypeOK, BeatIsLater, ReleaseLock, Forget, heart
<1>8. BeatIsOutdated'
  BY DEF LeaseInvariant, TypeOK, BeatIsOutdated, ReleaseLock, Forget, heart
<1>. QED
  BY <1>1, <1>2, <1>3, <1>4, <1>5, <1>6, <1>7, <1>8 DEF LeaseInvariant

LEMMA ReleaseFailsStep ==
  ASSUME LeaseInvariant, OneAtATime, NEW r \in Run, ReleaseFails(r)
  PROVE  LeaseInvariant'
<1>1. TypeOK'
  BY LeaseLockAssumption DEF LeaseInvariant, TypeOK, ReleaseFails, Forget, row,
     heart
<1>2. OneActive'
  BY DEF LeaseInvariant, TypeOK, OneActive, Active, ReleaseFails, Forget, row,
     heart
<1>3. ReadEarlier'
  BY DEF LeaseInvariant, TypeOK, ReadEarlier, Clock, ReleaseFails, Forget, row,
     heart
<1>4. RowExists'
  BY DEF LeaseInvariant, TypeOK, RowExists, ReleaseFails, Forget, row, heart
<1>5. LeaseIsWritten'
  BY DEF LeaseInvariant, TypeOK, LeaseIsWritten, Holds, Clock, ReleaseFails,
     Forget, row, heart
<1>6. LeaseIsBounded'
  BY DEF LeaseInvariant, TypeOK, LeaseIsBounded, Clock, ReleaseFails, Forget,
     row, heart
<1>7. BeatIsLater'
  BY DEF LeaseInvariant, TypeOK, BeatIsLater, ReleaseFails, Forget, row, heart
<1>8. BeatIsOutdated'
  BY DEF LeaseInvariant, TypeOK, BeatIsOutdated, ReleaseFails, Forget, row,
     heart
<1>. QED
  BY <1>1, <1>2, <1>3, <1>4, <1>5, <1>6, <1>7, <1>8 DEF LeaseInvariant

LEMMA CrashStep ==
  ASSUME LeaseInvariant, NEW i \in Instance, Crash(i)
  PROVE  LeaseInvariant'
<1>1. TypeOK'
  <2>1. /\ pc' \in [Run -> {"new", "insert", "takeover", "start", "run", "release",
                          "info", "free", "done"}]
        /\ ctx' \in [Run -> {"live", "cancelled", "deadline"}]
        /\ beat' \in [Run -> {"off", "wait", "refresh", "ending"}]
    BY DEF LeaseInvariant, TypeOK, Crash
  <2>2. /\ stamp' \in [Run -> Int] /\ seen' \in [Run -> Nat]
        /\ lease' \in [Run -> Int] /\ due' \in [Run -> Int]
        /\ beatStamp' \in [Run -> Int] /\ beatSeen' \in [Run -> Nat]
    BY DEF LeaseInvariant, TypeOK, Crash
  <2>3. told' \in [Run -> BOOLEAN] /\ stopped' \in [Run -> BOOLEAN]
    BY Zenon DEF LeaseInvariant, TypeOK, Crash
  <2>4. /\ canceler' \in [Instance -> Run \cup {NoRun}]
        /\ channel' \in [Instance -> Run \cup {NoRun}]
    BY DEF LeaseInvariant, TypeOK, Crash
  <2>. QED
    BY <2>1, <2>2, <2>3, <2>4 DEF LeaseInvariant, TypeOK, Crash, row
<1>2. ASSUME NEW r \in Run, Home[r] = i
      PROVE  pc'[r] = "done" /\ beat'[r] = "off"
  BY <1>2 DEF Crash
<1>3. ASSUME NEW r \in Run, Home[r] # i
      PROVE  /\ pc'[r] = pc[r] /\ stamp'[r] = stamp[r] /\ lease'[r] = lease[r]
             /\ beat'[r] = beat[r] /\ beatStamp'[r] = beatStamp[r]
             /\ beatSeen'[r] = beatSeen[r]
  BY <1>3 DEF Crash
<1>4. /\ now' = now /\ holder' = holder /\ expires' = expires
      /\ version' = version
  BY DEF Crash, row
<1>5. OneActive' /\ RowExists' /\ BeatIsLater'
  BY <1>2, <1>3, <1>4
     DEF LeaseInvariant, OneActive, RowExists, BeatIsLater, Active
<1>6. ReadEarlier' /\ LeaseIsWritten' /\ LeaseIsBounded'
  BY <1>2, <1>3, <1>4
     DEF LeaseInvariant, ReadEarlier, LeaseIsWritten, LeaseIsBounded, Holds, Clock
<1>7. BeatIsOutdated'
  BY <1>2, <1>3, <1>4 DEF LeaseInvariant, BeatIsOutdated
<1>. QED
  BY <1>1, <1>5, <1>6, <1>7 DEF LeaseInvariant

LEMMA TickStep ==
  ASSUME LeaseInvariant, Tick
  PROVE  LeaseInvariant'
<1>1. TypeOK'
  BY DEF LeaseInvariant, TypeOK, Tick, row, read, job, heart
<1>2. ASSUME NEW r \in Run
      PROVE  Clock(r) \in Int /\ Clock(r)' = Clock(r) + 1
  BY ClockType DEF LeaseInvariant, TypeOK, Tick, Clock
<1>3. OneActive' /\ RowExists' /\ BeatIsLater' /\ BeatIsOutdated'
  BY DEF LeaseInvariant, OneActive, RowExists, BeatIsLater, BeatIsOutdated,
       Active, Tick, row, read, job, heart
<1>4. ReadEarlier'
  BY <1>2 DEF LeaseInvariant, TypeOK, ReadEarlier, Tick, read, job
<1>5. LeaseIsWritten'
  BY <1>2 DEF LeaseInvariant, TypeOK, LeaseIsWritten, Holds, Tick, row, job
<1>6. LeaseIsBounded'
  <2>1. Lease \in Int
    BY LeaseLockAssumption
  <2>. QED
    BY <1>2, <2>1 DEF LeaseInvariant, TypeOK, LeaseIsBounded, Tick, job, heart
<1>. QED
  BY <1>1, <1>3, <1>4, <1>5, <1>6 DEF LeaseInvariant

-------------------------------------------------------------------------------
LEMMA InitInvariant ==
  ASSUME Init
  PROVE  LeaseInvariant
<1>1. TypeOK
  BY DEF Init, TypeOK
<1>2. OneActive /\ ReadEarlier /\ RowExists /\ LeaseIsWritten
  BY DEF Init, OneActive, ReadEarlier, RowExists, LeaseIsWritten, Active, Holds
<1>3. LeaseIsBounded /\ BeatIsLater /\ BeatIsOutdated
  BY DEF Init, LeaseIsBounded, BeatIsLater, BeatIsOutdated
<1>. QED
  BY <1>1, <1>2, <1>3 DEF LeaseInvariant

LEMMA NextInvariant ==
  ASSUME LeaseInvariant, OneAtATime, [Next]_vars
  PROVE  LeaseInvariant'
<1>1. CASE UNCHANGED vars
  BY <1>1 DEF LeaseInvariant, TypeOK, OneActive, ReadEarlier, RowExists,
       LeaseIsWritten, LeaseIsBounded, BeatIsLater, BeatIsOutdated,
       Active, Holds, Clock, vars, row, read, job, heart
<1>2. ASSUME NEW r \in Run, Acquire(r)
      PROVE  LeaseInvariant'
  BY <1>2, FindExistingLockStep, CreateNewLockStep, TakeOverExpiredLockStep,
     StartHeartbeatStep DEF Acquire
<1>3. ASSUME NEW r \in Run, Heartbeat(r)
      PROVE  LeaseInvariant'
  BY <1>3, LookUpStep, RefreshLockStep, HeartbeatFailsStep, NoticeHaltStep,
     EndHeartbeatStep DEF Heartbeat
<1>4. ASSUME NEW r \in Run, Job(r)
      PROVE  LeaseInvariant'
  BY <1>4, CancelJobStep, JobTimeoutStep, FinishJobStep,
     CleanupLockResourcesStep, GetLockInfoStep, ReleaseLockStep,
     ReleaseFailsStep DEF Job
<1>. QED
  BY <1>1, <1>2, <1>3, <1>4, CrashStep, TickStep DEF Next

(* The invariant holds of a lock that is used by one run at a time of an      *)
(* instance.                                                                  *)
THEOREM Invariance ==
  ASSUME OneAtATime
  PROVE  Spec => []LeaseInvariant
<1>1. Init => LeaseInvariant
  BY InitInvariant
<1>2. LeaseInvariant /\ [Next]_vars => LeaseInvariant'
  BY NextInvariant
<1>. QED
  BY <1>1, <1>2, PTL DEF Spec

(* Two instances never hold such a lock at once, whatever is delayed, lost or *)
(* crashes, and however the clocks differ within the margin.                  *)
THEOREM ExclusiveLease ==
  ASSUME OneAtATime
  PROVE  Spec => []LeaseIsExclusive
<1>1. LeaseInvariant => LeaseIsExclusive
  BY DEF LeaseInvariant, LeaseIsWritten, LeaseIsExclusive
<1>. QED
  BY <1>1, Invariance, PTL

(* Every variable keeps its type.                                             *)
THEOREM LeaseTypes ==
  ASSUME OneAtATime
  PROVE  Spec => []TypeOK
<1>1. LeaseInvariant => TypeOK
  BY DEF LeaseInvariant
<1>. QED
  BY <1>1, Invariance, PTL

-------------------------------------------------------------------------------
(* No step is late, a heartbeat comes before the lease ends, and one job uses *)
(* the lock, as often as it likes.                                            *)
PunctualAssumption == Punctual /\ Interval <= Lease /\ ~Shared

(* A run that another one takes the lock over from, or creates it before, has *)
(* not kept it.                                                               *)
LEMMA NotTakenOver ==
  ASSUME LeaseInvariant, KeptInvariant, NEW r \in Run, NEW s \in Run,
         \/ pc[s] = "start"
         \/ pc[s] = "run" /\ ctx[s] = "live" /\ ~Orphaned(s)
  PROVE  /\ version # 0
         /\ pc[r] = "takeover" => ~(expires < SafeNow(stamp[r]))
<1>1. version # 0
  BY DEF LeaseInvariant, TypeOK, RowExists
<1>2. /\ Clock(r) \in Int /\ Clock(s) \in Int /\ Lease \in Nat /\ Margin \in Nat
      /\ expires \in Int /\ Clock(s) >= Clock(r) - Margin
  BY LeaseLockAssumption, ClockType, ClocksAgree DEF LeaseInvariant, TypeOK
<1>3. Clock(s) <= expires
  BY <1>2 DEF KeptInvariant, GrantedNow, KeptWhileLive
<1>4. pc[r] = "takeover" => stamp[r] = Clock(r)
  BY DEF KeptInvariant, ReadNow
<1>. QED
  BY <1>1, <1>2, <1>3, <1>4 DEF SafeNow

LEMMA FindExistingLockKeeps ==
  ASSUME LeaseInvariant, KeptInvariant, PunctualAssumption, NEW r \in Run,
         FindExistingLock(r)
  PROVE  KeptInvariant'
<1>1. ReadNow' /\ RegisteredAtHome'
  BY ClockType DEF LeaseInvariant, TypeOK, KeptInvariant, ReadNow,
     RegisteredAtHome, Clock, FindExistingLock, row, heart
<1>2. NotToldEarly' /\ GrantedNow'
  BY DEF LeaseInvariant, TypeOK, KeptInvariant, NotToldEarly, GrantedNow, Clock,
     FindExistingLock, row, heart
<1>3. KeptWhileLive'
  BY DEF LeaseInvariant, TypeOK, KeptInvariant, KeptWhileLive, Orphaned, Beating, Clock,
     FindExistingLock, row, heart
<1>. QED
  BY <1>1, <1>2, <1>3 DEF KeptInvariant

(* What the two ways to be granted the lock have in common.                   *)
LEMMA GrantKeeps ==
  ASSUME LeaseInvariant, KeptInvariant, PunctualAssumption, NEW r \in Run,
         pc[r] \in {"insert", "takeover"}, Forget(r),
         \/ /\ version = 0 \/ (pc[r] = "takeover" /\ expires < SafeNow(stamp[r]))
            /\ Grant(r)
         \/ Refuse(r),
         UNCHANGED <<now, ctx, told, heart, stopped, canceler, channel>>
  PROVE  KeptInvariant'
<1>1. ASSUME NEW s \in Run
      PROVE  Clock(s)' = Clock(s) /\ (s # r => pc'[s] = pc[s] /\ stamp'[s] = stamp[s])
  BY DEF LeaseInvariant, TypeOK, Grant, Refuse, Forget, Clock
<1>2. pc'[r] \in {"start", "done"}
  BY DEF LeaseInvariant, TypeOK, Grant, Refuse
<1>3. ReadNow' /\ RegisteredAtHome'
  BY <1>1, <1>2 DEF KeptInvariant, ReadNow, RegisteredAtHome, heart
<1>4. NotToldEarly'
  BY <1>1, <1>2 DEF KeptInvariant, NotToldEarly
<1>5. CASE /\ version = 0 \/ (pc[r] = "takeover" /\ expires < SafeNow(stamp[r]))
           /\ Grant(r)
  <2>1. ASSUME NEW s \in Run
        PROVE  ~(\/ pc[s] = "start"
                 \/ pc[s] = "run" /\ ctx[s] = "live" /\ ~Orphaned(s))
    BY <1>5, NotTakenOver
  <2>2. pc'[r] = "start" => holder' = Home[r] /\ expires' = Clock(r)' + Lease
    BY <1>1, <1>5 DEF KeptInvariant, ReadNow, Grant
  <2>3. GrantedNow'
    BY <1>1, <2>1, <2>2 DEF GrantedNow
  <2>4. KeptWhileLive'
    BY <1>1, <1>2, <2>1 DEF KeptWhileLive, Orphaned
  <2>. QED
    BY <1>3, <1>4, <2>3, <2>4 DEF KeptInvariant
<1>6. CASE Refuse(r)
  <2>1. UNCHANGED row /\ pc'[r] = "done"
    BY <1>6 DEF LeaseInvariant, TypeOK, Refuse
  <2>2. GrantedNow'
    BY <1>1, <2>1 DEF KeptInvariant, GrantedNow, row
  <2>3. KeptWhileLive'
    BY <1>1, <2>1 DEF KeptInvariant, KeptWhileLive, Orphaned, Beating, row, heart
  <2>. QED
    BY <1>3, <1>4, <2>2, <2>3 DEF KeptInvariant
<1>. QED
  BY <1>5, <1>6

LEMMA CreateNewLockKeeps ==
  ASSUME LeaseInvariant, KeptInvariant, PunctualAssumption, NEW r \in Run,
         CreateNewLock(r)
  PROVE  KeptInvariant'
BY GrantKeeps DEF CreateNewLock

LEMMA TakeOverExpiredLockKeeps ==
  ASSUME LeaseInvariant, KeptInvariant, PunctualAssumption, NEW r \in Run,
         TakeOverExpiredLock(r)
  PROVE  KeptInvariant'
BY GrantKeeps DEF TakeOverExpiredLock

LEMMA StartHeartbeatKeeps ==
  ASSUME LeaseInvariant, KeptInvariant, PunctualAssumption, NEW r \in Run,
         StartHeartbeat(r)
  PROVE  KeptInvariant'
<1>1. /\ Home[r] \in Instance /\ now \in Int /\ Interval \in Nat /\ Lease \in Nat
      /\ Skew[Home[r]] \in Int /\ Interval <= Lease
  BY LeaseLockAssumption DEF LeaseInvariant, TypeOK, PunctualAssumption
<1>2. ASSUME NEW s \in Run
      PROVE  Clock(s)' = Clock(s) /\ (s # r /\ Home[s] = Home[r] => ~Active(s))
  BY DEF StartHeartbeat, Clock, LeaseInvariant, OneActive, Active
<1>3. ReadNow'
  BY <1>2 DEF LeaseInvariant, TypeOK, KeptInvariant, ReadNow, StartHeartbeat, read
<1>4. RegisteredAtHome' /\ NotToldEarly' /\ GrantedNow'
  BY <1>1, <1>2 DEF LeaseInvariant, TypeOK, KeptInvariant, RegisteredAtHome,
     NotToldEarly, GrantedNow, Active, StartHeartbeat, row
<1>5. KeptWhileLive'
  <2>1. holder' = Home[r] /\ Clock(r)' <= expires'
    <3>1. holder' = Home[r] /\ expires' = Clock(r) + Lease
      BY DEF KeptInvariant, GrantedNow, StartHeartbeat, row
    <3>. QED
      BY <1>1, <1>2, <3>1 DEF Clock
  <2>2. Beating(r)'
    <3>1. /\ beat'[r] = "wait" /\ ~stopped'[r] /\ channel'[Home[r]] = r
          /\ due'[r] = now + Interval /\ now' = now
      BY <1>1 DEF LeaseInvariant, TypeOK, StartHeartbeat
    <3>2. expires' = now + Skew[Home[r]] + Lease
      BY DEF KeptInvariant, GrantedNow, StartHeartbeat, row, Clock
    <3>. QED
      BY <1>1, <3>1, <3>2 DEF Beating
  <2>3. ASSUME NEW s \in Run, s # r, pc'[s] = "run", ctx'[s] = "live"
        PROVE  Orphaned(s)'
    <3>1. pc[s] = "run" /\ ctx[s] = "live" /\ Home[s] # Home[r]
      BY <1>2, <2>3 DEF Active, LeaseInvariant, TypeOK, StartHeartbeat
    <3>2. holder = Home[r] /\ (Orphaned(s) \/ holder = Home[s])
      BY <3>1 DEF KeptInvariant, GrantedNow, KeptWhileLive, StartHeartbeat
    <3>. QED
      BY <2>3, <3>1, <3>2 DEF Orphaned, StartHeartbeat
  <2>. QED
    BY <1>2, <2>1, <2>2, <2>3 DEF KeptWhileLive
<1>. QED
  BY <1>3, <1>4, <1>5 DEF KeptInvariant

(* A heartbeat of a run that keeps the lock tells it when it gives up.        *)
LEMMA GiveUpTells ==
  ASSUME LeaseInvariant, KeptInvariant, PunctualAssumption, NEW r \in Run,
         GiveUp(r), pc[r] = "run", ctx[r] = "live", ~Orphaned(r)
  PROVE  told'[r]
<1>1. CASE told[r]
  BY <1>1 DEF LeaseInvariant, TypeOK, GiveUp, SendLockLost
<1>2. CASE ~told[r]
  <2>1. ~stopped[r] /\ channel[Home[r]] = r
    BY <1>2 DEF KeptInvariant, KeptWhileLive, Beating
  <2>2. ~Halted(r) /\ r # NoRun
    BY <2>1, LeaseLockAssumption DEF Halted
  <2>. QED
    BY <2>1, <2>2 DEF LeaseInvariant, TypeOK, GiveUp, SendLockLost
<1>. QED
  BY <1>1, <1>2

(* What a heartbeat that gives up leaves alone: it tells its own run, or one  *)
(* that has returned.                                                         *)
LEMMA GiveUpLeaves ==
  ASSUME LeaseInvariant, KeptInvariant, PunctualAssumption, NEW r \in Run,
         GiveUp(r), beat[r] \in {"wait", "refresh"}
  PROVE  /\ \A s \in Run : told[s] => told'[s]
         /\ \A s \in Run : s # r => beat'[s] = beat[s]
         /\ \A s \in Run : s # r /\ pc[s] # "done" => (told'[s] <=> told[s])
         /\ \A s \in Run : s # r /\ Active(s) => channel'[Home[s]] = channel[Home[s]]
         /\ \A i \in Instance : channel'[i] \in {NoRun, channel[i]}
         /\ beat'[r] = "ending"
         /\ (told'[r] <=> told[r]) \/ ~stopped[r]
<1>1. beat' = [beat EXCEPT ![r] = "ending"] /\ Home[r] \in Instance
  BY LeaseLockAssumption DEF GiveUp
<1>2. CASE UNCHANGED <<told, channel>>
  BY <1>1, <1>2 DEF LeaseInvariant, TypeOK
<1>3. CASE ~Halted(r) /\ channel[Home[r]] # NoRun /\ SendLockLost(r)
  <2> DEFINE q == channel[Home[r]]
  <2>1. /\ told' = [told EXCEPT ![q] = TRUE]
        /\ channel' = [channel EXCEPT ![Home[r]] = NoRun]
    BY <1>3 DEF SendLockLost
  <2>2. q \in Run /\ Home[q] = Home[r]
    BY <1>1, <1>3 DEF LeaseInvariant, TypeOK, KeptInvariant, RegisteredAtHome
  <2>3. pc[r] \notin {"new", "done"} /\ ~stopped[r]
    BY <1>3 DEF Halted, LeaseInvariant, BeatIsLater
  <2>4. \A s \in Run : s # r /\ Home[s] = Home[r] => ~Active(s)
    BY <2>3 DEF LeaseInvariant, OneActive, Active
  <2>5. q = r \/ pc[q] = "done"
    BY <2>2, <2>4 DEF Active, KeptInvariant, NotToldEarly
  <2>6. told \in [Run -> BOOLEAN]
    BY DEF LeaseInvariant, TypeOK
  <2> HIDE DEF q
  <2>7. \A s \in Run : (told[s] => told'[s]) /\ (s # q => (told'[s] <=> told[s]))
    BY <2>1, <2>2, <2>6, Zenon
  <2>8. \A s \in Run : s # r /\ pc[s] # "done" => (told'[s] <=> told[s])
    BY <2>5, <2>7
  <2>9. \A s \in Run : s # r => beat'[s] = beat[s]
    BY <1>1 DEF LeaseInvariant, TypeOK
  <2>10. \A s \in Run : s # r /\ Active(s) => channel'[Home[s]] = channel[Home[s]]
    BY <1>1, <2>1, <2>4, LeaseLockAssumption DEF LeaseInvariant, TypeOK
  <2>11. beat'[r] = "ending" /\ \A i \in Instance : channel'[i] \in {NoRun, channel[i]}
    BY <1>1, <2>1 DEF LeaseInvariant, TypeOK
  <2>. QED
    BY <2>3, <2>7, <2>8, <2>9, <2>10, <2>11
<1>. QED
  BY <1>2, <1>3 DEF GiveUp, SendLockLost

(* The heartbeat of a run gives up, and writes nothing.                       *)
LEMMA GiveUpKeeps ==
  ASSUME LeaseInvariant, KeptInvariant, PunctualAssumption, NEW r \in Run,
         GiveUp(r), beat[r] \in {"wait", "refresh"},
         \A s \in Run : s # r => beatStamp'[s] = beatStamp[s],
         UNCHANGED <<now, pc, stamp, ctx, due, stopped, canceler, holder>>,
         \/ UNCHANGED expires
         \/ /\ holder = Home[r] /\ Clock(r) <= expires'
            /\ \A s \in Run : s # r /\ pc[s] \in {"start", "run"} => Home[s] # Home[r]
  PROVE  KeptInvariant'
<1>1. ASSUME NEW s \in Run
      PROVE  /\ Clock(s)' = Clock(s)
             /\ told[s] => told'[s]
             /\ s # r => beat'[s] = beat[s]
             /\ s # r /\ pc[s] # "done" => (told'[s] <=> told[s])
             /\ s # r /\ Active(s) => channel'[Home[s]] = channel[Home[s]]
  BY GiveUpLeaves DEF Clock
<1>2. beat'[r] = "ending" /\ pc[r] \notin {"new", "insert", "takeover", "start"}
  BY GiveUpLeaves DEF LeaseInvariant, BeatIsLater
<1>3. ReadNow'
  BY <1>1, <1>2 DEF KeptInvariant, ReadNow
<1>4. RegisteredAtHome'
  BY GiveUpLeaves DEF KeptInvariant, RegisteredAtHome
<1>5. NotToldEarly'
  <2>1. ASSUME NEW s \in Run, pc[s] \in {"new", "insert", "takeover", "start"}
        PROVE  ~told'[s] /\ channel'[Home[s]] # s
    <3>1. s # r /\ ~told[s] /\ channel[Home[s]] # s /\ pc[s] # "done"
      BY <1>2, <2>1 DEF KeptInvariant, NotToldEarly
    <3>2. channel'[Home[s]] \in {NoRun, channel[Home[s]]} /\ s # NoRun
      BY GiveUpLeaves, LeaseLockAssumption
    <3>. QED
      BY <1>1, <3>1, <3>2
  <2>. QED
    BY <2>1 DEF NotToldEarly
<1>6. GrantedNow'
  BY <1>1, <1>2 DEF KeptInvariant, GrantedNow
<1>7. KeptWhileLive'
  <2>1. ASSUME NEW s \in Run, s # r, pc[s] = "run", ctx[s] = "live"
        PROVE  \/ Orphaned(s)'
               \/ holder = Home[s] /\ Clock(s) <= expires' /\ (told'[s] \/ Beating(s)')
    <3>1. told'[s] <=> told[s]
      BY <1>1, <2>1
    <3>2. CASE Orphaned(s)
      BY <3>1, <3>2 DEF Orphaned
    <3>3. CASE ~Orphaned(s)
      <4>1. /\ holder = Home[s] /\ Clock(s) <= expires /\ (told[s] \/ Beating(s))
            /\ expires' = expires /\ Active(s)
        BY <1>1, <2>1, <3>3 DEF KeptInvariant, KeptWhileLive, Active
      <4>. QED
        BY <1>1, <2>1, <4>1 DEF Beating
    <3>. QED
      BY <3>2, <3>3
  <2>2. ASSUME pc[r] = "run", ctx[r] = "live"
        PROVE  \/ Orphaned(r)'
               \/ holder = Home[r] /\ Clock(r) <= expires' /\ told'[r]
    <3>1. CASE Orphaned(r)
      BY <3>1, GiveUpLeaves DEF Orphaned
    <3>2. CASE ~Orphaned(r)
      BY <2>2, <3>2, GiveUpTells DEF KeptInvariant, KeptWhileLive
    <3>. QED
      BY <3>1, <3>2
  <2>. QED
    BY <1>1, <2>1, <2>2 DEF KeptWhileLive
<1>. QED
  BY <1>3, <1>4, <1>5, <1>6, <1>7 DEF KeptInvariant

LEMMA LookUpKeeps ==
  ASSUME LeaseInvariant, KeptInvariant, PunctualAssumption, NEW r \in Run, LookUp(r)
  PROVE  KeptInvariant'
<1>1. CASE holder # Home[r]
  BY <1>1, GiveUpKeeps DEF LookUp, row, job, read
<1>2. CASE holder = Home[r]
  <2>1. /\ beat' = [beat EXCEPT ![r] = "refresh"]
        /\ beatStamp' = [beatStamp EXCEPT ![r] = Clock(r)]
        /\ due' = [due EXCEPT ![r] = NextTick(r)]
        /\ UNCHANGED <<told, channel, now, row, pc, stamp, ctx, stopped, canceler>>
        /\ beat[r] = "wait" /\ now >= due[r]
    BY <1>2 DEF LookUp, job, read
  <2>2. ASSUME NEW s \in Run
        PROVE  Clock(s)' = Clock(s)
    BY <2>1 DEF Clock
  <2>3. ReadNow' /\ RegisteredAtHome' /\ NotToldEarly' /\ GrantedNow'
    BY <2>1, <2>2 DEF LeaseInvariant, TypeOK, KeptInvariant, ReadNow,
       RegisteredAtHome, NotToldEarly, GrantedNow, row
  <2>4. ASSUME Beating(r)
        PROVE  Beating(r)'
    <3>1. /\ now \in Int /\ due[r] \in Int /\ Interval \in Nat /\ Interval > 0
          /\ NextTick(r) \in Int
      BY LeaseLockAssumption, NextTickType DEF LeaseInvariant, TypeOK
    <3>2. now = due[r]
      BY <2>1, <2>4, <3>1 DEF Beating
    <3>3. NextTick(r) = now + Interval
      <4>1. now - due[r] = 0 /\ 0 \div Interval = 0
        BY <3>1, <3>2
      <4>. QED
        BY <3>1, <3>2, <4>1 DEF NextTick
    <3>. QED
      BY <2>1, <2>4, <3>1, <3>3 DEF Beating, LeaseInvariant, TypeOK
  <2>5. ASSUME NEW s \in Run, s # r, Beating(s)
        PROVE  Beating(s)'
    BY <2>1, <2>5 DEF Beating, LeaseInvariant, TypeOK, row
  <2>6. KeptWhileLive'
    BY <2>1, <2>2, <2>4, <2>5 DEF KeptInvariant, KeptWhileLive, Orphaned, row
  <2>. QED
    BY <2>3, <2>6 DEF KeptInvariant
<1>. QED
  BY <1>1, <1>2

LEMMA RefreshLockKeeps ==
  ASSUME LeaseInvariant, KeptInvariant, PunctualAssumption, NEW r \in Run,
         RefreshLock(r)
  PROVE  KeptInvariant'
<1> PICK t \in beatStamp[r]..Clock(r) :
       IF Refreshable(r, t)
         THEN /\ expires' = t + Lease
              /\ version' = version + 1
              /\ \/ /\ lease' = [lease EXCEPT ![r] = t + Lease]
                    /\ beat' = [beat EXCEPT ![r] = "wait"]
                    /\ UNCHANGED <<told, channel>>
                 \/ GiveUp(r) /\ UNCHANGED lease
         ELSE GiveUp(r) /\ UNCHANGED <<expires, version, lease>>
  BY DEF RefreshLock
<1>1. t = Clock(r) /\ Clock(r) \in Int /\ Lease \in Nat
  <2>1. beatStamp[r] = Clock(r) /\ Clock(r) \in Int
    BY ClockType DEF LeaseInvariant, KeptInvariant, ReadNow, RefreshLock
  <2>. QED
    BY <2>1, LeaseLockAssumption
<1>2. /\ UNCHANGED <<now, pc, stamp, ctx, due, stopped, canceler, holder>>
      /\ beat[r] = "refresh"
      /\ \A s \in Run : s # r => beatStamp'[s] = beatStamp[s]
  BY DEF RefreshLock, read, ForgetBeat, LeaseInvariant, TypeOK
<1>0. ASSUME NEW s \in Run, s # r, pc[s] \in {"start", "run"}, Home[s] = Home[r]
      PROVE  ~Refreshable(r, t)
  <2>1. beatSeen[r] < version /\ beatSeen[r] \in Nat /\ version \in Nat
    BY <1>0, <1>2 DEF LeaseInvariant, TypeOK, BeatIsOutdated
  <2>. QED
    BY <2>1 DEF Refreshable
<1>3. CASE ~Refreshable(r, t)
  BY <1>2, <1>3, GiveUpKeeps
<1>4. CASE Refreshable(r, t) /\ GiveUp(r)
  <2>1. holder = Home[r] /\ Clock(r) <= expires'
    BY <1>1, <1>4 DEF Refreshable
  <2>2. \A s \in Run : s # r /\ pc[s] \in {"start", "run"} => Home[s] # Home[r]
    BY <1>0, <1>4
  <2>. QED
    BY <1>2, <1>4, <2>1, <2>2, GiveUpKeeps
<1>5. CASE /\ Refreshable(r, t) /\ beat' = [beat EXCEPT ![r] = "wait"]
           /\ UNCHANGED <<told, channel>>
  <2>1. holder = Home[r] /\ expires' = Clock(r) + Lease
    BY <1>1, <1>5 DEF Refreshable
  <2>2. ASSUME NEW s \in Run
        PROVE  /\ Clock(s)' = Clock(s)
               /\ s # r => /\ beat'[s] = beat[s]
                           /\ pc[s] \in {"start", "run"} => Home[s] # holder
    BY <1>0, <1>2, <1>5, <2>1 DEF Clock, LeaseInvariant, TypeOK
  <2>3. beat'[r] = "wait" /\ pc[r] \notin {"new", "insert", "takeover", "start"}
    BY <1>2, <1>5 DEF LeaseInvariant, TypeOK, BeatIsLater
  <2>4. ReadNow' /\ RegisteredAtHome' /\ NotToldEarly' /\ GrantedNow'
    BY <1>2, <1>5, <2>2, <2>3 DEF KeptInvariant, ReadNow, RegisteredAtHome,
       NotToldEarly, GrantedNow
  <2>5. ASSUME Beating(r)
        PROVE  Beating(r)'
    <3>1. /\ now \in Int /\ due[r] \in Int /\ Interval \in Nat /\ Interval <= Lease
          /\ Skew[Home[r]] \in Int
      BY LeaseLockAssumption DEF LeaseInvariant, TypeOK, PunctualAssumption
    <3>. QED
      BY <1>1, <1>2, <1>5, <2>1, <2>3, <2>5, <3>1 DEF Beating, Clock
  <2>6. KeptWhileLive'
    BY <1>1, <1>2, <1>5, <2>1, <2>2, <2>5 DEF KeptInvariant, KeptWhileLive, Orphaned
  <2>. QED
    BY <2>4, <2>6 DEF KeptInvariant
<1>. QED
  BY <1>3, <1>4, <1>5

LEMMA HeartbeatFailsKeeps ==
  ASSUME LeaseInvariant, KeptInvariant, PunctualAssumption, NEW r \in Run,
         HeartbeatFails(r)
  PROVE  KeptInvariant'
<1>1. /\ UNCHANGED <<now, pc, stamp, ctx, due, stopped, canceler, holder, expires>>
      /\ \A s \in Run : s # r => beatStamp'[s] = beatStamp[s]
      /\ GiveUp(r) /\ beat[r] \in {"wait", "refresh"}
  BY DEF HeartbeatFails, row, job, read, ForgetBeat, LeaseInvariant, TypeOK
<1>. QED
  BY <1>1, GiveUpKeeps

LEMMA NoticeHaltKeeps ==
  ASSUME LeaseInvariant, KeptInvariant, PunctualAssumption, NEW r \in Run,
         NoticeHalt(r)
  PROVE  KeptInvariant'
<1>1. ASSUME NEW s \in Run
      PROVE  Clock(s)' = Clock(s) /\ (s # r => beat'[s] = beat[s])
  BY DEF NoticeHalt, Clock, LeaseInvariant, TypeOK
<1>2. beat'[r] = "ending"
  BY DEF NoticeHalt, LeaseInvariant, TypeOK
<1>3. ReadNow' /\ RegisteredAtHome' /\ NotToldEarly' /\ GrantedNow'
  BY <1>1, <1>2 DEF KeptInvariant, ReadNow, RegisteredAtHome, NotToldEarly,
     GrantedNow, NoticeHalt, row, job, read
<1>4. pc[r] = "run" /\ ctx[r] = "live" => ~Beating(r)
  BY DEF NoticeHalt, Halted, Beating
<1>5. KeptWhileLive'
  BY <1>1, <1>4 DEF KeptInvariant, KeptWhileLive, Orphaned, Beating, NoticeHalt, row, job
<1>. QED
  BY <1>3, <1>5 DEF KeptInvariant

LEMMA EndHeartbeatKeeps ==
  ASSUME LeaseInvariant, KeptInvariant, PunctualAssumption, NEW r \in Run,
         EndHeartbeat(r)
  PROVE  KeptInvariant'
<1>1. ASSUME NEW s \in Run
      PROVE  Clock(s)' = Clock(s) /\ (s # r => beat'[s] = beat[s])
  BY DEF EndHeartbeat, Clock, LeaseInvariant, TypeOK
<1>2. ASSUME NEW s \in Run
      PROVE  /\ told'[s] <=> told[s]
             /\ stopped[s] => stopped'[s]
  BY DEF EndHeartbeat
<1>3. beat[r] = "ending" /\ beat'[r] = "off"
  BY DEF EndHeartbeat, LeaseInvariant, TypeOK
<1>4. ReadNow' /\ NotToldEarly' /\ GrantedNow'
  BY <1>1, <1>3 DEF KeptInvariant, ReadNow, NotToldEarly, GrantedNow,
     EndHeartbeat, row, job, read
<1>5. RegisteredAtHome'
  BY DEF KeptInvariant, RegisteredAtHome, EndHeartbeat, LeaseInvariant, TypeOK
<1>6. ~Beating(r)
  BY <1>3 DEF Beating
<1>7. KeptWhileLive'
  <2>1. ASSUME NEW s \in Run, pc[s] = "run", ctx[s] = "live"
        PROVE  \/ Orphaned(s)'
               \/ holder = Home[s] /\ Clock(s) <= expires /\ (told'[s] \/ Beating(s)')
    <3>1. CASE Orphaned(s) \/ told[s]
      BY <1>2, <2>1, <3>1 DEF Orphaned, KeptInvariant, KeptWhileLive
    <3>2. CASE ~told[s] /\ ~Orphaned(s) /\ stopped'[s]
      BY <1>2, <3>2 DEF Orphaned
    <3>3. CASE ~told[s] /\ ~Orphaned(s) /\ ~stopped'[s]
      <4>1. holder = Home[s] /\ Clock(s) <= expires /\ Beating(s) /\ s # r
        BY <1>6, <2>1, <3>3 DEF KeptInvariant, KeptWhileLive
      <4>. QED
        BY <1>1, <3>3, <4>1 DEF Beating, EndHeartbeat, row
    <3>. QED
      BY <3>1, <3>2, <3>3
  <2>. QED
    BY <1>1, <2>1 DEF KeptWhileLive, EndHeartbeat, row, job
<1>. QED
  BY <1>4, <1>5, <1>7 DEF KeptInvariant

LEMMA CancelJobKeeps ==
  ASSUME LeaseInvariant, KeptInvariant, PunctualAssumption, NEW r \in Run,
         CancelJob(r)
  PROVE  KeptInvariant'
<1>1. ReadNow' /\ RegisteredAtHome'
  BY DEF LeaseInvariant, TypeOK, KeptInvariant, ReadNow, RegisteredAtHome, Clock,
     CancelJob, row, read, job, heart
<1>2. NotToldEarly' /\ GrantedNow'
  BY DEF LeaseInvariant, TypeOK, KeptInvariant, NotToldEarly, GrantedNow, Clock,
     CancelJob, row, read, job, heart
<1>3. KeptWhileLive'
  BY DEF LeaseInvariant, TypeOK, KeptInvariant, KeptWhileLive, Orphaned, Beating, Clock,
     CancelJob, row, read, job, heart
<1>. QED
  BY <1>1, <1>2, <1>3 DEF KeptInvariant

LEMMA JobTimeoutKeeps ==
  ASSUME LeaseInvariant, KeptInvariant, PunctualAssumption, NEW r \in Run,
         JobTimeout(r)
  PROVE  KeptInvariant'
<1>1. ReadNow' /\ RegisteredAtHome'
  BY DEF LeaseInvariant, TypeOK, KeptInvariant, ReadNow, RegisteredAtHome, Clock,
     JobTimeout, row, read, job, heart
<1>2. NotToldEarly' /\ GrantedNow'
  BY DEF LeaseInvariant, TypeOK, KeptInvariant, NotToldEarly, GrantedNow, Clock,
     JobTimeout, row, read, job, heart
<1>3. KeptWhileLive'
  BY DEF LeaseInvariant, TypeOK, KeptInvariant, KeptWhileLive, Orphaned, Beating, Clock,
     JobTimeout, row, read, job, heart
<1>. QED
  BY <1>1, <1>2, <1>3 DEF KeptInvariant

LEMMA FinishJobKeeps ==
  ASSUME LeaseInvariant, KeptInvariant, PunctualAssumption, NEW r \in Run,
         FinishJob(r)
  PROVE  KeptInvariant'
<1>1. ReadNow' /\ RegisteredAtHome'
  BY DEF LeaseInvariant, TypeOK, KeptInvariant, ReadNow, RegisteredAtHome, Clock,
     FinishJob, row, read, heart
<1>2. NotToldEarly' /\ GrantedNow'
  BY DEF LeaseInvariant, TypeOK, KeptInvariant, NotToldEarly, GrantedNow, Clock,
     FinishJob, row, read, heart
<1>3. KeptWhileLive'
  BY DEF LeaseInvariant, TypeOK, KeptInvariant, KeptWhileLive, Orphaned, Beating, Clock,
     FinishJob, row, read, heart
<1>. QED
  BY <1>1, <1>2, <1>3 DEF KeptInvariant

LEMMA CleanupLockResourcesKeeps ==
  ASSUME LeaseInvariant, KeptInvariant, PunctualAssumption, NEW r \in Run,
         CleanupLockResources(r)
  PROVE  KeptInvariant'
<1>1. ASSUME NEW s \in Run, s # r, Active(s)
      PROVE  /\ stopped'[s] <=> stopped[s]
             /\ channel'[Home[s]] = channel[Home[s]]
  <2>1. Home[r] \in Instance /\ Home[s] # Home[r] /\ s # NoRun
    BY <1>1, LeaseLockAssumption DEF LeaseInvariant, OneActive, Active,
       CleanupLockResources
  <2>2. s # canceler[Home[r]]
    BY <2>1 DEF KeptInvariant, RegisteredAtHome
  <2>. QED
    BY <2>1, <2>2 DEF CleanupLockResources, LeaseInvariant, TypeOK
<1>2. /\ pc'[r] = "info"
      /\ \A s \in Run : Clock(s)' = Clock(s) /\ (s # r => pc'[s] = pc[s])
  BY DEF CleanupLockResources, LeaseInvariant, TypeOK, Clock
<1>3. ReadNow' /\ RegisteredAtHome'
  BY <1>2 DEF LeaseInvariant, TypeOK, KeptInvariant, ReadNow, RegisteredAtHome,
     CleanupLockResources, read, heart
<1>4. NotToldEarly' /\ GrantedNow'
  <2>1. \A i \in Instance : channel'[i] \in {NoRun, channel[i]}
    BY DEF CleanupLockResources, LeaseInvariant, TypeOK
  <2>2. \A s \in Run : Home[s] \in Instance /\ s # NoRun
    BY LeaseLockAssumption
  <2>. QED
    BY <1>2, <2>1, <2>2 DEF KeptInvariant, NotToldEarly, GrantedNow,
       CleanupLockResources, row
<1>5. KeptWhileLive'
  BY <1>1, <1>2 DEF KeptInvariant, Active, KeptWhileLive, Orphaned, Beating, CleanupLockResources,
     row, heart
<1>. QED
  BY <1>3, <1>4, <1>5 DEF KeptInvariant

LEMMA GetLockInfoKeeps ==
  ASSUME LeaseInvariant, KeptInvariant, PunctualAssumption, NEW r \in Run,
         GetLockInfo(r)
  PROVE  KeptInvariant'
<1>1. ReadNow' /\ RegisteredAtHome'
  BY DEF LeaseInvariant, TypeOK, KeptInvariant, ReadNow, RegisteredAtHome, Clock,
     GetLockInfo, row, heart
<1>2. NotToldEarly' /\ GrantedNow'
  BY DEF LeaseInvariant, TypeOK, KeptInvariant, NotToldEarly, GrantedNow, Clock,
     GetLockInfo, row, heart
<1>3. KeptWhileLive'
  BY DEF LeaseInvariant, TypeOK, KeptInvariant, KeptWhileLive, Orphaned, Beating, Clock,
     GetLockInfo, row, heart
<1>. QED
  BY <1>1, <1>2, <1>3 DEF KeptInvariant

LEMMA ReleaseLockKeeps ==
  ASSUME LeaseInvariant, KeptInvariant, PunctualAssumption, NEW r \in Run,
         ReleaseLock(r)
  PROVE  KeptInvariant'
<1>1. /\ pc'[r] = "done" /\ pc[r] = "free"
      /\ \A s \in Run : /\ Clock(s)' = Clock(s)
                        /\ s # r => /\ pc'[s] = pc[s] /\ stamp'[s] = stamp[s]
                                    /\ pc[s] \in {"start", "run"} => Home[s] # Home[r]
  BY DEF ReleaseLock, Forget, LeaseInvariant, TypeOK, Clock, OneActive, Active
<1>2. holder' = holder /\ (holder = Home[r] \/ UNCHANGED expires)
  BY DEF ReleaseLock, Releasable
<1>3. ReadNow' /\ RegisteredAtHome' /\ NotToldEarly'
  BY <1>1 DEF KeptInvariant, ReadNow, RegisteredAtHome, NotToldEarly, ReleaseLock,
     heart
<1>4. GrantedNow'
  BY <1>1, <1>2 DEF KeptInvariant, GrantedNow
<1>5. KeptWhileLive'
  BY <1>1, <1>2 DEF KeptInvariant, KeptWhileLive, Orphaned, Beating, ReleaseLock, heart
<1>. QED
  BY <1>3, <1>4, <1>5 DEF KeptInvariant

LEMMA ReleaseFailsKeeps ==
  ASSUME LeaseInvariant, KeptInvariant, PunctualAssumption, NEW r \in Run,
         ReleaseFails(r)
  PROVE  KeptInvariant'
<1>1. ReadNow' /\ RegisteredAtHome'
  BY DEF LeaseInvariant, TypeOK, KeptInvariant, ReadNow, RegisteredAtHome, Clock,
     ReleaseFails, Forget, row, heart
<1>2. NotToldEarly' /\ GrantedNow'
  BY DEF LeaseInvariant, TypeOK, KeptInvariant, NotToldEarly, GrantedNow, Clock,
     ReleaseFails, Forget, row, heart
<1>3. KeptWhileLive'
  BY DEF LeaseInvariant, TypeOK, KeptInvariant, KeptWhileLive, Orphaned, Beating, Clock,
     ReleaseFails, Forget, row, heart
<1>. QED
  BY <1>1, <1>2, <1>3 DEF KeptInvariant

LEMMA CrashKeeps ==
  ASSUME LeaseInvariant, KeptInvariant, PunctualAssumption, NEW i \in Instance,
         Crash(i)
  PROVE  KeptInvariant'
<1>1. ASSUME NEW r \in Run, Home[r] = i
      PROVE  pc'[r] = "done" /\ beat'[r] = "off"
  BY <1>1 DEF Crash
<1>2. ASSUME NEW r \in Run, Home[r] # i
      PROVE  /\ pc'[r] = pc[r] /\ stamp'[r] = stamp[r] /\ ctx'[r] = ctx[r]
             /\ beat'[r] = beat[r] /\ beatStamp'[r] = beatStamp[r]
             /\ due'[r] = due[r] /\ channel'[Home[r]] = channel[Home[r]]
  BY <1>2, LeaseLockAssumption DEF Crash, LeaseInvariant, TypeOK
<1>3. ASSUME NEW r \in Run, Home[r] # i
      PROVE  (told'[r] <=> told[r]) /\ (stopped'[r] <=> stopped[r])
  BY <1>3, Zenon DEF Crash
<1>4. UNCHANGED <<now, holder, expires, version>> /\ \A r \in Run : Clock(r)' = Clock(r)
  BY DEF Crash, row, Clock
<1>5. ReadNow' /\ GrantedNow'
  BY <1>1, <1>2, <1>4 DEF KeptInvariant, ReadNow, GrantedNow
<1>6. RegisteredAtHome'
  BY DEF KeptInvariant, RegisteredAtHome, Crash, LeaseInvariant, TypeOK
<1>7. NotToldEarly'
  BY <1>1, <1>2, <1>3 DEF KeptInvariant, NotToldEarly
<1>8. KeptWhileLive'
  BY <1>1, <1>2, <1>3, <1>4 DEF KeptInvariant, KeptWhileLive, Orphaned, Beating
<1>. QED
  BY <1>5, <1>6, <1>7, <1>8 DEF KeptInvariant

(* Time passes when nothing is under way, so that a live job's heartbeat is   *)
(* not due yet.                                                               *)
LEMMA TickKeeps ==
  ASSUME LeaseInvariant, KeptInvariant, PunctualAssumption, Tick
  PROVE  KeptInvariant'
<1>1. Prompt /\ now' = now + 1 /\ UNCHANGED <<row, job, ctx, told, heart, stopped,
                                            canceler, channel>>
  BY DEF Tick, PunctualAssumption
<1>2. ReadNow' /\ RegisteredAtHome' /\ NotToldEarly' /\ GrantedNow'
  BY <1>1 DEF KeptInvariant, ReadNow, RegisteredAtHome, NotToldEarly, GrantedNow,
     Prompt, job, heart
<1>3. ASSUME NEW r \in Run, pc[r] = "run", ctx[r] = "live", ~Orphaned(r)
      PROVE  holder' = Home[r] /\ Clock(r)' <= expires' /\ Beating(r)'
  <2>1. beat[r] # "refresh" /\ ~told[r] /\ (beat[r] = "wait" /\ ~Halted(r) => now < due[r])
    BY <1>1, <1>3 DEF Prompt, Active
  <2>2. holder = Home[r] /\ Beating(r) /\ beat[r] = "wait"
    BY <1>3, <2>1 DEF KeptInvariant, KeptWhileLive, Orphaned, Beating
  <2>3. ~Halted(r)
    BY <1>3, <2>2 DEF Beating, Halted
  <2>4. /\ now \in Int /\ due[r] \in Int /\ Skew[Home[r]] \in Int /\ expires \in Int
        /\ Interval \in Int /\ now < due[r] /\ due[r] + Skew[Home[r]] <= expires
    BY <2>1, <2>2, <2>3, LeaseLockAssumption DEF LeaseInvariant, TypeOK, Beating
  <2>. QED
    BY <1>1, <2>2, <2>4 DEF Beating, Clock, row, heart
<1>4. KeptWhileLive'
  BY <1>1, <1>3 DEF KeptWhileLive, Orphaned, job
<1>. QED
  BY <1>2, <1>4 DEF KeptInvariant

LEMMA InitKept ==
  ASSUME Init
  PROVE  KeptInvariant
<1>1. \A r \in Run : Home[r] \in Instance /\ r # NoRun
  BY LeaseLockAssumption
<1>. QED
  BY <1>1 DEF Init, KeptInvariant, ReadNow, RegisteredAtHome, NotToldEarly,
     GrantedNow, KeptWhileLive

LEMMA NextKept ==
  ASSUME LeaseInvariant, KeptInvariant, PunctualAssumption, [Next]_vars
  PROVE  KeptInvariant'
<1>1. CASE UNCHANGED vars
  BY <1>1 DEF KeptInvariant, ReadNow, RegisteredAtHome, NotToldEarly, GrantedNow,
       KeptWhileLive, Orphaned, Beating, Clock, vars, row, read, job, heart
<1>2. ASSUME NEW r \in Run, Acquire(r)
      PROVE  KeptInvariant'
  BY <1>2, FindExistingLockKeeps, CreateNewLockKeeps, TakeOverExpiredLockKeeps,
     StartHeartbeatKeeps DEF Acquire
<1>3. ASSUME NEW r \in Run, Heartbeat(r)
      PROVE  KeptInvariant'
  BY <1>3, LookUpKeeps, RefreshLockKeeps, HeartbeatFailsKeeps, NoticeHaltKeeps,
     EndHeartbeatKeeps DEF Heartbeat
<1>4. ASSUME NEW r \in Run, Job(r)
      PROVE  KeptInvariant'
  BY <1>4, CancelJobKeeps, JobTimeoutKeeps, FinishJobKeeps,
     CleanupLockResourcesKeeps, GetLockInfoKeeps, ReleaseLockKeeps,
     ReleaseFailsKeeps DEF Job
<1>. QED
  BY <1>1, <1>2, <1>3, <1>4, CrashKeeps, TickKeeps DEF Next

(* The invariant of a lock whose users are punctual.                          *)
THEOREM PunctualInvariance ==
  ASSUME PunctualAssumption
  PROVE  Spec => [](LeaseInvariant /\ KeptInvariant)
<1>1. OneAtATime
  BY DEF PunctualAssumption, OneAtATime
<1>2. Init => LeaseInvariant /\ KeptInvariant
  BY InitInvariant, InitKept
<1>3. LeaseInvariant /\ KeptInvariant /\ [Next]_vars => (LeaseInvariant /\ KeptInvariant)'
  BY <1>1, NextInvariant, NextKept
<1>. QED
  BY <1>2, <1>3, PTL DEF Spec

(* While the context of a job is live, the lock belongs to its instance, when *)
(* no step but the end of a heartbeat is delayed over a tick of the clock, and *)
(* the lock is refreshed at least once per lease.  How far the clocks differ  *)
(* within the margin, which queries fail, which instances crash and how often *)
(* the job runs does not matter.  A job whose heartbeat the end of an earlier *)
(* run's has cancelled keeps the lock until its lease has ended.              *)
THEOREM JobKeepsLock ==
  ASSUME PunctualAssumption
  PROVE  Spec => []JobHoldsLock
<1>1. LeaseInvariant /\ KeptInvariant => JobHoldsLock
  <2>1. ASSUME LeaseInvariant, KeptInvariant, NEW r \in Run, pc[r] = "run", ctx[r] = "live"
        PROVE  holder = Home[r] \/ (Orphaned(r) /\ lease[r] <= Clock(r))
    <3>1. lease[r] \in Int /\ Clock(r) \in Int
      BY <2>1, ClockType DEF LeaseInvariant, TypeOK
    <3>2. Orphaned(r) \/ holder = Home[r]
      BY <2>1 DEF KeptInvariant, KeptWhileLive
    <3>3. lease[r] > Clock(r) => holder = Home[r]
      BY <2>1 DEF LeaseInvariant, LeaseIsWritten, Holds
    <3>. QED
      BY <3>1, <3>2, <3>3
  <2>. QED
    BY <2>1 DEF JobHoldsLock
<1>. QED
  BY <1>1, PunctualInvariance, PTL
===============================================================================
