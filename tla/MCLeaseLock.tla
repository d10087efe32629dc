------------------------------ MODULE MCLeaseLock -----------------------------
(* Instances of LeaseLock small enough for TLC.  A unit of time is the        *)
(* heartbeat interval; the clock of the second instance is ahead.             *)
EXTENDS LeaseLock, TLC

CONSTANTS a, b, r1, r2, r3

MCTwoAndOne == (r1 :> a) @@ (r2 :> a) @@ (r3 :> b)
MCSkew == [i \in Instance |-> IF i = b THEN 1 ELSE 0]

(* The two runs of the first instance are alike: r1 is the one to start first. *)
InOrder == pc[r1] # "new" \/ pc[r2] = "new"

(* What a run that has returned, or a heartbeat that has ended, remembers is   *)
(* read by no step and by no property.                                        *)
Remembered ==
  LET Over(r) == pc[r] = "done"
      Off(r) == beat[r] = "off" IN
  << now, row, pc, read, canceler, channel, beat, beatStamp, beatSeen,
     [r \in Run |-> IF Over(r) /\ Off(r) THEN 0 ELSE lease[r]],
     [r \in Run |-> IF Over(r) THEN "live" ELSE ctx[r]],
     [r \in Run |-> ~Over(r) /\ told[r]],
     [r \in Run |-> IF Off(r) THEN 0 ELSE due[r]],
     [r \in Run |-> ~Off(r) /\ stopped[r]] >>
===============================================================================
