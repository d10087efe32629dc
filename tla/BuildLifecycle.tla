---------------------------- MODULE BuildLifecycle ----------------------------
(* What the build queue promises, whatever its requests and builders do to    *)
(* each other: a build is given to a builder at most three times and only     *)
(* after its dependencies finished; it is published at most once, by a        *)
(* builder it was given to; a failed build is final unless it has used all of *)
(* its attempts.                                                              *)
EXTENDS Integers

CONSTANTS Build, Builder, Depends, Nobody

VARIABLES
  state,      \* where each build is in its life
  attempts,   \* how often it was given to a builder
  workers,    \* the builders it was given to
  publisher   \* the builder whose result was published

vars == <<state, attempts, workers, publisher>>

MaxAttempts == 3

Init ==
  /\ state = [b \in Build |-> "absent"]
  /\ attempts = [b \in Build |-> 0]
  /\ workers = [b \in Build |-> {}]
  /\ publisher = [b \in Build |-> Nobody]

Give(b, w) ==
  /\ attempts[b] < MaxAttempts
  /\ state' = [state EXCEPT ![b] = "running"]
  /\ attempts' = [attempts EXCEPT ![b] = @ + 1]
  /\ workers' = [workers EXCEPT ![b] = @ \cup {w}]
  /\ UNCHANGED publisher

Queue(b) ==
  /\ state[b] = "absent"
  /\ \A d \in Depends[b] : state[d] # "absent"
  /\ state' = [state EXCEPT ![b] = "queued"]
  /\ UNCHANGED <<attempts, workers, publisher>>

(* A client that publishes a build it makes itself gets it at once.           *)
Bind(b, w) ==
  /\ state[b] = "absent"
  /\ \A d \in Depends[b] : state[d] # "absent"
  /\ Give(b, w)

Take(b, w) ==
  /\ state[b] \in {"queued", "running"}
  /\ \A d \in Depends[b] : state[d] \in {"failed", "published"}
  /\ Give(b, w)

Fail(S) ==
  /\ \A b \in S : state[b] \in {"queued", "running"}
  /\ state' = [b \in Build |-> IF b \in S THEN "failed" ELSE state[b]]
  /\ UNCHANGED <<attempts, workers, publisher>>

Publish(b, w) ==
  /\ \/ state[b] = "running"
     \/ state[b] = "failed" /\ attempts[b] = MaxAttempts
  /\ w \in workers[b]
  /\ state' = [state EXCEPT ![b] = "published"]
  /\ publisher' = [publisher EXCEPT ![b] = w]
  /\ UNCHANGED <<attempts, workers>>

Next ==
  \/ \E b \in Build : Queue(b)
  \/ \E b \in Build, w \in Builder : Bind(b, w) \/ Take(b, w) \/ Publish(b, w)
  \/ \E S \in SUBSET Build : Fail(S)

Spec == Init /\ [][Next]_vars
===============================================================================
